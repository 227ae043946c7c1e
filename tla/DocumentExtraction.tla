------------------------- MODULE DocumentExtraction -------------------------
(* The batch programs of experiments/ that turn a directory of documents into *)
(* entities with a language model: process_documents_discourse.py,            *)
(* process_documents_ollama.py, process_all_documents_mistral.py (and its     *)
(* subset), process-documents-with-ontology.py, and the extractor of          *)
(* extractors/metabolic-extractor.py.                                         *)
(*                                                                            *)
(* client.generate blocks, so the tasks of a batch run one after the other in *)
(* the order they were created; what a batch returned is stored after its     *)
(* last task, and everything is written once, at the end.  A document is its  *)
(* place, its kind of file and the words the keyword tests look for; an       *)
(* entity is its type, "text" standing for a list item that is no object.     *)
EXTENDS Naturals, Sequences, SequencesExt, FiniteSetsExt, Sieve

CONSTANTS Directories,  \* the listings a program may find, sequences of documents
          Replies,      \* what the model may answer, sequences of items
          BatchSize,    \* documents of a batch
          Limit         \* documents of a limited program

ASSUME RepliesAssumption == Replies \subseteq Seq(STRING)

Programs == {"discourse", "ollama", "mistral", "subset", "ontology", "metabolic"}
DiscourseTypes == {"Question", "Hypothesis", "Claim", "Conclusion", "Theory",
                   "Evidence", "Result", "Experiment", "Source"}

VARIABLES program,     \* which of the programs runs
          listing,     \* the directory
          files,       \* the files it chose
          next,        \* the next one of them
          batch,       \* results of the batch in progress
          results,     \* processed_entities
          stats,       \* ProcessingStats
          saved,       \* the file the results are written to
          graph,       \* the transformations the graph client accepted
          phase        \* scan, process, save, done, dead
extractionVars == <<program, listing, files, next, batch, results, stats, saved, graph, phase>>

NoResult == [entities |-> << >>, none |-> TRUE]
Result(es) == [entities |-> es, none |-> FALSE]
ZeroStats == [processed |-> 0, failed |-> 0, entities |-> 0, discourse |-> 0]

ExtractionInit ==
  /\ program \in Programs
  /\ listing \in Directories
  /\ files = << >> /\ next = 1 /\ batch = << >> /\ results = << >>
  /\ stats = ZeroStats
  /\ saved = << >> /\ graph = {}
  /\ phase = "scan"

-----------------------------------------------------------------------------
(* Choosing the files: markdown first, then json, then text.                  *)
Matching(keep(_)) ==
  LET found(ext) == SelectSeq(listing, LAMBDA d : d.ext = ext /\ keep(d))
  IN  found("md") \o found("json") \o found("txt")
Cut(s, n) == SubSeq(s, 1, IF Len(s) < n THEN Len(s) ELSE n)
NotTwitter(d) == d.place # "twitter"

Scan(chosen) ==
  /\ phase = "scan"
  /\ files' = chosen
  /\ phase' = "process"
  /\ UNCHANGED <<program, listing, next, batch, results, stats, saved, graph>>

ScanDiscourse == program = "discourse" /\ Scan(Cut(Matching(NotTwitter), Limit))
ScanOllama    == program = "ollama" /\ Scan(Cut(Matching(NotTwitter), Limit))
ScanMistral   == program = "mistral" /\ Scan(Matching(LAMBDA d : d.place \notin {"twitter", "test-documents"}))
ScanSubset    == program = "subset"
                 /\ Scan(Cut(Matching(LAMBDA d : d.place \notin {"twitter", "test-documents"}), Limit))
ScanOntology  == program = "ontology" /\ Scan(Matching(NotTwitter))
ScanMetabolic == program = "metabolic"
                 /\ Scan(Cut(SelectSeq(listing, LAMBDA d : d.place = "twitter" /\ d.ext = "md"), Limit))

-----------------------------------------------------------------------------
(* Extraction.  When the model's answer cannot be used, keywords decide.      *)
If(c, es) == IF c THEN es ELSE << >>
CountTypes(es, types) == Len(SelectSeq(es, LAMBDA e : e \in types))
CountDiscourse(es) == CountTypes(es, DiscourseTypes)
MistralTypes == DiscourseTypes \ {"Source"}
IsObject(e) == e # "text"

(* A document without a question mark has no question to list, whatever words *)
(* announce one.                                                              *)
DetectDiscourse(d) == d.words \cap {"?", "Claim", "Evidence"}
DiscourseBasic(d) ==
  << "SemanticAsset" >> \o If("?" \in DetectDiscourse(d), << "Question" >>)
  \o If("Evidence" \in DetectDiscourse(d), << "Evidence" >>)
  \o If("Claim" \in DetectDiscourse(d), << "Claim" >>)
MistralBasic(d) == << "SemanticAsset" >> \o If("carbon" \in d.words, << "EcologicalAsset" >>)
OllamaBasic(d)  == << "SemanticAsset" >> \o If("carbon" \in d.words, << "EcologicalAsset" >>)
OntologyBasic(d) ==
  << "SemanticAsset" >> \o If("carbon" \in d.words, << "EcologicalAsset" >>)
  \o If("proposal" \in d.words, << "GovernanceAct" >>)
  \o If("regen network" \in d.words, << "Agent" >>)
MetabolicBasic(d) ==
  << "SemanticAsset" >> \o If("proposal" \in d.words, << "GovernanceAct" >>)
  \o If("carbon" \in d.words, << "EcologicalAsset" >>)
  \o If("regen network" \in d.words, << "Agent" >>)

(* The items of an answer before the first on which the loop over them        *)
(* raises: "broken" stands for an answer that does not parse, "list" for a    *)
(* type that is a list, "plain" for a type without a prefix.                  *)
Usable(reply, raises) ==
  IF "broken" \in ToSet(reply) THEN << >>
  ELSE LET bad == {i \in DOMAIN reply : reply[i] \in raises}
       IN  IF bad = {} THEN reply ELSE SubSeq(reply, 1, Min(bad) - 1)
Raises(reply, raises) == ToSet(reply) \cap ({"broken"} \cup raises) # {}

(* Each returns the entities and what it added to discourse_elements.  A       *)
(* fallback does not take back what the abandoned answer had counted.         *)
DiscourseExtract(d, reply) ==
  IF Raises(reply, {"list", "plain"})
  THEN [entities |-> DiscourseBasic(d),
        discourse |-> CountDiscourse(Usable(reply, {"list", "plain"})) + CountDiscourse(DiscourseBasic(d))]
  ELSE [entities |-> reply, discourse |-> CountDiscourse(reply)]
MistralExtract(d, reply) ==
  LET valid == Without(Usable(reply, {"list"}), {"text"})
  IN  [entities |-> IF Raises(reply, {"list"}) \/ valid = << >> THEN MistralBasic(d) ELSE valid,
       discourse |-> CountTypes(valid, MistralTypes)]
OllamaExtract(d, reply) ==
  [entities |-> IF Raises(reply, {}) THEN OllamaBasic(d) ELSE reply, discourse |-> 0]
OntologyExtract(d) == [entities |-> OntologyBasic(d), discourse |-> 0]

-----------------------------------------------------------------------------
(* process_document counts the document and its entities before it lists the  *)
(* @id of each of them, which raises for an item that is no object.           *)
Counted(x) == [stats EXCEPT !.processed = @ + 1, !.entities = @ + Len(x.entities),
                            !.discourse = @ + x.discourse]
HasIds(es) == \A i \in DOMAIN es : IsObject(es[i])
(* Mutant of Outcome: a failure that is not counted.                          *)
OutcomeUncounted(x, counts) ==
  /\ batch' = Append(batch, IF HasIds(x.entities) THEN Result(x.entities) ELSE NoResult)
  /\ stats' = Counted(x)
Outcome(x, counts) ==
  IF HasIds(x.entities)
  THEN /\ batch' = Append(batch, Result(x.entities))
       /\ stats' = Counted(x)
  ELSE /\ batch' = Append(batch, NoResult)
       /\ stats' = [Counted(x) EXCEPT !.failed = @ + counts]
Unreadable(counts) ==
  /\ batch' = Append(batch, NoResult)
  /\ stats' = [stats EXCEPT !.failed = @ + counts]

Turn(p) ==
  /\ phase = "process" /\ program = p
  /\ next <= Len(files) /\ Len(batch) < BatchSize
  /\ next' = next + 1
  /\ UNCHANGED <<program, listing, files, results, saved, graph, phase>>

ProcessDiscourse ==
  /\ Turn("discourse")
  /\ IF files[next].text = "unreadable" THEN Unreadable(1)
     ELSE \E reply \in Replies : Outcome(DiscourseExtract(files[next], reply), 1)
ProcessOllama ==
  /\ Turn("ollama")
  /\ IF files[next].text = "unreadable" THEN Unreadable(1)
     ELSE \E reply \in Replies : Outcome(OllamaExtract(files[next], reply), 1)
(* A document of less than 50 characters is neither processed nor failed.     *)
ProcessMistral(p) ==
  /\ Turn(p)
  /\ CASE files[next].text = "unreadable" -> Unreadable(1)
       [] files[next].text = "short" -> Unreadable(0)
       [] OTHER -> \E reply \in Replies : Outcome(MistralExtract(files[next], reply), 1)
(* This program counts no failures.                                           *)
ProcessOntology ==
  /\ Turn("ontology")
  /\ IF files[next].text = "unreadable" THEN Unreadable(0)
     ELSE Outcome(OntologyExtract(files[next]), 0)

(* The results of a batch are stored when asyncio.gather returns; the subset  *)
(* program awaits one document at a time.                                     *)
StoreBatch ==
  /\ phase = "process" /\ program # "metabolic"
  /\ batch # << >>
  /\ Len(batch) = BatchSize \/ next > Len(files) \/ program = "subset"
  /\ results' = results \o Without(batch, {NoResult})
  /\ batch' = << >>
  /\ UNCHANGED <<program, listing, files, next, stats, saved, graph, phase>>
ProcessSubset ==
  /\ batch = << >>
  /\ ProcessMistral("subset")

(* The metabolic extractor reads without a handler: a document that is not    *)
(* UTF-8 ends the program.  Of each entity it sends the graph client only the *)
(* transformation that made it, and goes on when the client refuses.          *)
ProcessMetabolic ==
  /\ phase = "process" /\ program = "metabolic"
  /\ next <= Len(files)
  /\ IF files[next].text = "unreadable"
     THEN phase' = "dead" /\ UNCHANGED <<next, graph>>
     ELSE /\ \E accepted \in SUBSET DOMAIN MetabolicBasic(files[next]) :
               graph' = graph \cup {<<next, i>> : i \in accepted}
          /\ next' = next + 1
          /\ phase' = phase
  /\ UNCHANGED <<program, listing, files, batch, results, stats, saved>>

-----------------------------------------------------------------------------
(* Everything is written at the end.  The ontology program's total is the     *)
(* number it processed.                                                       *)
Ending ==
  /\ phase = "process"
  /\ next > Len(files) /\ batch = << >>
  /\ phase' = "done"
  /\ UNCHANGED <<program, listing, files, next, batch, results, stats, graph>>
Report(total, discourse) ==
  << [total |-> total, processed |-> stats.processed, failed |-> stats.failed,
      entities |-> stats.entities, discourse |-> discourse, documents |-> results] >>
SaveDiscourse == Ending /\ program = "discourse" /\ saved' = Report(Len(files), stats.discourse)
SaveOllama    == Ending /\ program = "ollama" /\ saved' = Report(Len(files), 0)
SaveMistral   == Ending /\ program \in {"mistral", "subset"}
                 /\ saved' = Report(Len(files), stats.discourse)
SaveOntology  == Ending /\ program = "ontology" /\ saved' = Report(stats.processed, 0)
EndMetabolic  == Ending /\ program = "metabolic" /\ saved' = saved

(* The operator stops a program that takes hours (its banner says Ctrl+C).    *)
Interrupt ==
  /\ phase = "process"
  /\ phase' = "dead"
  /\ UNCHANGED <<program, listing, files, next, batch, results, stats, saved, graph>>

ExtractionNext ==
  \/ ScanDiscourse \/ ScanOllama \/ ScanMistral \/ ScanSubset \/ ScanOntology \/ ScanMetabolic
  \/ ProcessDiscourse \/ ProcessOllama \/ ProcessMistral("mistral") \/ ProcessSubset
  \/ ProcessOntology \/ ProcessMetabolic
  \/ StoreBatch
  \/ SaveDiscourse \/ SaveOllama \/ SaveMistral \/ SaveOntology \/ EndMetabolic
  \/ Interrupt

ExtractionSpec == ExtractionInit /\ [][ExtractionNext]_extractionVars

-----------------------------------------------------------------------------
Stored == results \o Without(batch, {NoResult})

(* The report adds up: a document that was counted as processed is among the  *)
(* results or was counted as failed too, and where the program filters what   *)
(* the model answers it is among the results.                                 *)
CountedIsStoredOrFailed ==
  /\ stats.processed <= Len(Stored) + stats.failed
  /\ program \in {"mistral", "subset", "ontology"} => stats.processed = Len(Stored)
=============================================================================
