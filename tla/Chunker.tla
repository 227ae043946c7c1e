------------------------------- MODULE Chunker -------------------------------
(* extractors/ontology_informed_chunker.py: a document is cut into chunks at  *)
(* boundaries, with an overlap.  A text is its length, the positions that     *)
(* hold white space, the boundaries the patterns find and the entities the    *)
(* names match.  One step is one turn of the loop in _create_chunks.          *)
EXTENDS Integers, Sequences, FiniteSets, FiniteSetsExt

CONSTANTS Texts,   \* records [length, blanks, breaks, entities]
          Sizes    \* records [min, max, overlap]: what the chunker is made with

(* The constructor takes the smallest chunk to be no larger than the largest   *)
(* (200 and 1500 by default, 100 and 500 in main).                             *)
ASSUME SizesAssumption ==
  \A s \in Sizes : {s.min, s.max, s.overlap} \subseteq Nat /\ s.min <= s.max
ASSUME TextsAssumption ==
  \A t \in Texts : /\ t.length \in Nat /\ t.breaks \subseteq Nat /\ IsFiniteSet(t.entities)
                  /\ \A m \in t.entities : m.start \in Nat /\ m.importance \in Nat

VARIABLES text, size,
          chunks,       \* the chunks so far
          current_pos   \* where the next one starts
chunkerVars == <<text, size, chunks, current_pos>>

ChunkerInit ==
  /\ text \in Texts /\ size \in Sizes
  /\ chunks = << >> /\ current_pos = 0

(* Entities with the importance of their type, at least 85 percent of which   *)
(* makes a boundary before the entity; white space that separates paragraphs  *)
(* and the names of the processes do as well (breaks).                        *)
Boundaries ==
  {0, text.length} \cup text.breaks
    \cup {m.start : m \in {x \in text.entities : x.importance >= 85}}

CompleteIn(from, to) == {m \in text.entities : m.start >= from /\ m.end <= to}

(* One for each complete entity, and its importance.                          *)
Score(from, to) == MapThenSumSet(LAMBDA m : 100 + m.importance, CompleteIn(from, to))

(* The lowest boundary with the best score, the largest size without one.     *)
OptimalEnd(from) ==
  LET last == IF from + size.max < text.length THEN from + size.max ELSE text.length
      valid == {b \in Boundaries : from + size.min <= b /\ b <= last}
  IN  IF valid = {} THEN last
      ELSE Min({b \in valid : \A o \in valid : Score(from, b) >= Score(from, o)})

(* What strip() leaves between two positions.                                 *)
Stripped(from, to) ==
  LET kept == (from..(to - 1)) \ text.blanks
  IN  IF kept = {} THEN 0 ELSE Max(kept) - Min(kept) + 1

Chunk(from, to) == [start |-> from, end |-> to, entities |-> CompleteIn(from, to)]

(* A chunk that strips to less than the smallest size is dropped, except the   *)
(* first.  Mutants: larger than the smallest size; than the overlap.           *)
MoreThanMinimum(from, to) == Stripped(from, to) > size.min \/ from = 0
MoreThanOverlap(from, to) == Stripped(from, to) > size.overlap \/ from = 0
LargeEnough(from, to) == Stripped(from, to) >= size.min \/ from = 0

(* Back by the overlap, unless that is not after the last chunk's start.       *)
NextPosition(lastStart, end) ==
  IF end - size.overlap <= lastStart THEN end ELSE end - size.overlap

CreateChunk ==
  /\ current_pos < text.length
  /\ LET end == OptimalEnd(current_pos)
         new == IF LargeEnough(current_pos, end) THEN << Chunk(current_pos, end) >> ELSE << >>
     IN  /\ chunks' = chunks \o new
         /\ current_pos' = NextPosition(chunks'[Len(chunks')].start, end)
  /\ UNCHANGED <<text, size>>

ChunkerNext == CreateChunk
ChunkerSpec == ChunkerInit /\ [][ChunkerNext]_chunkerVars /\ WF_chunkerVars(ChunkerNext)

Finished == current_pos >= text.length

-----------------------------------------------------------------------------
(* A character before the position is in a chunk unless it is in a stretch    *)
(* that strips to less than the smallest chunk: the last one of the text, or   *)
(* one that is long enough with the white space at its edges; wherever the     *)
(* boundaries, the entities and the overlap made the chunks end.               *)
InChunk(p) == \E i \in DOMAIN chunks : chunks[i].start <= p /\ p < chunks[i].end
InShortStretch(p) ==
  \E from \in 0..p, to \in (p + 1)..text.length :
    Stripped(from, to) < size.min /\ (to = text.length \/ to - from >= size.min)
OnlyShortStretchesAreDropped ==
  \A p \in 0..(text.length - 1) : p < current_pos => InChunk(p) \/ InShortStretch(p)

(* Where the overlap is at least the smallest chunk and nothing is stripped,   *)
(* chunking ends: a turn that drops a short tail does not come back to it.     *)
ChunkingEnds == size.overlap >= size.min /\ text.blanks = {} ~> Finished

(* chunk_document returns the list of chunks, for every text and the sizes    *)
(* the constructor defaults to.                                               *)
ChunkerReturns == <>Finished
=============================================================================
