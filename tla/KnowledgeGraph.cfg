CONSTANTS
  Parts = {"extraction", "resolution", "provenance", "chunker", "load"}
  Directories <- MCDirectories
  Replies <- MCReplies
  BatchSize = 2
  Limit = 3
  Extracted <- MCExtracted
  MaxEntities = 3
  Normal <- MCNormal
  Similarity <- MCSimilarity
  NoName <- MCNoName
  Entities <- MCEntities
  Objects <- MCObjects
  Sources <- MCSources
  MaxObservations = 3
  MaxResolutions = 3
  MaxGroup = 2
  Texts <- MCTexts
  Sizes <- MCSizes
  Corpora <- MCCorpora
  Old <- MCOld
  ChunkSize = 3
  MaxLoads = 2
  Listable <- MCListable
  Hidden <- MCHidden
  PathEnd <- MCPathEnd
  MaxNodes = 8
  MaxAnswers = 1
SPECIFICATION Spec
CHECK_DEADLOCK FALSE
INVARIANTS
  CountedIsStoredOrFailed
  SourcesKept
  ResolutionsAreWhole
  OnlyShortStretchesAreDropped
  LoadedIsComplete
PROPERTIES
  ChunkingEnds
  GraphShowsTransformations
