SPECIFICATION Spec
CONSTANTS
  old = old
  new = new
  ingest = ingest
  reingest = reingest
  batch1 = batch1
  batch2 = batch2
  Calls = {ingest, reingest, batch1, batch2}
  Artifacts = {old, new}
  ChunksOf <- MCChunksOf
  VersionOf <- MCVersionOf
  Whole = {ingest, reingest}
  OffsetOf <- MCOffsetOf
  BatchSize = 2
SYMMETRY Symmetry
INVARIANTS TypeOK OneWriterSurvives DocumentStaysComplete BatchesAreExact OldPointsRetired
CHECK_DEADLOCK FALSE
