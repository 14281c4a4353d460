\* Two syncs at a time over three rows of one source, and a memory that cites it.
CONSTANTS
  Workers = {w1, w2}
  Sources = {s1}
  Memories = {m1}
  MaxRows = 3
SPECIFICATION Spec
SYMMETRY Symmetry
INVARIANTS TypeOK TakenIsApplied SearchAgreesWithRecords OutdatedIsReviewed
PROPERTIES RecordsAreAppendOnly ResolvedStaysResolved
