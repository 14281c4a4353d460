\* One sync over two rows of one source.
CONSTANTS
  Workers = {w1}
  Sources = {s1}
  Memories = {m1}
  MaxRows = 2
SPECIFICATION Spec
INVARIANT EveryRevisionIsKept
