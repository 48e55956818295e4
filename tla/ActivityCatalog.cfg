CONSTANTS
  Requests = {p1, p2}
  None = None
  c1 = c1
  c2 = c2
  Categories = {c1, c2}
  Edits <- SomeEdits
  MaxPublications = 2
SYMMETRY Symmetry
SPECIFICATION Spec
INVARIANT PublishedIsComplete
INVARIANT PublicReadsSucceed
PROPERTY UnracedKeepsLifecycle
