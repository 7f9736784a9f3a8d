\* Files around the limit, every kind of file and settings, all short texts.
CONSTANTS
  DefaultMax = 3
  DefaultOverlap = 1
  PreviewLimit = 2
  MaxUpload = 3
  Allowance = 1
  Overheads = {0, 1, 2}
  Sizes = {0, 3, 4}
  Kinds <- MCKinds
  Texts <- MCTexts
  Inputs <- MCInputs
SPECIFICATION Spec
CHECK_DEADLOCK FALSE
INVARIANTS
  UploadBounded
  StoredCanBeSplit
  ChunksExact
