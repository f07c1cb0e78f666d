\* Both ends read what arrives.
SPECIFICATION FairDownloadSpec
CONSTANTS
  Sizes = {3}
  Chunk = 2
  MaxRefusal = 0
PROPERTIES RenamedWhenDone
