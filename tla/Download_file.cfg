\* A file of up to seven bytes in chunks of three, or none.
SPECIFICATION DownloadSpec
CONSTANTS
  Sizes = {0, 1, 2, 3, 5, 7}
  Chunk = 3
  MaxRefusal = 8
INVARIANTS DownloadTypeOK FileWhole
