SPECIFICATION Spec
CONSTANTS
  writer = writer
  cleaner = cleaner
  Clients = {writer, cleaner}
  Does <- MCDoes
  Names = {n1, n2}
  Hosts = {h1}
  Services = {s1}
  Exts = {x1, x2}
  Times = {t1, t2}
  NULL = NULL
  MaxId = 2
  MaxResource = 2
  MaxHistory = 1
  MaxCalls = 8
CHECK_DEADLOCK FALSE
SYMMETRY MCSymmetry
INVARIANTS TypeOK Integrity ListedRowsStable DuplicatesWereRaced
PROPERTIES TombstonesPermanent HistoryAppendOnly
