\* Erases by the engine and the settings app, deletions that fail, restarts.
SPECIFICATION Spec
CONSTANTS
  Trainers = {t1, t2}
  NoWords = none
  WordLists = {none, words}
  Bases = {"threw", "none", "resumable"}
  CorpusLimit = 2
  MinCommitsPerRun = 1
  MaxCommitsPerRun = 2
  LinesPerDeferredCommit = 1
  DeletionMayFail = TRUE
  SettingsAppErases = TRUE
  MaxCommits = 2
  MaxGeneration = 2
  MaxStarts = 2
  MaxFlips = 1
  MaxImports = 0
SYMMETRY TaskSymmetry
INVARIANTS
  TypeOK
  OneRunAtATime
  RunSparesPublished
  NamedModelIsThere
  ErasedIsGone
CHECK_DEADLOCK FALSE
