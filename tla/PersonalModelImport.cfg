\* The imported text is deleted.
SPECIFICATION Spec
CONSTANTS
  Trainers = {t1, t2}
  NoWords = none
  WordLists = {none}
  Bases = {"resumable"}
  CorpusLimit = 2
  MinCommitsPerRun = 1
  MaxCommitsPerRun = 2
  LinesPerDeferredCommit = 1
  DeletionMayFail = FALSE
  SettingsAppErases = FALSE
  MaxCommits = 2
  MaxGeneration = 3
  MaxStarts = 1
  MaxFlips = 0
  MaxImports = 2
INVARIANT DeletedImportLeavesModel
CHECK_DEADLOCK FALSE
