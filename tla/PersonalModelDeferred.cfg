\* The switch goes off while a run is deferred.
SPECIFICATION Spec
CONSTANTS
  Trainers = {t1, t2}
  NoWords = none
  WordLists = {none, words}
  Bases = {"resumable"}
  CorpusLimit = 2
  MinCommitsPerRun = 1
  MaxCommitsPerRun = 2
  LinesPerDeferredCommit = 1
  DeletionMayFail = FALSE
  SettingsAppErases = FALSE
  MaxCommits = 2
  MaxGeneration = 3
  MaxStarts = 1
  MaxFlips = 1
  MaxImports = 0
PROPERTY NoRunWhileSwitchedOff
CHECK_DEADLOCK FALSE
