\* The engine on its own: commits, imports, the cooldown, the switch, a restart.
SPECIFICATION FairSpec
CONSTANTS
  Trainers = {t1, t2}
  NoWords = none
  WordLists = {none}
  Bases = {"resumable"}
  CorpusLimit = 2
  MinCommitsPerRun = 1
  MaxCommitsPerRun = 2
  LinesPerDeferredCommit = 1
  DeletionMayFail = FALSE
  SettingsAppErases = FALSE
  MaxCommits = 4
  MaxGeneration = 5
  MaxStarts = 2
  MaxFlips = 1
  MaxImports = 1
INVARIANTS
  CorpusCountInStep
  NoCommitsStranded
PROPERTY
  CommitsReachARun
CHECK_DEADLOCK FALSE
