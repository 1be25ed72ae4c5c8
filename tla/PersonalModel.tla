--------------------------- MODULE PersonalModel ---------------------------
(***************************************************************************)
(* The personal language model of the conversion engine: the corpus file,  *)
(* the training runs that rebuild the model, and the generation the        *)
(* converter is told about.  engine/Sources/OhageyEngine/                  *)
(* PersonalLanguageModel.swift is translated here together with the parts  *)
(* of ConversionService.swift that call it and the erase button of the     *)
(* settings app, which works on the same directory from another process.   *)
(*                                                                         *)
(* Methods of the main actor run to completion, so each is one action.     *)
(* The detached training task runs beside them and is one action per       *)
(* operation on the file system.  Commits are numbered in the order they   *)
(* are made: a corpus line, and what a model was trained on, are sets of   *)
(* such numbers.  A generation is its number; 0 stands for Swift's nil.    *)
(***************************************************************************)
EXTENDS Integers, FiniteSets

CONSTANTS
  Trainers,             \* detached training tasks that may exist at once
  WordLists, NoWords,   \* contents of the user dictionary; the empty one
  Bases,                \* what ensureBaseModel may find when the engine starts
  CorpusLimit,          \* lines the corpus is trimmed to
  MinCommitsPerRun, MaxCommitsPerRun, LinesPerDeferredCommit,
  DeletionMayFail,      \* whether removeItem may leave a directory behind
  SettingsAppErases,    \* whether the erase button of the settings app is used
  MaxCommits, MaxGeneration, MaxStarts, MaxFlips, MaxImports   \* bounds

ASSUME ConstantsAssumption ==
  /\ Trainers # {}
  /\ NoWords \in WordLists
  /\ Bases \subseteq {"threw", "none", "empty", "real", "resumable"}
  /\ Bases # {}
  /\ CorpusLimit \in Nat \ {0}
  /\ {MinCommitsPerRun, MaxCommitsPerRun, LinesPerDeferredCommit}
        \subseteq Nat \ {0}
  /\ DeletionMayFail \in BOOLEAN
  /\ SettingsAppErases \in BOOLEAN
  /\ {MaxCommits, MaxGeneration, MaxStarts, MaxFlips, MaxImports} \subseteq Nat

VARIABLES
  \* outside the engine
  registry,      \* learning and personalisation both switched on in HKCU
  importFile,    \* imported.txt: [mtime, usable]; mtime 0 when it is absent
  corpus,        \* lines of corpus.txt
  gens,          \* complete generation directories
  partial,       \* staging directories, gen-N.partial
  content,       \* what each complete generation was trained on
  \* the engine process
  up,            \* whether it is running
  base,          \* which base model prepare found
  settings,      \* personalizationActive of the settings in force
  registered,    \* registeredWords
  imported,      \* the import importedLines came from, 0 when there are none
  importSeen,    \* importedModificationDate
  unlearned,     \* unlearnedCommits
  corpusLines,
  published,     \* publishedGeneration
  isTraining,
  cooling,       \* nextRunNotBefore lies in the future
  deferred,      \* the queued deferred run, with the settings it captured
  trainer,       \* state of each detached training task
  \* history, read by no action
  commits, starts, flips, imports,   \* how often, for the bounds
  erasedThrough, \* commits made before the latest erase
  caught,        \* commits an erase could not reach: see Caught
  pulled,        \* generations deleted between being moved in and published
  lastRun        \* outcome of the latest finished run of this process

diskVars    == <<corpus, gens, partial, content>>
outsideVars == <<registry, importFile, flips, imports>>
inputVars   == <<base, settings, registered, imported, importSeen>>
countVars   == <<unlearned, corpusLines>>
runVars     == <<isTraining, cooling, deferred, trainer>>
eraseVars   == <<erasedThrough, caught, pulled>>
vars == <<diskVars, outsideVars, up, inputVars, countVars, published, runVars,
          commits, starts, eraseVars, lastRun>>

Commits     == 1 .. MaxCommits
Generations == 1 .. MaxGeneration
Material    == [text: SUBSET Commits, import: 0 .. MaxImports, words: WordLists]
Nothing     == [text |-> {}, import |-> 0, words |-> NoWords]
Stages      == {"idle", "started", "staged", "checked", "cleared", "moved",
                "failed"}
Idle        == [stage |-> "idle", gen |-> 0, lines |-> Nothing, active |-> FALSE]
NotQueued   == [stage |-> "none", active |-> FALSE]

-----------------------------------------------------------------------------
(* Personalization.swift: the pure decisions.                              *)

(* trimmed(corpus:limit:): the newest CorpusLimit lines.                   *)
Trimmed(c) == {i \in c : Cardinality({j \in c : j > i}) < CorpusLimit}

(* commitsPerTrainingRun(corpusLines:).                                    *)
Threshold(n) ==
  LET scaled == n \div LinesPerDeferredCommit
      floor  == IF scaled < MinCommitsPerRun THEN MinCommitsPerRun ELSE scaled
  IN  IF floor > MaxCommitsPerRun THEN MaxCommitsPerRun ELSE floor

(* newestCompleteGeneration: 0 when there is none.                         *)
IsNewest(n, g) == n \in g /\ \A m \in g : m <= n
Newest(g) == IF \E n \in g : IsNewest(n, g)
             THEN CHOOSE n \in g : IsNewest(n, g) ELSE 0

(* What `try? removeItem` may leave of a set of directories.               *)
Survivors(dirs) == IF DeletionMayFail THEN SUBSET dirs ELSE {{}}

baseIsReady == base # "none"

(* personalizationMode(settings:): the generation handed to the converter, *)
(* 0 for nil.                                                              *)
ModelNamed ==
  IF settings /\ base = "resumable" THEN published ELSE 0

InFlight == {t \in Trainers : trainer[t].stage # "idle"}

-----------------------------------------------------------------------------
(* Starting a run.  These are the tails of several methods; the arguments  *)
(* carry what the method has already changed before it calls them.         *)

(* Mutants of beginTraining: one counts the threshold down instead of       *)
(* resetting the counter, one retrains the generation on offer in place,   *)
(* and one caches the line count from before the trim.                     *)
BeginTrainingMutant(active, words, import, onDisk, line, gen, count) ==
  LET read  == IF active THEN Trimmed(onDisk) ELSE {}
      lines == [text |-> read, import |-> import, words |-> words]
  IN  /\ corpus' = IF active THEN read ELSE onDisk
      /\ corpusLines' = line
      /\ unlearned' = count
      /\ IF lines = Nothing
         THEN UNCHANGED <<isTraining, trainer>>
         ELSE /\ gen <= MaxGeneration
              /\ isTraining' = TRUE
              /\ \E t \in Trainers \ InFlight :
                   trainer' = [trainer EXCEPT ![t] =
                     [stage |-> "started", gen |-> gen,
                      lines |-> lines, active |-> active]]

BeginCountsDown(active, words, import, onDisk, pub) ==
  LET n == Cardinality(IF active THEN Trimmed(onDisk) ELSE {})
  IN  BeginTrainingMutant(active, words, import, onDisk, n, pub + 1,
                          unlearned - Threshold(n))

BeginInPlace(active, words, import, onDisk, pub) ==
  BeginTrainingMutant(active, words, import, onDisk,
    Cardinality(IF active THEN Trimmed(onDisk) ELSE {}),
    IF pub = 0 THEN 1 ELSE pub, 0)

BeginCountsUntrimmed(active, words, import, onDisk, pub) ==
  BeginTrainingMutant(active, words, import, onDisk, Cardinality(onDisk),
                      pub + 1, 0)

(* beginTraining(settings:).                                               *)
BeginTraining(active, words, import, onDisk, pub) ==
  LET read  == IF active THEN Trimmed(onDisk) ELSE {}
      lines == [text |-> read, import |-> import, words |-> words]
  IN  /\ corpus' = IF active THEN read ELSE onDisk
      /\ corpusLines' = Cardinality(read)
      /\ unlearned' = 0
      /\ IF lines = Nothing
         THEN UNCHANGED <<isTraining, trainer>>
         ELSE /\ pub < MaxGeneration
              /\ isTraining' = TRUE
              /\ \E t \in Trainers \ InFlight :
                   trainer' = [trainer EXCEPT ![t] =
                     [stage |-> "started", gen |-> pub + 1,
                      lines |-> lines, active |-> active]]

(* The deferring half of startTraining: one task, however many ask.        *)
Defer(active) ==
  deferred' = IF deferred.stage = "none"
              THEN [stage |-> "asleep", active |-> active] ELSE deferred

(* startTraining(settings:).                                               *)
StartTraining(active, words, import, onDisk, lines, count, pub) ==
  IF cooling
  THEN /\ Defer(active)
       /\ corpus' = onDisk /\ corpusLines' = lines /\ unlearned' = count
       /\ UNCHANGED <<isTraining, trainer>>
  ELSE /\ BeginTraining(active, words, import, onDisk, pub)
       /\ UNCHANGED deferred

-----------------------------------------------------------------------------
(* Calls of ConversionService on the main actor.                           *)

(* commit -> record(text:settings:).                                       *)
Record ==
  /\ up /\ settings /\ baseIsReady
  /\ commits < MaxCommits
  /\ commits' = commits + 1
  /\ LET now    == corpus \union {commits + 1}
         lines  == corpusLines + 1
         count  == unlearned + 1
         starting == count >= Threshold(lines) /\ ~isTraining
     IN  IF starting
         THEN StartTraining(settings, registered, imported, now, lines, count,
                            published)
         ELSE /\ corpus' = now /\ corpusLines' = lines /\ unlearned' = count
              /\ UNCHANGED <<isTraining, trainer, deferred>>
  /\ UNCHANGED <<gens, partial, content, outsideVars, up, inputVars, published,
                 cooling, starts, eraseVars, lastRun>>

(* reloadImportedTextIfChanged: whether it reports a change.               *)
ImportChanged ==
  importFile.mtime # importSeen /\ (importFile.usable \/ imported # 0)

ImportRead == IF importFile.mtime = importSeen THEN imported
              ELSE IF importFile.usable THEN importFile.mtime ELSE 0

(* The volatile state of a process that has ended.                         *)
ProcessEnds ==
  /\ up' = FALSE
  /\ base' = "none" /\ settings' = FALSE /\ registered' = NoWords
  /\ imported' = 0 /\ importSeen' = 0
  /\ unlearned' = 0 /\ corpusLines' = 0 /\ published' = 0
  /\ isTraining' = FALSE /\ cooling' = FALSE /\ deferred' = NotQueued
  /\ trainer' = [t \in Trainers |-> Idle]
  /\ lastRun' = "none"
  /\ UNCHANGED <<outsideVars, commits, starts, eraseVars>>

(* Whether applyUserDictionary asks for a run: updateRegisteredWords when   *)
(* the words differ, trainIfNothingPublished when there is no model yet.   *)
DictionaryAsks(words) ==
  \/ words # registered
  \/ published = 0 /\ (imported # 0 \/ words # NoWords)

(* registerWord: the dictionary is written, then applyUserDictionary.      *)
ApplyUserDictionary(words) ==
  /\ up
  /\ registered' = words
  /\ IF DictionaryAsks(words) /\ settings /\ baseIsReady /\ ~isTraining
     THEN StartTraining(settings, words, imported, corpus, corpusLines,
                        unlearned, published)
     ELSE UNCHANGED <<corpus, countVars, isTraining, trainer, deferred>>
  /\ UNCHANGED <<gens, partial, content, outsideVars, up, base, settings,
                 imported, importSeen, published, cooling, commits, starts,
                 eraseVars, lastRun>>

(* convert: applyUserDictionary when the dictionary file has changed, then *)
(* refreshImportedText, then the converter loads the model                 *)
(* personalizationMode names.  A run the dictionary started has read the   *)
(* import before it was refreshed, and keeps the refresh from starting one.*)
Convert(reloaded, words) ==
  LET byDictionary == reloaded /\ DictionaryAsks(words)
      begins == words # NoWords \/ imported # 0 \/ corpus # {}
      import == IF byDictionary /\ begins THEN imported ELSE ImportRead
  IN  /\ up
      /\ ModelNamed \in gens \union {0}
      /\ reloaded \/ words = registered
      /\ registered' = words
      /\ imported' = ImportRead
      /\ importSeen' = importFile.mtime
      /\ IF /\ byDictionary \/ ImportChanged
            /\ settings /\ baseIsReady /\ ~isTraining
         THEN StartTraining(settings, words, import, corpus, corpusLines,
                            unlearned, published)
         ELSE UNCHANGED <<corpus, countVars, isTraining, trainer, deferred>>
      /\ UNCHANGED <<gens, partial, content, outsideVars, up, base, settings,
                     published, cooling, commits, starts, eraseVars, lastRun>>

(* The same when that model is not on disk: marisa throws through C++ and  *)
(* the process is gone.  A run begun just before has trimmed the corpus.   *)
ConvertMissingModel ==
  /\ up /\ ModelNamed \notin gens \union {0}
  /\ corpus' \in {corpus, Trimmed(corpus)}
  /\ UNCHANGED <<gens, partial, content>>
  /\ ProcessEnds

(* Commits an erase cannot reach: lines a run in flight has already read,  *)
(* and what stays in files that could not be deleted.                      *)
Caught(corpusLeft, gensLeft) ==
  UNION ({corpusLeft} \union {content[g].text : g \in gensLeft}
                      \union {trainer[t].lines.text : t \in InFlight})

MovedIn == {trainer[t].gen : t \in {u \in Trainers : trainer[u].stage = "moved"}}

(* Mutant: the erase leaves the corpus file.                               *)
EraseKeepsCorpus(corpusLeft, gensLeft, partialLeft) ==
  /\ gens' = gensLeft /\ partial' = partialLeft
  /\ content' = [g \in Generations |->
                   IF g \in gensLeft THEN content[g] ELSE Nothing]
  /\ erasedThrough' = commits
  /\ caught' = caught \union Caught(corpusLeft, gensLeft)
  /\ UNCHANGED corpus

(* The file system's side of an erase, by the engine or the settings app.  *)
EraseFiles(corpusLeft, gensLeft, partialLeft) ==
  /\ corpus' = corpusLeft /\ gens' = gensLeft /\ partial' = partialLeft
  /\ content' = [g \in Generations |->
                   IF g \in gensLeft THEN content[g] ELSE Nothing]
  /\ erasedThrough' = commits
  /\ caught' = caught \union Caught(corpusLeft, gensLeft)

(* updateSettings, with the erase it performs when personalisation has     *)
(* been switched off.  The last branch of erase, which would retrain, asks *)
(* for active settings and is only ever called with inactive ones.         *)
UpdateSettings ==
  /\ up /\ settings # registry
  /\ settings' = registry
  /\ IF settings
     THEN /\ \E g \in Survivors(gens), p \in Survivors(partial),
                c \in (IF DeletionMayFail THEN {{}, corpus} ELSE {{}}) :
               /\ EraseFiles(c, g, p)
               /\ pulled' = pulled \union (MovedIn \ g)
          /\ published' = 0 /\ unlearned' = 0 /\ corpusLines' = 0
     ELSE UNCHANGED <<diskVars, published, countVars, eraseVars>>
  /\ UNCHANGED <<outsideVars, up, base, registered, imported, importSeen,
                 runVars, commits, starts, lastRun>>

-----------------------------------------------------------------------------
(* The detached training task: train(generation:lines:...).                *)

(* removeItem(staging); createDirectory(staging).                          *)
Stage(t) ==
  /\ trainer[t].stage = "started"
  /\ \/ /\ partial' = partial \union {trainer[t].gen}
        /\ trainer' = [trainer EXCEPT ![t].stage = "staged"]
     \/ /\ partial' \in {partial \ {trainer[t].gen}, partial}
        /\ trainer' = [trainer EXCEPT ![t].stage = "failed"]
  /\ UNCHANGED <<corpus, gens, content, outsideVars, up, inputVars, countVars,
                 published, isTraining, cooling, deferred, commits, starts,
                 eraseVars, lastRun>>

(* trainNGram and the check that all five files arrived.  trainNGram       *)
(* creates its output directory, so it may bring back one just deleted.    *)
Train(t) ==
  /\ trainer[t].stage = "staged"
  /\ \/ /\ partial' = partial \union {trainer[t].gen}
        /\ trainer' = [trainer EXCEPT ![t].stage = "checked"]
     \/ /\ \E p \in Survivors({trainer[t].gen}) :
             partial' = (partial \ {trainer[t].gen}) \union (p \intersect partial)
        /\ trainer' = [trainer EXCEPT ![t].stage = "failed"]
  /\ UNCHANGED <<corpus, gens, content, outsideVars, up, inputVars, countVars,
                 published, isTraining, cooling, deferred, commits, starts,
                 eraseVars, lastRun>>

(* try? removeItem(destination).                                           *)
ClearDestination(t) ==
  /\ trainer[t].stage = "checked"
  /\ \E left \in Survivors(gens \intersect {trainer[t].gen}) :
       gens' = (gens \ {trainer[t].gen}) \union left
  /\ content' = [content EXCEPT ![trainer[t].gen] =
                   IF trainer[t].gen \in gens' THEN @ ELSE Nothing]
  /\ trainer' = [trainer EXCEPT ![t].stage = "cleared"]
  /\ UNCHANGED <<corpus, partial, outsideVars, up, inputVars, countVars,
                 published, isTraining, cooling, deferred, commits, starts,
                 eraseVars, lastRun>>

(* moveItem(staging, destination), which throws when the staging directory *)
(* has been deleted meanwhile or the destination is still there.           *)
MoveIntoPlace(t) ==
  LET g == trainer[t].gen IN
  /\ trainer[t].stage = "cleared"
  /\ IF g \in partial /\ g \notin gens
     THEN /\ gens' = gens \union {g}
          /\ content' = [content EXCEPT ![g] = trainer[t].lines]
          /\ trainer' = [trainer EXCEPT ![t].stage = "moved"]
          /\ pulled' = pulled \ {g}
          /\ partial' = partial \ {g}
     ELSE /\ \E p \in Survivors({g}) :
               partial' = (partial \ {g}) \union (p \intersect partial)
          /\ trainer' = [trainer EXCEPT ![t].stage = "failed"]
          /\ UNCHANGED <<gens, content, pulled>>
  /\ UNCHANGED <<corpus, outsideVars, up, inputVars, countVars, published,
                 isTraining, cooling, deferred, commits, starts,
                 erasedThrough, caught, lastRun>>

(* Mutants of finishTraining: publishing before the previous generation is *)
(* looked up, so that the new one is removed; and no look at what was      *)
(* committed during the run.                                               *)
FinishTrainingMutant(t, old, follow) ==
  LET run == trainer[t] IN
  /\ run.stage \in {"moved", "failed"}
  /\ isTraining' = FALSE
  /\ cooling' = TRUE
  /\ trainer' = [trainer EXCEPT ![t] = Idle]
  /\ IF run.stage = "moved"
     THEN /\ published' = run.gen
          /\ \E left \in Survivors(gens \intersect {old}) :
               gens' = (gens \ {old}) \union left
          /\ content' = [g \in Generations |->
                           IF g \in gens' THEN content[g] ELSE Nothing]
          /\ IF follow THEN Defer(run.active) ELSE UNCHANGED deferred
          /\ lastRun' = "published"
     ELSE /\ lastRun' = "failed"
          /\ UNCHANGED <<published, gens, content, deferred>>
  /\ UNCHANGED <<corpus, partial, outsideVars, up, inputVars, countVars,
                 commits, starts, eraseVars>>

FinishRemovesNew(t) ==
  FinishTrainingMutant(t, trainer[t].gen, unlearned >= Threshold(corpusLines))

FinishForgets(t) == FinishTrainingMutant(t, published, FALSE)

(* finishTraining, back on the main actor.  The cooldown it sets is nine   *)
(* times the length of the run, so a follow-up is always deferred.         *)
FinishTraining(t) ==
  LET run == trainer[t] IN
  /\ run.stage \in {"moved", "failed"}
  /\ isTraining' = FALSE
  /\ cooling' = TRUE
  /\ trainer' = [trainer EXCEPT ![t] = Idle]
  /\ IF run.stage = "moved"
     THEN /\ published' = run.gen
          /\ \E left \in Survivors(gens \intersect {published}) :
               gens' = (gens \ {published}) \union left
          /\ content' = [g \in Generations |->
                           IF g \in gens' THEN content[g] ELSE Nothing]
          /\ IF unlearned >= Threshold(corpusLines)
             THEN Defer(run.active) ELSE UNCHANGED deferred
          /\ lastRun' = "published"
     ELSE /\ lastRun' = "failed"
          /\ UNCHANGED <<published, gens, content, deferred>>
  /\ UNCHANGED <<corpus, partial, outsideVars, up, inputVars, countVars,
                 commits, starts, eraseVars>>

-----------------------------------------------------------------------------
(* The cooldown.                                                           *)

(* nextRunNotBefore passes; a deferred run sleeps until the same instant.  *)
CooldownEnds ==
  /\ cooling
  /\ cooling' = FALSE
  /\ deferred' = IF deferred.stage = "asleep"
                 THEN [deferred EXCEPT !.stage = "due"] ELSE deferred
  /\ UNCHANGED <<diskVars, outsideVars, up, inputVars, countVars, published,
                 isTraining, trainer, commits, starts, eraseVars, lastRun>>

(* Mutants of the deferred task: no look at isTraining; and giving up when  *)
(* a cooldown has begun meanwhile.                                         *)
DeferredMutant(runs) ==
  /\ deferred.stage = "due"
  /\ deferred' = NotQueued
  /\ IF runs
     THEN BeginTraining(deferred.active, registered, imported, corpus, published)
     ELSE UNCHANGED <<corpus, countVars, isTraining, trainer>>
  /\ UNCHANGED <<gens, partial, content, outsideVars, up, inputVars, published,
                 cooling, commits, starts, eraseVars, lastRun>>

DeferredRunBarges == DeferredMutant(deferred.active /\ baseIsReady)

DeferredRunGivesUp ==
  DeferredMutant(deferred.active /\ baseIsReady /\ ~isTraining /\ ~cooling)

(* The body of the deferred task.  The settings it tests are the ones it   *)
(* captured when it was queued.                                            *)
DeferredRunWakes ==
  /\ deferred.stage = "due"
  /\ deferred' = NotQueued
  /\ IF deferred.active /\ baseIsReady /\ ~isTraining
     THEN BeginTraining(deferred.active, registered, imported, corpus, published)
     ELSE UNCHANGED <<corpus, countVars, isTraining, trainer>>
  /\ UNCHANGED <<gens, partial, content, outsideVars, up, inputVars, published,
                 cooling, commits, starts, eraseVars, lastRun>>

-----------------------------------------------------------------------------
(* Start and end of the engine process.                                    *)

(* main, up to the first request: prepare, then applyUserDictionary with   *)
(* the words the dictionary holds.  ensureBaseModel finds a base, or none,  *)
(* or throws, and prepare then gives up where it stands.                   *)
Start(found, words) ==
  /\ ~up /\ starts < MaxStarts
  /\ starts' = starts + 1
  /\ up' = TRUE
  /\ base' = IF found = "threw" THEN "none" ELSE found
  /\ settings' = registry
  /\ registered' = words
  /\ partial' \in Survivors(partial)
  /\ IF found = "threw"
     THEN UNCHANGED <<corpus, countVars, imported, importSeen, published,
                      isTraining, trainer>>
     ELSE LET kept   == Trimmed(corpus)
              import == IF importFile.usable THEN importFile.mtime ELSE 0
              asked  == words # NoWords \/ (Newest(gens) = 0 /\ import # 0)
          IN  /\ imported' = import
              /\ importSeen' = importFile.mtime
              /\ published' = Newest(gens)
              /\ IF asked /\ registry /\ found # "none"
                 THEN BeginTraining(registry, words, import, kept, Newest(gens))
                 ELSE /\ corpus' = kept
                      /\ corpusLines' = Cardinality(kept)
                      /\ UNCHANGED <<unlearned, isTraining, trainer>>
  /\ pulled' = {}
  /\ UNCHANGED <<gens, content, outsideVars, cooling, deferred, commits,
                 erasedThrough, caught, lastRun>>

(* Idle exit, exit(1), a crash, the end of the session: at any instant.    *)
Stop == up /\ UNCHANGED diskVars /\ ProcessEnds

-----------------------------------------------------------------------------
(* The settings app.                                                       *)

(* LearningPage.Save: the two switches, reduced to whether both are on.    *)
FlipSwitch ==
  /\ flips < MaxFlips
  /\ flips' = flips + 1
  /\ registry' = ~registry
  /\ UNCHANGED <<importFile, imports, diskVars, up, inputVars, countVars,
                 published, runVars, commits, starts, eraseVars, lastRun>>

(* ImportedText: Import replaces the file, Delete removes it, and a file   *)
(* edited by hand may fail the validation.                                 *)
ChangeImport ==
  /\ imports < MaxImports
  /\ imports' = imports + 1
  /\ importFile' \in {[mtime |-> imports + 1, usable |-> TRUE],
                      [mtime |-> imports + 1, usable |-> FALSE],
                      [mtime |-> 0, usable |-> FALSE]}
  /\ importFile' # importFile
  /\ UNCHANGED <<registry, flips, diskVars, up, inputVars, countVars,
                 published, runVars, commits, starts, eraseVars, lastRun>>

(* LearningData.Erase: the same files, and nothing of the engine's memory. *)
EraseFromSettingsApp ==
  /\ SettingsAppErases
  /\ gens # {} \/ partial # {} \/ corpus # {}
  /\ \E g \in Survivors(gens), p \in Survivors(partial),
        c \in (IF DeletionMayFail THEN {{}, corpus} ELSE {{}}) :
       /\ EraseFiles(c, g, p)
       /\ pulled' = pulled \union ((MovedIn \union {published}) \ (g \union {0}))
  /\ UNCHANGED <<outsideVars, up, inputVars, countVars, published, runVars,
                 commits, starts, lastRun>>

-----------------------------------------------------------------------------
Init ==
  /\ registry \in BOOLEAN
  /\ importFile = [mtime |-> 0, usable |-> FALSE]
  /\ corpus = {} /\ gens = {} /\ partial = {}
  /\ content = [g \in Generations |-> Nothing]
  /\ up = FALSE
  /\ base = "none" /\ settings = FALSE /\ registered = NoWords
  /\ imported = 0 /\ importSeen = 0
  /\ unlearned = 0 /\ corpusLines = 0 /\ published = 0
  /\ isTraining = FALSE /\ cooling = FALSE /\ deferred = NotQueued
  /\ trainer = [t \in Trainers |-> Idle]
  /\ commits = 0 /\ starts = 0 /\ flips = 0 /\ imports = 0
  /\ erasedThrough = 0 /\ caught = {} /\ pulled = {} /\ lastRun = "none"

TrainingStep(t) ==
  Stage(t) \/ Train(t) \/ ClearDestination(t) \/ MoveIntoPlace(t)

MainActorStep ==
  \/ Record
  \/ \E r \in BOOLEAN, w \in WordLists : Convert(r, w)
  \/ ConvertMissingModel
  \/ \E w \in WordLists : ApplyUserDictionary(w)
  \/ UpdateSettings
  \/ \E t \in Trainers : FinishTraining(t)
  \/ DeferredRunWakes

Next ==
  \/ MainActorStep
  \/ \E t \in Trainers : TrainingStep(t)
  \/ CooldownEnds
  \/ \E b \in Bases, w \in WordLists : Start(b, w)
  \/ Stop
  \/ FlipSwitch
  \/ ChangeImport
  \/ EraseFromSettingsApp

Spec == Init /\ [][Next]_vars

(* Fairness: the operating system schedules the training thread, and the   *)
(* executor of the main actor runs what is queued on it.  Nothing is       *)
(* assumed of the user, of requests, or of starts and stops.               *)
Fairness ==
  /\ \A t \in Trainers : WF_vars(TrainingStep(t)) /\ WF_vars(FinishTraining(t))
  /\ WF_vars(CooldownEnds)
  /\ WF_vars(DeferredRunWakes)

FairSpec == Spec /\ Fairness

-----------------------------------------------------------------------------
(* Properties.                                                             *)

Run == {Idle} \union [stage: Stages \ {"idle"}, gen: Generations,
                      lines: Material, active: BOOLEAN]

(* Every variable has its type.                                            *)
TypeOK ==
  /\ registry \in BOOLEAN
  /\ importFile \in [mtime: 0 .. MaxImports, usable: BOOLEAN]
  /\ corpus \subseteq Commits
  /\ gens \subseteq Generations /\ partial \subseteq Generations
  /\ content \in [Generations -> Material]
  /\ up \in BOOLEAN
  /\ base \in Bases \union {"none"}
  /\ settings \in BOOLEAN
  /\ registered \in WordLists
  /\ imported \in 0 .. MaxImports /\ importSeen \in 0 .. MaxImports
  /\ unlearned \in Nat /\ corpusLines \in Nat
  /\ published \in 0 .. MaxGeneration
  /\ isTraining \in BOOLEAN /\ cooling \in BOOLEAN
  /\ deferred \in [stage: {"none", "asleep", "due"}, active: BOOLEAN]
  /\ trainer \in [Trainers -> Run]
  /\ commits \in 0 .. MaxCommits /\ starts \in 0 .. MaxStarts
  /\ flips \in 0 .. MaxFlips /\ imports \in 0 .. MaxImports
  /\ erasedThrough \in 0 .. MaxCommits
  /\ caught \subseteq Commits /\ pulled \subseteq Generations
  /\ lastRun \in {"none", "published", "failed"}

(* At most one training task is in flight, and isTraining is set exactly   *)
(* while one is: the four guards on isTraining, in methods that do not     *)
(* call each other, together keep two tasks off the same directories.      *)
OneRunAtATime ==
  /\ isTraining <=> InFlight # {}
  /\ \A t, u \in InFlight : t = u

(* The generation a run trains into is never the one the converter is told *)
(* about, whatever was erased meanwhile, so clearing the destination       *)
(* cannot take the published model away.                                   *)
RunSparesPublished ==
  \A t \in InFlight : trainer[t].gen # published

(* The generation on offer is on disk, or it was deleted from outside, or  *)
(* by an erase, after the run had moved it into place (pulled).            *)
NamedModelIsThere ==
  up /\ published # 0 => published \in gens \union pulled

OnDisk == UNION ({corpus} \union {content[g].text : g \in gens})

(* Text committed before an erase is in no file afterwards, now or later,  *)
(* except what a run in flight had already read or a deletion left behind. *)
ErasedIsGone == OnDisk \intersect (1 .. erasedThrough) \subseteq caught

(* The cached corpusLines agrees with the file in a running engine, through *)
(* appends, trims and erases, so the training threshold is the right one.  *)
CorpusCountInStep == up /\ baseIsReady => corpusLines = Cardinality(corpus)

Resting ==
  up /\ settings /\ baseIsReady /\ ~isTraining /\ deferred.stage = "none"

(* When nothing is running or queued, fewer commits than the threshold are *)
(* waiting: those made during a run get a run of their own.  A failed run  *)
(* is the exception, as finishTraining returns before it looks.            *)
NoCommitsStranded ==
  Resting => unlearned < Threshold(corpusLines) \/ lastRun = "failed"

(* Once enough commits are counted, a run takes them up, unless the engine *)
(* stops, a run fails, or the user switches off or erases.                 *)
CommitsReachARun ==
  (up /\ settings /\ baseIsReady /\ unlearned >= Threshold(corpusLines))
    ~> (unlearned < Threshold(corpusLines) \/ lastRun = "failed" \/ ~up)

-----------------------------------------------------------------------------
(* What comments of the repository say and the code does not do: each of   *)
(* these is refuted by a run.                                              *)

(* PersonalLanguageModel.swift:230-231: nil is returned whenever anything  *)
(* is missing, as loading a trie that is not there is fatal.               *)
LoadedModelExists == up => ModelNamed \in gens \union {0}

(* ConversionService.swift:83-85: when personalisation is switched off the *)
(* data should go.                                                         *)
ErasedTextIsGone == OnDisk \intersect (1 .. erasedThrough) = {}

(* PersonalLanguageModel.swift:484-485: a deferred run re-checks whether   *)
(* personalisation has been switched off while it waited.                  *)
NoRunWhileSwitchedOff ==
  [][\A t \in Trainers :
       trainer[t].stage = "idle" /\ trainer'[t].stage # "idle" => settings']_vars

(* PersonalLanguageModel.swift:378-380: deleting the import has to reach   *)
(* the model.                                                              *)
DeletedImportLeavesModel ==
  Resting /\ importSeen = 0 /\ published \in gens
    => content[published].import = 0
=============================================================================
