------------------------ MODULE PersonalModel_proofs ------------------------
(***************************************************************************)
(* Theorems about PersonalModel: its types, its two counters, the          *)
(* generation on offer and the text that was erased.                       *)
(* corpusLines is right for every value of the constants under which the   *)
(* engine is alone with its files: nothing else erases them, and deletions *)
(* succeed.  unlearnedCommits strands nothing, for every value of the      *)
(* constants.                                                              *)
(***************************************************************************)
EXTENDS PersonalModel, FiniteSetTheorems, TLAPS

-----------------------------------------------------------------------------
(* Facts about the operators.                                              *)

LEMMA TrimmedFacts ==
  ASSUME NEW c \in SUBSET Commits
  PROVE  /\ Trimmed(c) \subseteq c
         /\ Cardinality(Trimmed(c)) \in Nat
<1>1. Trimmed(c) \subseteq c
  BY DEF Trimmed
<1>2. IsFiniteSet(Commits)
  BY ConstantsAssumption, FS_Interval DEF Commits
<1>3. IsFiniteSet(Trimmed(c))
  BY <1>1, <1>2, FS_Subset
<1>4. QED
  BY <1>1, <1>3, FS_CardinalityType

LEMMA NewestFacts ==
  ASSUME NEW g \in SUBSET Generations
  PROVE  /\ Newest(g) \in 0 .. MaxGeneration
         /\ Newest(g) # 0 => Newest(g) \in g
<1>1. ASSUME \E n \in g : IsNewest(n, g)
      PROVE  Newest(g) \in g
  <2>1. IsNewest(CHOOSE n \in g : IsNewest(n, g), g)
    BY <1>1
  <2>2. QED
    BY <1>1, <2>1 DEF Newest, IsNewest
<1>2. CASE ~ \E n \in g : IsNewest(n, g)
  BY <1>2, ConstantsAssumption DEF Newest
<1>3. g \subseteq 0 .. MaxGeneration
  BY ConstantsAssumption DEF Generations
<1>4. QED
  BY <1>1, <1>2, <1>3

LEMMA SurvivorsFacts ==
  ASSUME NEW D, NEW s \in Survivors(D)
  PROVE  s \subseteq D
  BY DEF Survivors

(* What the constants are, and the values that go with them.               *)
LEMMA ConstantFacts ==
  /\ MaxCommits \in Nat /\ MaxGeneration \in Nat /\ MaxStarts \in Nat
  /\ MaxFlips \in Nat /\ MaxImports \in Nat
  /\ MinCommitsPerRun \in Nat \ {0} /\ MaxCommitsPerRun \in Nat \ {0}
  /\ LinesPerDeferredCommit \in Nat \ {0}
  /\ 0 \in 0 .. MaxCommits /\ 0 \in 0 .. MaxGeneration
  /\ 0 \in 0 .. MaxStarts /\ 0 \in 0 .. MaxFlips /\ 0 \in 0 .. MaxImports
<1>1. /\ MaxCommits \in Nat /\ MaxGeneration \in Nat /\ MaxStarts \in Nat
      /\ MaxFlips \in Nat /\ MaxImports \in Nat
  BY ConstantsAssumption
<1>2. /\ MinCommitsPerRun \in Nat \ {0} /\ MaxCommitsPerRun \in Nat \ {0}
      /\ LinesPerDeferredCommit \in Nat \ {0}
  BY ConstantsAssumption
<1>3. QED
  BY <1>1, <1>2

LEMMA IdleTyped ==
  /\ Idle \in Run /\ Nothing \in Material
  /\ NotQueued \in [stage: {"none", "asleep", "due"}, active: BOOLEAN]
<1>1. Idle \in Run
  BY DEF Run
<1>2. Nothing \in Material
  BY ConstantFacts, ConstantsAssumption DEF Nothing, Material
<1>3. QED
  BY <1>1, <1>2 DEF NotQueued

LEMMA EmptyCount == Cardinality({}) \in Nat
  BY FS_EmptySet

-----------------------------------------------------------------------------
(* Type correctness.                                                       *)

RunTyped ==
  /\ corpus' \subseteq Commits
  /\ corpusLines' \in Nat /\ unlearned' \in Nat
  /\ isTraining' \in BOOLEAN
  /\ trainer' \in [Trainers -> Run]

DeferredTyped == deferred' \in [stage: {"none", "asleep", "due"}, active: BOOLEAN]

LEMMA BeginTyped ==
  ASSUME TypeOK,
         NEW active \in BOOLEAN, NEW words \in WordLists,
         NEW import \in 0 .. MaxImports, NEW onDisk \in SUBSET Commits,
         NEW pub \in 0 .. MaxGeneration,
         BeginTraining(active, words, import, onDisk, pub)
  PROVE  RunTyped
<1> DEFINE read  == IF active THEN Trimmed(onDisk) ELSE {}
           lines == [text |-> read, import |-> import, words |-> words]
<1>1. read \subseteq onDisk /\ Cardinality(read) \in Nat
  BY TrimmedFacts, EmptyCount
<1>2. lines \in Material
  BY <1>1 DEF Material
<1>3. /\ corpus' = (IF active THEN read ELSE onDisk)
      /\ corpusLines' = Cardinality(read)
      /\ unlearned' = 0
      /\ IF lines = Nothing
         THEN UNCHANGED <<isTraining, trainer>>
         ELSE /\ pub < MaxGeneration
              /\ isTraining' = TRUE
              /\ \E t \in Trainers \ InFlight :
                   trainer' = [trainer EXCEPT ![t] =
                     [stage |-> "started", gen |-> pub + 1,
                      lines |-> lines, active |-> active]]
  BY DEF BeginTraining
<1>4. trainer' \in [Trainers -> Run] /\ isTraining' \in BOOLEAN
  <2> HIDE DEF lines
  <2>1. CASE lines = Nothing
    BY <1>3, <2>1 DEF TypeOK
  <2>2. CASE lines # Nothing
    <3>1. pub + 1 \in Generations
      BY <1>3, <2>2, ConstantsAssumption DEF Generations
    <3>2. [stage |-> "started", gen |-> pub + 1, lines |-> lines,
           active |-> active] \in Run
      BY <1>2, <3>1 DEF Run, Stages
    <3>3. QED
      BY <1>3, <2>2, <3>2 DEF TypeOK
  <2>3. QED
    BY <2>1, <2>2
<1>5. QED
  BY <1>1, <1>3, <1>4 DEF RunTyped

LEMMA StartTyped ==
  ASSUME TypeOK,
         NEW active \in BOOLEAN, NEW words \in WordLists,
         NEW import \in 0 .. MaxImports, NEW onDisk \in SUBSET Commits,
         NEW lines \in Nat, NEW count \in Nat, NEW pub \in 0 .. MaxGeneration,
         StartTraining(active, words, import, onDisk, lines, count, pub)
  PROVE  RunTyped /\ DeferredTyped
<1>1. CASE cooling
  BY <1>1 DEF StartTraining, Defer, TypeOK, RunTyped, DeferredTyped
<1>2. CASE ~cooling
  <2>1. BeginTraining(active, words, import, onDisk, pub) /\ UNCHANGED deferred
    BY <1>2 DEF StartTraining
  <2>2. QED
    BY <2>1, BeginTyped DEF TypeOK, DeferredTyped
<1>3. QED
  BY <1>1, <1>2

(* A run in flight is in the second part of the type Run.                  *)
LEMMA FlightTyped ==
  ASSUME TypeOK, NEW t \in Trainers, trainer[t].stage # "idle"
  PROVE  trainer[t] \in [stage: Stages \ {"idle"}, gen: Generations,
                         lines: Material, active: BOOLEAN]
  BY DEF TypeOK, Run, Idle

LEMMA FilesTyped ==
  ASSUME TypeOK, NEW c \in SUBSET Commits, NEW g \in SUBSET gens,
         NEW p \in SUBSET partial, EraseFiles(c, g, p)
  PROVE  /\ corpus' \subseteq Commits /\ gens' \subseteq Generations
         /\ partial' \subseteq Generations
         /\ content' \in [Generations -> Material]
         /\ erasedThrough' \in 0 .. MaxCommits /\ caught' \subseteq Commits
<1>1. Nothing \in Material
  BY IdleTyped
<1>2. Caught(c, g) \subseteq Commits
  <2>1. \A x \in g : content[x].text \subseteq Commits
    BY DEF TypeOK, Material
  <2>2. \A t \in InFlight : trainer[t].lines.text \subseteq Commits
    BY FlightTyped DEF Material, InFlight
  <2>3. QED
    BY <2>1, <2>2 DEF Caught
<1>3. QED
  BY <1>1, <1>2 DEF EraseFiles, TypeOK

LEMMA MovedInTyped ==
  ASSUME TypeOK
  PROVE  MovedIn \subseteq Generations
<1>1. \A t \in Trainers : trainer[t].stage = "moved"
                            => trainer[t].gen \in Generations
  BY FlightTyped
<1>2. QED
  BY <1>1 DEF MovedIn

(* The state of an engine that has ended is well typed.                    *)
LEMMA EndTyped ==
  ASSUME TypeOK, ProcessEnds,
         corpus' \subseteq corpus, UNCHANGED <<gens, partial, content>>
  PROVE  TypeOK'
<1>1. trainer' \in [Trainers -> Run]
  BY IdleTyped DEF ProcessEnds
<1>2. /\ base' \in Bases \union {"none"} /\ registered' \in WordLists
      /\ imported' \in 0 .. MaxImports /\ importSeen' \in 0 .. MaxImports
      /\ published' \in 0 .. MaxGeneration
      /\ deferred' \in [stage: {"none", "asleep", "due"}, active: BOOLEAN]
  BY IdleTyped, ConstantFacts, ConstantsAssumption DEF ProcessEnds
<1>3. /\ up' \in BOOLEAN /\ settings' \in BOOLEAN /\ isTraining' \in BOOLEAN
      /\ cooling' \in BOOLEAN /\ unlearned' \in Nat /\ corpusLines' \in Nat
      /\ lastRun' \in {"none", "published", "failed"}
  BY DEF ProcessEnds
<1>4. UNCHANGED <<outsideVars, commits, starts, eraseVars>>
  BY DEF ProcessEnds
<1>5. QED
  BY <1>1, <1>2, <1>3, <1>4 DEF TypeOK, outsideVars, eraseVars

LEMMA TypeInit == Init => TypeOK
<1> SUFFICES ASSUME Init PROVE TypeOK
  OBVIOUS
<1>1. /\ trainer \in [Trainers -> Run]
      /\ content \in [Generations -> Material]
  BY IdleTyped DEF Init
<1>2. deferred \in [stage: {"none", "asleep", "due"}, active: BOOLEAN]
  BY IdleTyped DEF Init
<1>3. importFile \in [mtime: 0 .. MaxImports, usable: BOOLEAN]
  BY ConstantFacts DEF Init
<1>4. /\ base \in Bases \union {"none"} /\ registered \in WordLists
      /\ imported \in 0 .. MaxImports /\ importSeen \in 0 .. MaxImports
      /\ published \in 0 .. MaxGeneration /\ commits \in 0 .. MaxCommits
      /\ starts \in 0 .. MaxStarts /\ flips \in 0 .. MaxFlips
      /\ imports \in 0 .. MaxImports /\ erasedThrough \in 0 .. MaxCommits
  BY ConstantFacts, ConstantsAssumption DEF Init
<1>5. /\ registry \in BOOLEAN /\ corpus = {} /\ gens = {} /\ partial = {}
      /\ up = FALSE /\ settings = FALSE /\ unlearned = 0 /\ corpusLines = 0
      /\ isTraining = FALSE /\ cooling = FALSE /\ caught = {} /\ pulled = {}
      /\ lastRun = "none"
  BY DEF Init
<1>6. QED
  BY <1>1, <1>2, <1>3, <1>4, <1>5 DEF TypeOK

LEMMA TypeNext == TypeOK /\ [Next]_vars => TypeOK'
<1> SUFFICES ASSUME TypeOK, [Next]_vars PROVE TypeOK'
  OBVIOUS
<1> USE DEF diskVars, outsideVars, inputVars, countVars, runVars, eraseVars
<1>1. CASE Record
  <2>1. /\ commits + 1 \in Commits /\ commits + 1 \in 0 .. MaxCommits
        /\ corpusLines + 1 \in Nat /\ unlearned + 1 \in Nat
    BY <1>1, ConstantsAssumption DEF Record, TypeOK, Commits
  <2>2. corpus \union {commits + 1} \in SUBSET Commits
    BY <2>1 DEF TypeOK
  <2>3. RunTyped /\ DeferredTyped
    <3> DEFINE now == corpus \union {commits + 1}
    <3>1. CASE StartTraining(settings, registered, imported, now,
                             corpusLines + 1, unlearned + 1, published)
      <4>1. settings \in BOOLEAN /\ registered \in WordLists
            /\ imported \in 0 .. MaxImports /\ published \in 0 .. MaxGeneration
        BY DEF TypeOK
      <4>2. now \in SUBSET Commits
        BY <2>2
      <4> HIDE DEF now
      <4>3. QED
        BY <3>1, <2>1, <4>1, <4>2, StartTyped
    <3>2. CASE /\ corpus' = now /\ corpusLines' = corpusLines + 1
               /\ unlearned' = unlearned + 1
               /\ UNCHANGED <<isTraining, trainer, deferred>>
      BY <3>2, <2>1, <2>2 DEF RunTyped, DeferredTyped, TypeOK
    <3>3. QED
      BY <1>1, <3>1, <3>2 DEF Record
  <2>4. QED
    BY <1>1, <2>1, <2>3 DEF Record, TypeOK, RunTyped, DeferredTyped
<1>2. ASSUME NEW r \in BOOLEAN, NEW w \in WordLists, Convert(r, w)
      PROVE  TypeOK'
  <2>1. ImportRead \in 0 .. MaxImports /\ importFile.mtime \in 0 .. MaxImports
    BY ConstantsAssumption DEF TypeOK, ImportRead
  <2>2. RunTyped /\ DeferredTyped
    <3>1. ASSUME NEW import \in {imported, ImportRead},
                 StartTraining(settings, w, import, corpus, corpusLines,
                               unlearned, published)
          PROVE  RunTyped /\ DeferredTyped
      <4>1. /\ settings \in BOOLEAN /\ import \in 0 .. MaxImports
            /\ corpus \in SUBSET Commits /\ published \in 0 .. MaxGeneration
            /\ corpusLines \in Nat /\ unlearned \in Nat
        BY <2>1 DEF TypeOK
      <4>2. QED
        BY <3>1, <4>1, StartTyped
    <3>2. CASE UNCHANGED <<corpus, countVars, isTraining, trainer, deferred>>
      BY <3>2 DEF RunTyped, DeferredTyped, TypeOK
    <3>3. QED
      BY <1>2, <3>1, <3>2 DEF Convert
  <2>3. QED
    BY <1>2, <2>1, <2>2 DEF Convert, TypeOK, RunTyped, DeferredTyped
<1>3. CASE ConvertMissingModel
  <2>1. Trimmed(corpus) \subseteq corpus
    BY TrimmedFacts DEF TypeOK
  <2>2. QED
    BY <1>3, <2>1, EndTyped DEF ConvertMissingModel
<1>4. ASSUME NEW w \in WordLists, ApplyUserDictionary(w)
      PROVE  TypeOK'
  <2>1. RunTyped /\ DeferredTyped
    <3>1. CASE StartTraining(settings, w, imported, corpus, corpusLines,
                             unlearned, published)
      <4>1. /\ settings \in BOOLEAN /\ imported \in 0 .. MaxImports
            /\ corpus \in SUBSET Commits /\ published \in 0 .. MaxGeneration
            /\ corpusLines \in Nat /\ unlearned \in Nat
        BY DEF TypeOK
      <4>2. QED
        BY <3>1, <4>1, StartTyped
    <3>2. CASE UNCHANGED <<corpus, countVars, isTraining, trainer, deferred>>
      BY <3>2 DEF RunTyped, DeferredTyped, TypeOK
    <3>3. QED
      BY <1>4, <3>1, <3>2 DEF ApplyUserDictionary
  <2>2. QED
    BY <1>4, <2>1 DEF ApplyUserDictionary, TypeOK, RunTyped, DeferredTyped
<1>5. CASE UpdateSettings
  <2>1. CASE settings
    <3>1. PICK g \in Survivors(gens), p \in Survivors(partial),
               c \in (IF DeletionMayFail THEN {{}, corpus} ELSE {{}}) :
                 /\ EraseFiles(c, g, p)
                 /\ pulled' = pulled \union (MovedIn \ g)
      BY <1>5, <2>1 DEF UpdateSettings
    <3>2. c \subseteq Commits /\ g \subseteq gens /\ p \subseteq partial
      BY SurvivorsFacts DEF TypeOK
    <3>3. pulled' \subseteq Generations
      BY <3>1, MovedInTyped DEF TypeOK
    <3>4. /\ corpus' \subseteq Commits /\ gens' \subseteq Generations
          /\ partial' \subseteq Generations
          /\ content' \in [Generations -> Material]
          /\ erasedThrough' \in 0 .. MaxCommits /\ caught' \subseteq Commits
      BY <3>1, <3>2, FilesTyped
    <3>5. /\ settings' = registry /\ published' = 0 /\ unlearned' = 0
          /\ corpusLines' = 0
          /\ UNCHANGED <<outsideVars, up, base, registered, imported,
                         importSeen, runVars, commits, starts, lastRun>>
      BY <1>5, <2>1 DEF UpdateSettings
    <3>6. 0 \in 0 .. MaxGeneration
      BY ConstantFacts
    <3>7. QED
      BY <3>3, <3>4, <3>5, <3>6 DEF TypeOK
  <2>2. CASE ~settings
    BY <1>5, <2>2 DEF UpdateSettings, TypeOK
  <2>3. QED
    BY <2>1, <2>2
<1>6. ASSUME NEW t \in Trainers, Stage(t)
      PROVE  TypeOK'
  <2>1. trainer[t] \in [stage: Stages \ {"idle"}, gen: Generations,
                        lines: Material, active: BOOLEAN]
    BY <1>6, FlightTyped DEF Stage
  <2>2. trainer' \in [Trainers -> Run] /\ partial' \subseteq Generations
    BY <1>6, <2>1 DEF Stage, TypeOK, Run, Stages
  <2>3. QED
    BY <1>6, <2>2 DEF Stage, TypeOK
<1>7. ASSUME NEW t \in Trainers, Train(t)
      PROVE  TypeOK'
  <2>1. trainer[t] \in [stage: Stages \ {"idle"}, gen: Generations,
                        lines: Material, active: BOOLEAN]
    BY <1>7, FlightTyped DEF Train
  <2>2. trainer' \in [Trainers -> Run] /\ partial' \subseteq Generations
    BY <1>7, <2>1 DEF Train, TypeOK, Run, Stages
  <2>3. QED
    BY <1>7, <2>2 DEF Train, TypeOK
<1>8. ASSUME NEW t \in Trainers, ClearDestination(t)
      PROVE  TypeOK'
  <2>1. trainer[t] \in [stage: Stages \ {"idle"}, gen: Generations,
                        lines: Material, active: BOOLEAN]
    BY <1>8, FlightTyped DEF ClearDestination
  <2>2. Nothing \in Material
    BY IdleTyped
  <2>3. trainer' \in [Trainers -> Run]
    BY <1>8, <2>1 DEF ClearDestination, TypeOK, Run, Stages
  <2>4. gens' \subseteq Generations
    BY <1>8, SurvivorsFacts DEF ClearDestination, TypeOK
  <2>5. content' \in [Generations -> Material]
    BY <1>8, <2>1, <2>2 DEF ClearDestination, TypeOK
  <2>6. QED
    BY <1>8, <2>3, <2>4, <2>5 DEF ClearDestination, TypeOK
<1>9. ASSUME NEW t \in Trainers, MoveIntoPlace(t)
      PROVE  TypeOK'
  <2>1. trainer[t] \in [stage: Stages \ {"idle"}, gen: Generations,
                        lines: Material, active: BOOLEAN]
    BY <1>9, FlightTyped DEF MoveIntoPlace
  <2>2. trainer' \in [Trainers -> Run]
    BY <1>9, <2>1 DEF MoveIntoPlace, TypeOK, Run, Stages
  <2>3. /\ gens' \subseteq Generations /\ partial' \subseteq Generations
        /\ pulled' \subseteq Generations
        /\ content' \in [Generations -> Material]
    BY <1>9, <2>1 DEF MoveIntoPlace, TypeOK
  <2>4. QED
    BY <1>9, <2>2, <2>3 DEF MoveIntoPlace, TypeOK
<1>10. ASSUME NEW t \in Trainers, FinishTraining(t)
       PROVE  TypeOK'
  <2>1. trainer[t] \in [stage: Stages \ {"idle"}, gen: Generations,
                        lines: Material, active: BOOLEAN]
    BY <1>10, FlightTyped DEF FinishTraining
  <2>2. Nothing \in Material
    BY IdleTyped
  <2>3. trainer' \in [Trainers -> Run] /\ isTraining' \in BOOLEAN
        /\ cooling' \in BOOLEAN
    BY <1>10 DEF FinishTraining, TypeOK, Run
  <2>4. deferred' \in [stage: {"none", "asleep", "due"}, active: BOOLEAN]
    BY <1>10, <2>1 DEF FinishTraining, TypeOK, Defer
  <2>5. /\ gens' \subseteq Generations
        /\ content' \in [Generations -> Material]
        /\ published' \in 0 .. MaxGeneration
        /\ lastRun' \in {"none", "published", "failed"}
    <3>1. CASE trainer[t].stage = "moved"
      <4>1. published' = trainer[t].gen /\ lastRun' = "published"
        BY <1>10, <3>1 DEF FinishTraining
      <4>2. PICK left \in Survivors(gens \intersect {published}) :
              gens' = (gens \ {published}) \union left
        BY <1>10, <3>1 DEF FinishTraining
      <4>3. left \subseteq gens
        BY <4>2, SurvivorsFacts
      <4>4. gens' \subseteq Generations
        BY <4>2, <4>3 DEF TypeOK
      <4>5. content' = [g \in Generations |->
                          IF g \in gens' THEN content[g] ELSE Nothing]
        BY <1>10, <3>1 DEF FinishTraining
      <4>6. content' \in [Generations -> Material]
        BY <2>2, <4>5 DEF TypeOK
      <4>7. published' \in 0 .. MaxGeneration
        BY <2>1, <4>1, ConstantFacts DEF Generations
      <4>8. QED
        BY <4>1, <4>4, <4>6, <4>7
    <3>2. CASE trainer[t].stage # "moved"
      BY <1>10, <3>2 DEF FinishTraining, TypeOK
    <3>3. QED
      BY <3>1, <3>2
  <2>6. QED
    BY <1>10, <2>3, <2>4, <2>5 DEF FinishTraining, TypeOK
<1>11. CASE CooldownEnds
  BY <1>11 DEF CooldownEnds, TypeOK
<1>12. CASE DeferredRunWakes
  <2>1. RunTyped
    <3>1. CASE BeginTraining(deferred.active, registered, imported, corpus,
                             published)
      <4>1. /\ deferred.active \in BOOLEAN /\ registered \in WordLists
            /\ imported \in 0 .. MaxImports /\ corpus \in SUBSET Commits
            /\ published \in 0 .. MaxGeneration
        BY DEF TypeOK
      <4>2. QED
        BY <3>1, <4>1, BeginTyped
    <3>2. CASE UNCHANGED <<corpus, countVars, isTraining, trainer>>
      BY <3>2 DEF RunTyped, TypeOK
    <3>3. QED
      BY <1>12, <3>1, <3>2 DEF DeferredRunWakes
  <2>2. deferred' \in [stage: {"none", "asleep", "due"}, active: BOOLEAN]
    BY <1>12 DEF DeferredRunWakes, NotQueued
  <2>3. QED
    BY <1>12, <2>1, <2>2 DEF DeferredRunWakes, TypeOK, RunTyped
<1>13. ASSUME NEW b \in Bases, NEW w \in WordLists, Start(b, w)
       PROVE  TypeOK'
  <2>1. starts' \in 0 .. MaxStarts
    BY <1>13, ConstantsAssumption DEF Start, TypeOK
  <2>2. partial' \subseteq Generations
    BY <1>13, SurvivorsFacts DEF Start, TypeOK
  <2>3. CASE b = "threw"
    BY <1>13, <2>1, <2>2, <2>3 DEF Start, TypeOK
  <2>4. CASE b # "threw"
    <3> DEFINE kept   == Trimmed(corpus)
               import == IF importFile.usable THEN importFile.mtime ELSE 0
    <3>1. /\ kept \in SUBSET Commits /\ Cardinality(kept) \in Nat
          /\ import \in 0 .. MaxImports
          /\ Newest(gens) \in 0 .. MaxGeneration
      BY TrimmedFacts, NewestFacts, ConstantsAssumption DEF TypeOK
    <3>2. RunTyped
      <4>1. CASE BeginTraining(registry, w, import, kept, Newest(gens))
        <5>1. registry \in BOOLEAN
          BY DEF TypeOK
        <5> HIDE DEF kept, import
        <5>2. QED
          BY <3>1, <4>1, <5>1, BeginTyped
      <4>2. CASE /\ corpus' = kept /\ corpusLines' = Cardinality(kept)
                 /\ UNCHANGED <<unlearned, isTraining, trainer>>
        BY <3>1, <4>2 DEF RunTyped, TypeOK
      <4>3. QED
        BY <1>13, <2>4, <4>1, <4>2 DEF Start
    <3>3. /\ imported' \in 0 .. MaxImports /\ importSeen' \in 0 .. MaxImports
          /\ published' \in 0 .. MaxGeneration
      BY <1>13, <2>4, <3>1 DEF Start, TypeOK
    <3>4. QED
      BY <1>13, <2>1, <2>2, <3>2, <3>3 DEF Start, TypeOK, RunTyped
  <2>5. QED
    BY <2>3, <2>4
<1>14. CASE Stop
  BY <1>14, EndTyped DEF Stop, diskVars
<1>15. CASE FlipSwitch
  BY <1>15, ConstantsAssumption DEF FlipSwitch, TypeOK
<1>16. CASE ChangeImport
  <2>1. imports + 1 \in 0 .. MaxImports /\ 0 \in 0 .. MaxImports
    BY <1>16, ConstantFacts DEF ChangeImport, TypeOK
  <2>2. importFile' \in [mtime: 0 .. MaxImports, usable: BOOLEAN]
    <3>1. \A m \in 0 .. MaxImports, u \in BOOLEAN :
             [mtime |-> m, usable |-> u] \in [mtime: 0 .. MaxImports,
                                               usable: BOOLEAN]
      OBVIOUS
    <3>2. \E m \in {imports + 1, 0}, u \in BOOLEAN :
             importFile' = [mtime |-> m, usable |-> u]
      BY <1>16 DEF ChangeImport
    <3>3. QED
      BY <2>1, <3>1, <3>2
  <2>3. QED
    BY <1>16, <2>1, <2>2 DEF ChangeImport, TypeOK
<1>17. CASE EraseFromSettingsApp
  <2>1. PICK g \in Survivors(gens), p \in Survivors(partial),
             c \in (IF DeletionMayFail THEN {{}, corpus} ELSE {{}}) :
               /\ EraseFiles(c, g, p)
               /\ pulled' = pulled \union
                     ((MovedIn \union {published}) \ (g \union {0}))
    BY <1>17 DEF EraseFromSettingsApp
  <2>2. c \subseteq Commits /\ g \subseteq gens /\ p \subseteq partial
    BY SurvivorsFacts DEF TypeOK
  <2>3. pulled' \subseteq Generations
    <3>1. published # 0 => published \in Generations
      BY ConstantFacts DEF TypeOK, Generations
    <3>2. QED
      BY <2>1, <3>1, MovedInTyped DEF TypeOK
  <2>4. QED
    BY <1>17, <2>1, <2>2, <2>3, FilesTyped DEF EraseFromSettingsApp, TypeOK
<1>18. CASE UNCHANGED vars
  BY <1>18 DEF vars, TypeOK
<1>19. QED
  BY <1>1, <1>2, <1>3, <1>4, <1>5, <1>6, <1>7, <1>8, <1>9, <1>10, <1>11,
     <1>12, <1>13, <1>14, <1>15, <1>16, <1>17, <1>18
  DEF Next, MainActorStep, TrainingStep

(* Every variable keeps its type, whatever the interleaving of requests,   *)
(* training steps, erases, imports and restarts.                           *)
THEOREM TypeCorrect == Spec => []TypeOK
<1>1. QED
  BY TypeInit, TypeNext, PTL DEF Spec

-----------------------------------------------------------------------------
(* The corpus holds commits that have been made, so the next one is new.   *)

CorpusInv ==
  /\ TypeOK
  /\ corpus \subseteq 1 .. commits
  /\ CorpusCountInStep

(* What a step of a running engine with a base may do to corpus and count. *)
Counts(onDisk) ==
  /\ corpus' \subseteq onDisk
  /\ corpusLines' = Cardinality(corpus')

(* A step that touches neither, nor brings an engine up.                   *)
LEMMA CorpusStill ==
  ASSUME CorpusInv, TypeOK', UNCHANGED <<corpus, corpusLines, commits, up, base>>
  PROVE  CorpusInv'
  BY DEF CorpusInv, CorpusCountInStep, baseIsReady

(* A step that leaves a right count behind.                                *)
LEMMA CorpusCounted ==
  ASSUME CorpusInv, TypeOK', Counts(corpus), UNCHANGED commits
  PROVE  CorpusInv'
  BY DEF CorpusInv, CorpusCountInStep, Counts

(* beginTraining with personalisation on takes the authoritative count.    *)
LEMMA BeginCounts ==
  ASSUME NEW words, NEW import, NEW onDisk \in SUBSET Commits, NEW pub,
         BeginTraining(TRUE, words, import, onDisk, pub)
  PROVE  Counts(onDisk)
<1>1. corpus' = Trimmed(onDisk) /\ corpusLines' = Cardinality(Trimmed(onDisk))
  BY DEF BeginTraining
<1>2. QED
  BY <1>1, TrimmedFacts DEF Counts

LEMMA StartCounts ==
  ASSUME NEW words, NEW import, NEW onDisk \in SUBSET Commits,
         NEW lines, lines = Cardinality(onDisk), NEW count, NEW pub,
         StartTraining(TRUE, words, import, onDisk, lines, count, pub)
  PROVE  Counts(onDisk)
<1>1. CASE cooling
  BY <1>1 DEF StartTraining, Counts
<1>2. CASE ~cooling
  BY <1>2, BeginCounts DEF StartTraining
<1>3. QED
  BY <1>1, <1>2

(* One line more.                                                          *)
LEMMA AppendCounts ==
  ASSUME CorpusInv, commits < MaxCommits
  PROVE  /\ corpus \union {commits + 1} \in SUBSET Commits
         /\ Cardinality(corpus \union {commits + 1}) = Cardinality(corpus) + 1
         /\ corpus \union {commits + 1} \subseteq 1 .. commits + 1
<1>1. commits \in Nat /\ MaxCommits \in Nat /\ corpus \in SUBSET Commits
  BY ConstantsAssumption DEF CorpusInv, TypeOK
<1>2. commits + 1 \notin corpus
  BY <1>1 DEF CorpusInv
<1>3. IsFiniteSet(Commits)
  BY <1>1, FS_Interval DEF Commits
<1>4. IsFiniteSet(corpus)
  BY <1>1, <1>3, FS_Subset
<1>5. Cardinality(corpus \union {commits + 1}) = Cardinality(corpus) + 1
  BY <1>2, <1>4, FS_AddElement
<1>6. QED
  BY <1>1, <1>5 DEF CorpusInv, Commits

LEMMA CorpusInit == Init => CorpusInv
<1> SUFFICES ASSUME Init PROVE CorpusInv
  OBVIOUS
<1>1. TypeOK
  BY TypeInit
<1>2. QED
  BY <1>1 DEF CorpusInv, CorpusCountInStep, Init

LEMMA CorpusNext ==
  ASSUME ~SettingsAppErases, ~DeletionMayFail
  PROVE  CorpusInv /\ [Next]_vars => CorpusInv'
<1> SUFFICES ASSUME CorpusInv, [Next]_vars PROVE CorpusInv'
  OBVIOUS
<1> USE DEF diskVars, outsideVars, inputVars, countVars, runVars, eraseVars
<1>a. TypeOK /\ TypeOK' /\ corpus \in SUBSET Commits
  BY TypeNext DEF CorpusInv, TypeOK
<1>b. up /\ baseIsReady => corpusLines = Cardinality(corpus)
  BY DEF CorpusInv, CorpusCountInStep
<1>1. CASE Record
  <2> DEFINE now   == corpus \union {commits + 1}
             lines == corpusLines + 1
  <2>1. /\ now \in SUBSET Commits /\ lines = Cardinality(now)
        /\ now \subseteq 1 .. commits + 1
    BY <1>1, <1>b, AppendCounts DEF Record
  <2>2. Counts(now)
    <3>1. ASSUME NEW count, StartTraining(TRUE, registered, imported, now, lines,
                                          count, published)
          PROVE  Counts(now)
      BY <2>1, <3>1, StartCounts
    <3>2. CASE corpus' = now /\ corpusLines' = lines
      BY <2>1, <3>2 DEF Counts
    <3>3. settings = TRUE
      BY <1>1, <1>a DEF Record, TypeOK
    <3>4. \/ corpus' = now /\ corpusLines' = lines
          \/ \E count : StartTraining(settings, registered, imported, now,
                                      lines, count, published)
      BY <1>1 DEF Record
    <3>5. QED
      BY <3>1, <3>2, <3>3, <3>4
  <2>3. commits' = commits + 1
    BY <1>1 DEF Record
  <2>4. QED
    BY <1>a, <2>1, <2>2, <2>3 DEF CorpusInv, CorpusCountInStep, Counts
<1>2. ASSUME NEW r \in BOOLEAN, NEW w \in WordLists, Convert(r, w)
      PROVE  CorpusInv'
  <2>1. \/ UNCHANGED <<corpus, corpusLines>>
        \/ /\ settings = TRUE /\ up /\ baseIsReady
           /\ \E import : StartTraining(settings, w, import, corpus, corpusLines,
                                        unlearned, published)
    BY <1>2, <1>a DEF Convert, TypeOK
  <2>2. UNCHANGED <<corpus, corpusLines>> \/ Counts(corpus)
    BY <1>a, <1>b, <2>1, StartCounts
  <2>3. UNCHANGED <<commits, up, base>>
    BY <1>2 DEF Convert
  <2>4. QED
    BY <1>a, <2>2, <2>3, CorpusStill, CorpusCounted
<1>3. CASE ConvertMissingModel
  <2>1. Trimmed(corpus) \subseteq corpus
    BY <1>a, TrimmedFacts
  <2>2. QED
    BY <1>3, <1>a, <2>1
    DEF ConvertMissingModel, ProcessEnds, CorpusInv, CorpusCountInStep
<1>4. ASSUME NEW w \in WordLists, ApplyUserDictionary(w)
      PROVE  CorpusInv'
  <2>1. \/ UNCHANGED <<corpus, corpusLines>>
        \/ /\ settings = TRUE /\ up /\ baseIsReady
           /\ StartTraining(settings, w, imported, corpus, corpusLines,
                            unlearned, published)
    BY <1>4, <1>a DEF ApplyUserDictionary, TypeOK
  <2>2. UNCHANGED <<corpus, corpusLines>> \/ Counts(corpus)
    BY <1>a, <1>b, <2>1, StartCounts
  <2>3. UNCHANGED <<commits, up, base>>
    BY <1>4 DEF ApplyUserDictionary
  <2>4. QED
    BY <1>a, <2>2, <2>3, CorpusStill, CorpusCounted
<1>5. CASE UpdateSettings
  <2>1. CASE settings
    <3>1. corpus' = {} /\ corpusLines' = 0 /\ UNCHANGED commits
      BY <1>5, <2>1 DEF UpdateSettings, EraseFiles
    <3>2. QED
      BY <1>a, <3>1, FS_EmptySet, CorpusCounted DEF Counts
  <2>2. CASE ~settings
    BY <1>5, <1>a, <2>2, CorpusStill DEF UpdateSettings
  <2>3. QED
    BY <2>1, <2>2
<1>6. ASSUME NEW t \in Trainers,
             TrainingStep(t) \/ FinishTraining(t)
      PROVE  CorpusInv'
  BY <1>6, <1>a, CorpusStill
  DEF TrainingStep, Stage, Train, ClearDestination, MoveIntoPlace, FinishTraining
<1>7. CASE DeferredRunWakes
  <2>1. \/ UNCHANGED <<corpus, corpusLines>>
        \/ /\ deferred.active = TRUE
           /\ BeginTraining(deferred.active, registered, imported, corpus,
                            published)
    BY <1>7, <1>a DEF DeferredRunWakes, TypeOK
  <2>2. UNCHANGED <<corpus, corpusLines>> \/ Counts(corpus)
    BY <1>a, <2>1, BeginCounts
  <2>3. UNCHANGED <<commits, up, base>>
    BY <1>7 DEF DeferredRunWakes
  <2>4. QED
    BY <1>a, <2>2, <2>3, CorpusStill, CorpusCounted
<1>8. ASSUME NEW b \in Bases, NEW w \in WordLists, Start(b, w)
      PROVE  CorpusInv'
  <2>1. UNCHANGED commits
    BY <1>8 DEF Start
  <2>2. CASE b = "threw"
    BY <1>8, <1>a, <2>1, <2>2 DEF Start, CorpusInv, CorpusCountInStep, baseIsReady
  <2>3. CASE b # "threw"
    <3> DEFINE kept == Trimmed(corpus)
    <3>1. kept \in SUBSET Commits /\ kept \subseteq corpus
      BY <1>a, TrimmedFacts
    <3>2. \/ corpus' = kept /\ corpusLines' = Cardinality(kept)
          \/ /\ registry = TRUE
             /\ \E import, pub : BeginTraining(registry, w, import, kept, pub)
      BY <1>8, <1>a, <2>3 DEF Start, TypeOK
    <3>3. Counts(kept)
      BY <3>1, <3>2, BeginCounts DEF Counts
    <3>4. QED
      BY <1>a, <2>1, <3>1, <3>3, CorpusCounted DEF Counts
  <2>4. QED
    BY <2>2, <2>3
<1>9. CASE Stop
  BY <1>9, <1>a DEF Stop, ProcessEnds, CorpusInv, CorpusCountInStep
<1>10. CASE CooldownEnds \/ FlipSwitch \/ ChangeImport
  BY <1>10, <1>a, CorpusStill DEF CooldownEnds, FlipSwitch, ChangeImport
<1>11. CASE EraseFromSettingsApp
  BY <1>11 DEF EraseFromSettingsApp
<1>12. CASE UNCHANGED vars
  BY <1>12, <1>a, CorpusStill DEF vars
<1>13. QED
  BY <1>1, <1>2, <1>3, <1>4, <1>5, <1>6, <1>7, <1>8, <1>9, <1>10, <1>11, <1>12
  DEF Next, MainActorStep

(* With the engine alone on its files, corpusLines is the number of lines  *)
(* of the corpus whenever an engine with a base runs, so that the          *)
(* threshold of commitsPerTrainingRun is taken at the right size.          *)
THEOREM CountInStep ==
  ASSUME ~SettingsAppErases, ~DeletionMayFail
  PROVE  Spec => []CorpusCountInStep
<1>1. CorpusInv => CorpusCountInStep
  BY DEF CorpusInv
<1>2. QED
  BY <1>1, CorpusInit, CorpusNext, PTL DEF Spec

-----------------------------------------------------------------------------
(* The commits that are counted and not yet trained on.                    *)

(* Nothing is counted while personalisation is off, and what is in flight  *)
(* or queued was asked for while it was on.                                *)
StrandedInv ==
  /\ TypeOK
  /\ NoCommitsStranded
  /\ ~up \/ ~settings => unlearned = 0
  /\ deferred.stage # "none" => deferred.active
  /\ \A t \in InFlight : trainer[t].active

LEMMA ThresholdPositive ==
  \A n \in Nat : Threshold(n) \in Nat /\ Threshold(n) > 0
  BY ConstantsAssumption DEF Threshold

(* A step that touches neither counts, nor runs, nor what is queued.       *)
LEMMA StrandedStill ==
  ASSUME StrandedInv, TypeOK',
         UNCHANGED <<up, settings, base, unlearned, corpusLines, isTraining,
                     deferred, trainer, lastRun>>
  PROVE  StrandedInv'
  BY DEF StrandedInv, NoCommitsStranded, Resting, baseIsReady, InFlight,
         Threshold

(* A step that has just zeroed the counter.                                *)
LEMMA StrandedZeroed ==
  ASSUME TypeOK', unlearned' = 0,
         deferred'.stage # "none" => deferred'.active,
         \A t \in InFlight' : trainer'[t].active
  PROVE  StrandedInv'
<1>1. corpusLines' \in Nat
  BY DEF TypeOK
<1>2. Threshold(corpusLines)' > 0 /\ Threshold(corpusLines)' \in Nat
  BY <1>1, ThresholdPositive DEF Threshold
<1>3. unlearned' < Threshold(corpusLines)'
  BY <1>2
<1>4. QED
  BY <1>3 DEF StrandedInv, NoCommitsStranded

(* beginTraining zeroes the counter, whether or not there is anything to   *)
(* train on, and starts its run with personalisation on.                   *)
LEMMA BeginZeroes ==
  ASSUME StrandedInv, TypeOK', NEW words, NEW import, NEW onDisk, NEW pub,
         BeginTraining(TRUE, words, import, onDisk, pub),
         deferred'.stage # "none" => deferred'.active
  PROVE  StrandedInv'
<1>1. unlearned' = 0
  BY DEF BeginTraining
<1>2. \A t \in InFlight' : trainer'[t].active
  <2>1. CASE UNCHANGED trainer
    BY <2>1 DEF StrandedInv, InFlight
  <2>2. ASSUME NEW t \in Trainers, NEW lines,
               trainer' = [trainer EXCEPT ![t] =
                 [stage |-> "started", gen |-> pub + 1, lines |-> lines,
                  active |-> TRUE]]
        PROVE  \A u \in InFlight' : trainer'[u].active
    <3>1. trainer'[t].active
      BY <2>2 DEF StrandedInv, TypeOK
    <3>2. \A u \in Trainers : u # t => trainer'[u] = trainer[u]
      BY <2>2 DEF StrandedInv, TypeOK
    <3>3. QED
      BY <3>1, <3>2 DEF InFlight, StrandedInv
  <2>3. QED
    BY <2>1, <2>2 DEF BeginTraining
<1>3. QED
  BY <1>1, <1>2, StrandedZeroed

(* startTraining begins a run or leaves one queued.                        *)
LEMMA StartStrandsNothing ==
  ASSUME StrandedInv, TypeOK', up, settings, UNCHANGED <<up, settings>>,
         NEW words, NEW import, NEW onDisk, NEW lines, NEW count, NEW pub,
         StartTraining(TRUE, words, import, onDisk, lines, count, pub)
  PROVE  StrandedInv'
<1>1. CASE cooling
  <2>1. deferred'.stage # "none" /\ deferred'.active /\ UNCHANGED trainer
    BY <1>1 DEF StartTraining, Defer, StrandedInv
  <2>2. QED
    BY <2>1 DEF StrandedInv, NoCommitsStranded, Resting, InFlight
<1>2. CASE ~cooling
  BY <1>2, BeginZeroes DEF StartTraining, StrandedInv
<1>3. QED
  BY <1>1, <1>2

(* A file operation of the training task.                                  *)
LEMMA StrandedTask ==
  ASSUME StrandedInv, TypeOK', NEW t \in Trainers, TrainingStep(t)
  PROVE  StrandedInv'
<1> USE DEF diskVars, outsideVars, inputVars, countVars, runVars, eraseVars
<1>1. /\ UNCHANGED <<up, settings, base, unlearned, corpusLines, isTraining,
                      deferred, lastRun>>
      /\ trainer[t].stage # "idle"
      /\ \E s : trainer' = [trainer EXCEPT ![t].stage = s]
  BY DEF TrainingStep, Stage, Train, ClearDestination, MoveIntoPlace
<1>2. trainer[t].active
  BY <1>1 DEF StrandedInv, InFlight
<1>3. trainer'[t].active = trainer[t].active
  BY <1>1 DEF StrandedInv, TypeOK, Run
<1>4. \A u \in Trainers : u # t => trainer'[u] = trainer[u]
  BY <1>1 DEF StrandedInv, TypeOK
<1>5. \A u \in InFlight' : trainer'[u].active
  BY <1>2, <1>3, <1>4 DEF InFlight, StrandedInv
<1>6. QED
  BY <1>1, <1>5 DEF StrandedInv, NoCommitsStranded, Resting, baseIsReady,
                    Threshold

LEMMA StrandedInit == Init => StrandedInv
<1> SUFFICES ASSUME Init PROVE StrandedInv
  OBVIOUS
<1>1. TypeOK
  BY TypeInit
<1>2. QED
  BY <1>1 DEF StrandedInv, NoCommitsStranded, Resting, InFlight, Init, Idle,
              NotQueued

LEMMA StrandedNext == StrandedInv /\ [Next]_vars => StrandedInv'
<1> SUFFICES ASSUME StrandedInv, [Next]_vars PROVE StrandedInv'
  OBVIOUS
<1> USE DEF diskVars, outsideVars, inputVars, countVars, runVars, eraseVars
<1>a. TypeOK /\ TypeOK'
  BY TypeNext DEF StrandedInv
<1>1. CASE Record
  <2> DEFINE now   == corpus \union {commits + 1}
             lines == corpusLines + 1
             count == unlearned + 1
  <2>1. up /\ settings = TRUE /\ UNCHANGED <<up, settings, base, lastRun>>
    BY <1>1, <1>a DEF Record, TypeOK
  <2>2. CASE StartTraining(settings, registered, imported, now, lines, count,
                           published)
    BY <1>a, <2>1, <2>2, StartStrandsNothing
  <2>3. CASE /\ ~(count >= Threshold(lines) /\ ~isTraining)
             /\ corpusLines' = lines /\ unlearned' = count
             /\ UNCHANGED <<isTraining, trainer, deferred>>
    <3>1. lines \in Nat /\ count \in Nat
      BY <1>a DEF TypeOK
    <3>2. Threshold(lines) \in Nat
      BY <3>1, ThresholdPositive
    <3>3. isTraining' \/ unlearned' < Threshold(lines)
      BY <2>3, <3>1, <3>2
    <3>4. Threshold(corpusLines)' = Threshold(lines)
      BY <2>3 DEF Threshold
    <3>5. QED
      BY <1>a, <2>1, <2>3, <3>3, <3>4
      DEF StrandedInv, NoCommitsStranded, Resting, InFlight
  <2>4. QED
    BY <1>1, <2>2, <2>3 DEF Record
<1>2. ASSUME NEW r \in BOOLEAN, NEW w \in WordLists, Convert(r, w)
      PROVE  StrandedInv'
  <2>1. up /\ UNCHANGED <<up, settings, base, lastRun>>
    BY <1>2 DEF Convert
  <2>2. CASE UNCHANGED <<countVars, isTraining, trainer, deferred>>
    BY <1>a, <2>1, <2>2, StrandedStill
  <2>3. ASSUME settings = TRUE, NEW import,
               StartTraining(settings, w, import, corpus, corpusLines,
                             unlearned, published)
        PROVE  StrandedInv'
    BY <1>a, <2>1, <2>3, StartStrandsNothing
  <2>4. QED
    BY <1>2, <1>a, <2>2, <2>3 DEF Convert, TypeOK
<1>3. ASSUME ProcessEnds
      PROVE  StrandedInv'
  BY <1>3, <1>a, StrandedZeroed DEF ProcessEnds, InFlight, Idle, NotQueued
<1>4. ASSUME NEW w \in WordLists, ApplyUserDictionary(w)
      PROVE  StrandedInv'
  <2>1. up /\ UNCHANGED <<up, settings, base, lastRun>>
    BY <1>4 DEF ApplyUserDictionary
  <2>2. CASE UNCHANGED <<countVars, isTraining, trainer, deferred>>
    BY <1>a, <2>1, <2>2, StrandedStill
  <2>3. CASE /\ settings = TRUE
             /\ StartTraining(settings, w, imported, corpus, corpusLines,
                               unlearned, published)
    BY <1>a, <2>1, <2>3, StartStrandsNothing
  <2>4. QED
    BY <1>4, <1>a, <2>2, <2>3 DEF ApplyUserDictionary, TypeOK
<1>5. CASE UpdateSettings
  <2>1. unlearned' = 0 /\ UNCHANGED <<deferred, trainer>>
    BY <1>5 DEF UpdateSettings, StrandedInv
  <2>2. QED
    BY <1>a, <2>1, StrandedZeroed DEF StrandedInv, InFlight
<1>6. ASSUME NEW t \in Trainers, FinishTraining(t)
      PROVE  StrandedInv'
  <2>1. /\ UNCHANGED <<up, settings, base, unlearned, corpusLines>>
        /\ trainer[t].stage # "idle"
        /\ trainer' = [trainer EXCEPT ![t] = Idle]
    BY <1>6 DEF FinishTraining
  <2>2. trainer[t].active
    BY <2>1 DEF StrandedInv, InFlight
  <2>3. \A u \in InFlight' : trainer'[u].active
    BY <1>a, <2>1 DEF StrandedInv, InFlight, TypeOK, Idle
  <2>4. deferred'.stage # "none" => deferred'.active
    BY <1>6, <2>2 DEF FinishTraining, Defer, StrandedInv
  <2>5. Threshold(corpusLines)' = Threshold(corpusLines)
    BY <2>1 DEF Threshold
  <2>6. unlearned \in Nat /\ Threshold(corpusLines) \in Nat
    BY <1>a, ThresholdPositive DEF TypeOK
  <2>7. \/ lastRun' = "failed"
        \/ unlearned < Threshold(corpusLines)
        \/ deferred'.stage # "none"
    BY <1>6, <2>6 DEF FinishTraining, Defer
  <2>8. QED
    BY <1>a, <2>1, <2>3, <2>4, <2>5, <2>7
    DEF StrandedInv, NoCommitsStranded, Resting
<1>7. ASSUME NEW t \in Trainers, TrainingStep(t)
      PROVE  StrandedInv'
  BY <1>7, <1>a, StrandedTask
<1>8. CASE DeferredRunWakes
  <2>1. /\ deferred' = NotQueued /\ deferred.active
        /\ UNCHANGED <<up, settings, base, lastRun>>
    BY <1>8 DEF DeferredRunWakes, StrandedInv
  <2>2. CASE BeginTraining(deferred.active, registered, imported, corpus,
                           published)
    <3>1. deferred.active = TRUE
      BY <1>a, <2>1 DEF TypeOK
    <3>2. QED
      BY <1>a, <2>1, <2>2, <3>1, BeginZeroes DEF NotQueued
  <2>3. CASE /\ ~(baseIsReady /\ ~isTraining)
             /\ UNCHANGED <<countVars, isTraining, trainer>>
    BY <1>a, <2>1, <2>3
    DEF StrandedInv, NoCommitsStranded, Resting, baseIsReady, InFlight, NotQueued
  <2>4. QED
    BY <1>8, <2>1, <2>2, <2>3 DEF DeferredRunWakes
<1>9. ASSUME NEW b \in Bases, NEW w \in WordLists, Start(b, w)
      PROVE  StrandedInv'
  <2>1. UNCHANGED <<deferred, lastRun>>
    BY <1>9 DEF Start
  <2>2. CASE UNCHANGED <<unlearned, trainer>>
    BY <1>9, <1>a, <2>1, <2>2, StrandedZeroed DEF Start, StrandedInv, InFlight
  <2>3. ASSUME registry = TRUE, NEW import, NEW kept, NEW pub,
               BeginTraining(registry, w, import, kept, pub)
        PROVE  StrandedInv'
    BY <1>a, <2>1, <2>3, BeginZeroes DEF StrandedInv
  <2>4. QED
    BY <1>9, <1>a, <2>2, <2>3 DEF Start, TypeOK
<1>10. CASE CooldownEnds
  BY <1>10, <1>a
  DEF CooldownEnds, StrandedInv, NoCommitsStranded, Resting, baseIsReady,
      InFlight, Threshold, TypeOK
<1>11. CASE FlipSwitch \/ ChangeImport \/ EraseFromSettingsApp
  BY <1>11, <1>a, StrandedStill
  DEF FlipSwitch, ChangeImport, EraseFromSettingsApp
<1>12. CASE UNCHANGED vars
  BY <1>12, <1>a, StrandedStill DEF vars
<1>13. QED
  BY <1>1, <1>2, <1>3, <1>4, <1>5, <1>6, <1>7, <1>8, <1>9, <1>10, <1>11, <1>12
  DEF Next, MainActorStep, ConvertMissingModel, Stop

(* However commits, runs, the cooldown, imports, erases and restarts       *)
(* interleave, an engine at rest has fewer commits waiting than start a    *)
(* run, unless its latest run failed.                                      *)
THEOREM NothingStranded == Spec => []NoCommitsStranded
<1>1. StrandedInv => NoCommitsStranded
  BY DEF StrandedInv
<1>2. QED
  BY <1>1, StrandedInit, StrandedNext, PTL DEF Spec

-----------------------------------------------------------------------------
(* The generation on offer and the text that was erased.  ModelInv carries *)
(* the properties of the training runs and of the generation on offer,     *)
(* EraseInv what becomes of erased text.                                   *)

-----------------------------------------------------------------------------
(* The inductive invariant.                                                *)

(* A process that is not running holds nothing.                            *)
NothingWhenDown ==
  ~up => InFlight = {} /\ ~isTraining /\ deferred = NotQueued /\ published = 0

(* A run that has moved its generation into place finds it there when it   *)
(* publishes, unless an erase came between.                                *)
MovedIsThere ==
  \A t \in InFlight :
    trainer[t].stage = "moved" => trainer[t].gen \in gens \union pulled

ModelInv ==
  /\ TypeOK
  /\ NothingWhenDown
  /\ OneRunAtATime
  /\ RunSparesPublished
  /\ MovedIsThere
  /\ NamedModelIsThere

(* Text the engine can still bring into a file: what is on disk, and what  *)
(* runs in flight have read.                                               *)
InReach == OnDisk \union UNION {trainer[t].lines.text : t \in InFlight}

EraseInv ==
  /\ TypeOK
  /\ erasedThrough <= commits
  /\ InReach \intersect (1 .. erasedThrough) \subseteq caught

-----------------------------------------------------------------------------
(* How the set of runs in flight changes.                                  *)

(* The only run in flight, if any, has just begun, into pub + 1.           *)
RunsBegin(pub) ==
  /\ OneRunAtATime'
  /\ \A t \in InFlight' : /\ trainer'[t].stage = "started"
                          /\ trainer'[t].gen = pub + 1

LEMMA BeginRuns ==
  ASSUME TypeOK, OneRunAtATime, ~isTraining,
         NEW active, NEW words, NEW import, NEW onDisk, NEW pub,
         BeginTraining(active, words, import, onDisk, pub)
  PROVE  RunsBegin(pub)
<1>1. InFlight = {}
  BY DEF OneRunAtATime
<1>2. CASE UNCHANGED <<isTraining, trainer>>
  BY <1>1, <1>2 DEF RunsBegin, OneRunAtATime, InFlight
<1>3. ASSUME isTraining' = TRUE, NEW t \in Trainers, NEW lines,
             trainer' = [trainer EXCEPT ![t] =
               [stage |-> "started", gen |-> pub + 1, lines |-> lines,
                active |-> active]]
      PROVE  RunsBegin(pub)
  <2>1. \A u \in Trainers : u # t => trainer'[u].stage = "idle"
    BY <1>1, <1>3 DEF InFlight, TypeOK
  <2>2. trainer'[t].stage = "started" /\ trainer'[t].gen = pub + 1
    BY <1>3 DEF TypeOK
  <2>3. InFlight' = {t}
    BY <2>1, <2>2 DEF InFlight
  <2>4. QED
    BY <1>3, <2>2, <2>3 DEF RunsBegin, OneRunAtATime
<1>4. QED
  BY <1>2, <1>3 DEF BeginTraining

LEMMA StartRuns ==
  ASSUME TypeOK, OneRunAtATime, ~isTraining,
         NEW active, NEW words, NEW import, NEW onDisk, NEW lines, NEW count,
         NEW pub, StartTraining(active, words, import, onDisk, lines, count, pub)
  PROVE  RunsBegin(pub)
<1>1. CASE cooling
  BY <1>1 DEF StartTraining, RunsBegin, OneRunAtATime, InFlight
<1>2. CASE ~cooling
  BY <1>2, BeginRuns DEF StartTraining
<1>3. QED
  BY <1>1, <1>2

(* A step of the task t that leaves it in flight.                          *)
LEMMA TaskMoves ==
  ASSUME TypeOK, OneRunAtATime, NEW t \in Trainers, NEW s,
         trainer[t].stage # "idle", s # "idle",
         trainer' = [trainer EXCEPT ![t].stage = s],
         UNCHANGED isTraining
  PROVE  /\ InFlight = {t} /\ InFlight' = {t}
         /\ OneRunAtATime'
         /\ trainer'[t].gen = trainer[t].gen
         /\ trainer'[t].lines = trainer[t].lines
         /\ trainer'[t].stage = s
<1>1. InFlight = {t}
  BY DEF OneRunAtATime, InFlight
<1>2. /\ trainer'[t].gen = trainer[t].gen
      /\ trainer'[t].lines = trainer[t].lines
      /\ trainer'[t].stage = s
  BY FlightTyped DEF TypeOK
<1>3. \A u \in Trainers : u # t => trainer'[u] = trainer[u]
  BY DEF TypeOK
<1>4. InFlight' = {t}
  BY <1>1, <1>2, <1>3 DEF InFlight
<1>5. QED
  BY <1>1, <1>2, <1>4 DEF OneRunAtATime

-----------------------------------------------------------------------------
(* Preservation of ModelInv.                                               *)

(* A step that touches neither the runs nor the generations.               *)
LEMMA ModelStill ==
  ASSUME ModelInv, TypeOK',
         UNCHANGED <<up, gens, published, pulled, isTraining, trainer, deferred>>
  PROVE  ModelInv'
  BY DEF ModelInv, NothingWhenDown, OneRunAtATime, RunSparesPublished,
         MovedIsThere, NamedModelIsThere, InFlight

(* A step of a running engine that may begin a run.                        *)
LEMMA ModelBegins ==
  ASSUME ModelInv, TypeOK', up, UNCHANGED <<up, gens, published, pulled>>,
         UNCHANGED <<isTraining, trainer>> \/ RunsBegin(published)
  PROVE  ModelInv'
<1>1. CASE UNCHANGED <<isTraining, trainer>>
  BY <1>1 DEF ModelInv, NothingWhenDown, OneRunAtATime, RunSparesPublished,
              MovedIsThere, NamedModelIsThere, InFlight
<1>2. CASE RunsBegin(published)
  <2>1. published + 1 # published
    BY ConstantFacts DEF ModelInv, TypeOK
  <2>2. QED
    BY <1>2, <2>1 DEF ModelInv, NothingWhenDown, RunSparesPublished,
                      MovedIsThere, NamedModelIsThere, RunsBegin
<1>3. QED
  BY <1>1, <1>2

(* The engine has ended.                                                   *)
LEMMA ModelEnds ==
  ASSUME ModelInv, TypeOK', ProcessEnds
  PROVE  ModelInv'
<1>1. InFlight' = {} /\ ~isTraining' /\ ~up' /\ deferred' = NotQueued
      /\ published' = 0
  BY DEF ProcessEnds, InFlight, Idle
<1>2. QED
  BY <1>1 DEF ModelInv, NothingWhenDown, OneRunAtATime, RunSparesPublished,
              MovedIsThere, NamedModelIsThere

(* An erase, from whichever side, that records what it pulled away from    *)
(* under a run.                                                            *)
LEMMA ModelErased ==
  ASSUME ModelInv, TypeOK', NEW g \in SUBSET gens, gens' = g,
         pulled \union (MovedIn \ g) \subseteq pulled',
         published' \in {0, published},
         published' # 0 /\ published \notin g => published \in pulled',
         UNCHANGED <<up, isTraining, trainer, deferred>>
  PROVE  ModelInv'
<1>1. OneRunAtATime' /\ NothingWhenDown'
  BY DEF ModelInv, OneRunAtATime, NothingWhenDown, InFlight
<1>2. RunSparesPublished'
  <2>1. \A t \in InFlight : trainer[t].gen # 0
    BY FlightTyped DEF ModelInv, InFlight, Generations
  <2>2. QED
    BY <2>1 DEF ModelInv, RunSparesPublished, InFlight
<1>3. MovedIsThere'
  BY DEF ModelInv, MovedIsThere, MovedIn, InFlight
<1>4. NamedModelIsThere'
  BY DEF ModelInv, NamedModelIsThere
<1>5. QED
  BY <1>1, <1>2, <1>3, <1>4 DEF ModelInv

LEMMA ModelInit == Init => ModelInv
<1> SUFFICES ASSUME Init PROVE ModelInv
  OBVIOUS
<1>1. InFlight = {}
  BY DEF Init, InFlight, Idle
<1>2. QED
  BY <1>1, TypeInit DEF Init, ModelInv, NothingWhenDown, OneRunAtATime,
     RunSparesPublished, MovedIsThere, NamedModelIsThere

LEMMA ModelNext == ModelInv /\ [Next]_vars => ModelInv'
<1> SUFFICES ASSUME ModelInv, [Next]_vars PROVE ModelInv'
  OBVIOUS
<1> USE DEF diskVars, outsideVars, inputVars, countVars, runVars, eraseVars
<1>a. TypeOK /\ TypeOK' /\ OneRunAtATime
  BY TypeNext DEF ModelInv
<1>1. CASE Record
  <2>1. UNCHANGED <<isTraining, trainer>> \/ RunsBegin(published)
    BY <1>1, <1>a, StartRuns DEF Record
  <2>2. QED
    BY <1>1, <1>a, <2>1, ModelBegins DEF Record
<1>2. ASSUME NEW r \in BOOLEAN, NEW w \in WordLists, Convert(r, w)
      PROVE  ModelInv'
  <2>1. UNCHANGED <<isTraining, trainer>> \/ RunsBegin(published)
    BY <1>2, <1>a, StartRuns DEF Convert
  <2>2. QED
    BY <1>2, <1>a, <2>1, ModelBegins DEF Convert
<1>3. CASE ConvertMissingModel
  BY <1>3, <1>a, ModelEnds DEF ConvertMissingModel
<1>4. ASSUME NEW w \in WordLists, ApplyUserDictionary(w)
      PROVE  ModelInv'
  <2>1. UNCHANGED <<isTraining, trainer>> \/ RunsBegin(published)
    BY <1>4, <1>a, StartRuns DEF ApplyUserDictionary
  <2>2. QED
    BY <1>4, <1>a, <2>1, ModelBegins DEF ApplyUserDictionary
<1>5. CASE UpdateSettings
  <2>1. CASE settings
    <3>1. PICK g \in Survivors(gens), p \in Survivors(partial),
               c \in (IF DeletionMayFail THEN {{}, corpus} ELSE {{}}) :
                 /\ EraseFiles(c, g, p)
                 /\ pulled' = pulled \union (MovedIn \ g)
      BY <1>5, <2>1 DEF UpdateSettings
    <3>2. g \in SUBSET gens /\ gens' = g
      BY <3>1, SurvivorsFacts DEF EraseFiles
    <3>3. published' = 0 /\ UNCHANGED <<up, isTraining, trainer, deferred>>
      BY <1>5, <2>1 DEF UpdateSettings
    <3>4. QED
      BY <1>a, <3>1, <3>2, <3>3, ModelErased
  <2>2. CASE ~settings
    BY <1>5, <2>2, <1>a, ModelStill DEF UpdateSettings
  <2>3. QED
    BY <2>1, <2>2
<1>6. ASSUME NEW t \in Trainers, Stage(t)
      PROVE  ModelInv'
  <2>1. PICK s \in {"staged", "failed"} :
          trainer' = [trainer EXCEPT ![t].stage = s]
    BY <1>6 DEF Stage
  <2>2. trainer[t].stage # "idle" /\ UNCHANGED <<up, gens, published, pulled,
                                                 isTraining, deferred>>
    BY <1>6 DEF Stage
  <2>3. InFlight = {t} /\ InFlight' = {t} /\ OneRunAtATime'
        /\ trainer'[t].gen = trainer[t].gen /\ trainer'[t].stage = s
    BY <1>a, <2>1, <2>2, TaskMoves
  <2>4. QED
    BY <1>a, <2>2, <2>3 DEF ModelInv, NothingWhenDown, RunSparesPublished,
       MovedIsThere, NamedModelIsThere
<1>7. ASSUME NEW t \in Trainers, Train(t)
      PROVE  ModelInv'
  <2>1. PICK s \in {"checked", "failed"} :
          trainer' = [trainer EXCEPT ![t].stage = s]
    BY <1>7 DEF Train
  <2>2. trainer[t].stage # "idle" /\ UNCHANGED <<up, gens, published, pulled,
                                                 isTraining, deferred>>
    BY <1>7 DEF Train
  <2>3. InFlight = {t} /\ InFlight' = {t} /\ OneRunAtATime'
        /\ trainer'[t].gen = trainer[t].gen /\ trainer'[t].stage = s
    BY <1>a, <2>1, <2>2, TaskMoves
  <2>4. QED
    BY <1>a, <2>2, <2>3 DEF ModelInv, NothingWhenDown, RunSparesPublished,
       MovedIsThere, NamedModelIsThere
<1>8. ASSUME NEW t \in Trainers, ClearDestination(t)
      PROVE  ModelInv'
  <2>1. /\ trainer' = [trainer EXCEPT ![t].stage = "cleared"]
        /\ trainer[t].stage # "idle"
        /\ UNCHANGED <<up, published, pulled, isTraining, deferred>>
    BY <1>8 DEF ClearDestination
  <2>2. InFlight = {t} /\ InFlight' = {t} /\ OneRunAtATime'
        /\ trainer'[t].gen = trainer[t].gen /\ trainer'[t].stage = "cleared"
    BY <1>a, <2>1, TaskMoves
  <2>3. \A n \in gens : n # trainer[t].gen => n \in gens'
    BY <1>8 DEF ClearDestination
  <2>4. trainer[t].gen # published
    BY <2>2 DEF ModelInv, RunSparesPublished
  <2>5. QED
    BY <1>a, <2>1, <2>2, <2>3, <2>4
    DEF ModelInv, NothingWhenDown, RunSparesPublished, MovedIsThere,
        NamedModelIsThere
<1>9. ASSUME NEW t \in Trainers, MoveIntoPlace(t)
      PROVE  ModelInv'
  <2>1. PICK s \in {"moved", "failed"} :
          /\ trainer' = [trainer EXCEPT ![t].stage = s]
          /\ IF s = "moved"
             THEN /\ gens' = gens \union {trainer[t].gen}
                  /\ pulled' = pulled \ {trainer[t].gen}
             ELSE UNCHANGED <<gens, pulled>>
    BY <1>9 DEF MoveIntoPlace
  <2>2. trainer[t].stage # "idle" /\ UNCHANGED <<up, published, isTraining,
                                                 deferred>>
    BY <1>9 DEF MoveIntoPlace
  <2>3. InFlight = {t} /\ InFlight' = {t} /\ OneRunAtATime'
        /\ trainer'[t].gen = trainer[t].gen /\ trainer'[t].stage = s
    BY <1>a, <2>1, <2>2, TaskMoves
  <2>4. QED
    BY <1>a, <2>1, <2>2, <2>3
    DEF ModelInv, NothingWhenDown, RunSparesPublished, MovedIsThere,
        NamedModelIsThere
<1>10. ASSUME NEW t \in Trainers, FinishTraining(t)
       PROVE  ModelInv'
  <2>1. t \in InFlight /\ up
    BY <1>10 DEF FinishTraining, InFlight, ModelInv, NothingWhenDown
  <2>2. InFlight' = {} /\ ~isTraining'
    <3>1. \A u \in Trainers : u # t => u \notin InFlight
      BY <1>a, <2>1 DEF OneRunAtATime
    <3>2. trainer' = [trainer EXCEPT ![t] = Idle] /\ isTraining' = FALSE
      BY <1>10 DEF FinishTraining
    <3>3. \A u \in Trainers : trainer'[u].stage = "idle"
      BY <1>a, <3>1, <3>2 DEF TypeOK, InFlight, Idle
    <3>4. QED
      BY <3>2, <3>3 DEF InFlight
  <2>3. NamedModelIsThere'
    <3>1. CASE trainer[t].stage = "moved"
      <4>1. published' = trainer[t].gen /\ UNCHANGED <<up, pulled>>
        BY <1>10, <3>1 DEF FinishTraining
      <4>2. trainer[t].gen \in gens \union pulled
        BY <2>1, <3>1 DEF ModelInv, MovedIsThere
      <4>3. trainer[t].gen # published
        BY <2>1 DEF ModelInv, RunSparesPublished
      <4>4. \A n \in gens : n # published => n \in gens'
        BY <1>10, <3>1 DEF FinishTraining
      <4>5. QED
        BY <4>1, <4>2, <4>3, <4>4 DEF NamedModelIsThere
    <3>2. CASE trainer[t].stage # "moved"
      BY <1>10, <3>2 DEF FinishTraining, ModelInv, NamedModelIsThere
    <3>3. QED
      BY <3>1, <3>2
  <2>4. UNCHANGED up
    BY <1>10 DEF FinishTraining
  <2>5. QED
    BY <1>a, <2>1, <2>2, <2>3, <2>4
    DEF ModelInv, NothingWhenDown, OneRunAtATime, RunSparesPublished,
        MovedIsThere
<1>11. CASE CooldownEnds
  <2>1. UNCHANGED <<up, gens, published, pulled, isTraining, trainer>>
    BY <1>11 DEF CooldownEnds
  <2>2. ~up => deferred' = NotQueued
    <3>1. deferred.stage # "asleep" => deferred' = deferred
      BY <1>11 DEF CooldownEnds
    <3>2. ~up => deferred = NotQueued /\ deferred.stage # "asleep"
      BY DEF ModelInv, NothingWhenDown, NotQueued
    <3>3. QED
      BY <3>1, <3>2
  <2>3. QED
    BY <1>a, <2>1, <2>2 DEF ModelInv, NothingWhenDown, OneRunAtATime,
       RunSparesPublished, MovedIsThere, NamedModelIsThere, InFlight
<1>12. CASE DeferredRunWakes
  <2>1. up
    BY <1>12 DEF DeferredRunWakes, ModelInv, NothingWhenDown, NotQueued
  <2>2. UNCHANGED <<isTraining, trainer>> \/ RunsBegin(published)
    BY <1>12, <1>a, BeginRuns DEF DeferredRunWakes
  <2>3. QED
    BY <1>12, <1>a, <2>1, <2>2, ModelBegins DEF DeferredRunWakes
<1>13. ASSUME NEW b \in Bases, NEW w \in WordLists, Start(b, w)
       PROVE  ModelInv'
  <2>1. /\ ~up /\ up' /\ InFlight = {} /\ ~isTraining /\ published = 0
        /\ UNCHANGED gens
    BY <1>13 DEF Start, ModelInv, NothingWhenDown
  <2>2. CASE b = "threw"
    <3>1. UNCHANGED <<published, isTraining, trainer>>
      BY <1>13, <2>2 DEF Start
    <3>2. QED
      BY <1>a, <2>1, <3>1 DEF ModelInv, NothingWhenDown, OneRunAtATime,
         RunSparesPublished, MovedIsThere, NamedModelIsThere, InFlight
  <2>3. CASE b # "threw"
    <3>1. published' = Newest(gens)
      BY <1>13, <2>3 DEF Start
    <3>2. /\ published' \in Nat
          /\ published' # 0 => published' \in gens'
      BY <1>a, <2>1, <3>1, NewestFacts, ConstantFacts DEF TypeOK
    <3> DEFINE kept == Trimmed(corpus)
               import == IF importFile.usable THEN importFile.mtime ELSE 0
    <3>3. \/ UNCHANGED <<isTraining, trainer>>
          \/ BeginTraining(registry, w, import, kept, Newest(gens))
      BY <1>13, <2>3 DEF Start
    <3> HIDE DEF kept, import
    <3>4. OneRunAtATime' /\ \A t \in InFlight' :
             trainer'[t].stage = "started" /\ trainer'[t].gen = published' + 1
      <4>1. CASE UNCHANGED <<isTraining, trainer>>
        BY <1>a, <2>1, <4>1 DEF OneRunAtATime, InFlight
      <4>2. CASE BeginTraining(registry, w, import, kept, Newest(gens))
        BY <1>a, <2>1, <3>1, <4>2, BeginRuns DEF RunsBegin
      <4>3. QED
        BY <3>3, <4>1, <4>2
    <3>5. published' + 1 # published'
      <4>1. \A n \in Nat : n + 1 # n
        OBVIOUS
      <4>2. QED
        BY <3>2, <4>1
    <3>6. QED
      BY <1>a, <2>1, <3>2, <3>4, <3>5
      DEF ModelInv, NothingWhenDown, RunSparesPublished, MovedIsThere,
          NamedModelIsThere
  <2>4. QED
    BY <2>2, <2>3
<1>14. CASE Stop
  BY <1>14, <1>a, ModelEnds DEF Stop
<1>15. CASE FlipSwitch
  BY <1>15, <1>a, ModelStill DEF FlipSwitch
<1>16. CASE ChangeImport
  BY <1>16, <1>a, ModelStill DEF ChangeImport
<1>17. CASE EraseFromSettingsApp
  <2>1. PICK g \in Survivors(gens), p \in Survivors(partial),
             c \in (IF DeletionMayFail THEN {{}, corpus} ELSE {{}}) :
               /\ EraseFiles(c, g, p)
               /\ pulled' = pulled \union
                     ((MovedIn \union {published}) \ (g \union {0}))
    BY <1>17 DEF EraseFromSettingsApp
  <2>2. g \in SUBSET gens /\ gens' = g
    BY <2>1, SurvivorsFacts DEF EraseFiles
  <2>3. UNCHANGED <<up, published, isTraining, trainer, deferred>>
    BY <1>17 DEF EraseFromSettingsApp
  <2>4. 0 \notin MovedIn
    BY <1>a, MovedInTyped DEF Generations
  <2>5. pulled \union (MovedIn \ g) \subseteq pulled'
    BY <2>1, <2>4
  <2>6. published' # 0 /\ published \notin g => published \in pulled'
    BY <2>1, <2>3
  <2>7. QED
    BY <1>a, <2>2, <2>3, <2>5, <2>6, ModelErased
<1>18. CASE UNCHANGED vars
  BY <1>18, <1>a, ModelStill DEF vars
<1>19. QED
  BY <1>1, <1>2, <1>3, <1>4, <1>5, <1>6, <1>7, <1>8, <1>9, <1>10, <1>11,
     <1>12, <1>13, <1>14, <1>15, <1>16, <1>17, <1>18
  DEF Next, MainActorStep, TrainingStep

LEMMA ModelInvariant == Spec => []ModelInv
<1>1. QED
  BY ModelInit, ModelNext, PTL DEF Spec

(* Two training tasks never work on the model directory at once, however   *)
(* requests, the cooldown, the deferred run, erases and restarts fall.     *)
THEOREM RunsExclude == Spec => []OneRunAtATime
<1>1. ModelInv => OneRunAtATime
  BY DEF ModelInv
<1>2. QED
  BY <1>1, ModelInvariant, PTL

(* No run ever trains into the generation on offer, so train's clearing of *)
(* its destination leaves the published model alone.                       *)
THEOREM PublishedIsSpared == Spec => []RunSparesPublished
<1>1. ModelInv => RunSparesPublished
  BY DEF ModelInv
<1>2. QED
  BY <1>1, ModelInvariant, PTL

(* The generation the engine offers to the converter is on disk unless it  *)
(* was deleted under the engine.                                           *)
THEOREM OfferedModelIsThere == Spec => []NamedModelIsThere
<1>1. ModelInv => NamedModelIsThere
  BY DEF ModelInv
<1>2. QED
  BY <1>1, ModelInvariant, PTL
-----------------------------------------------------------------------------
(* Preservation of EraseInv.                                               *)

InFlightText == UNION {trainer[t].lines.text : t \in InFlight}

(* A step that brings no text into reach but what was already in reach.    *)
LEMMA NothingNewInReach ==
  ASSUME EraseInv, TypeOK', InReach' \subseteq InReach,
         UNCHANGED <<erasedThrough, caught, commits>>
  PROVE  EraseInv'
  BY DEF EraseInv

(* What BeginTraining reads was on disk, and the corpus only shrinks.      *)
LEMMA BeginReads ==
  ASSUME TypeOK, NEW active, NEW words, NEW import,
         NEW onDisk \in SUBSET Commits, NEW pub,
         BeginTraining(active, words, import, onDisk, pub)
  PROVE  /\ corpus' \subseteq onDisk
         /\ InFlightText' \subseteq onDisk \union InFlightText
<1> DEFINE read  == IF active THEN Trimmed(onDisk) ELSE {}
           lines == [text |-> read, import |-> import, words |-> words]
<1>1. read \subseteq onDisk
  BY TrimmedFacts
<1>2. corpus' \subseteq onDisk
  BY <1>1 DEF BeginTraining
<1>3. CASE UNCHANGED trainer
  BY <1>2, <1>3 DEF InFlightText, InFlight
<1>4. ASSUME NEW t \in Trainers,
             trainer' = [trainer EXCEPT ![t] =
               [stage |-> "started", gen |-> pub + 1, lines |-> lines,
                active |-> active]]
      PROVE  InFlightText' \subseteq onDisk \union InFlightText
  <2>1. trainer'[t].lines.text \subseteq onDisk
    BY <1>1, <1>4 DEF TypeOK
  <2>2. \A u \in Trainers : u # t => trainer'[u] = trainer[u]
    BY <1>4 DEF TypeOK
  <2>3. \A u \in InFlight' :
          trainer'[u].lines.text \subseteq onDisk \union InFlightText
    BY <2>1, <2>2 DEF InFlight, InFlightText
  <2>4. QED
    BY <2>3 DEF InFlightText
<1>5. QED
  BY <1>2, <1>3, <1>4 DEF BeginTraining

LEMMA StartReads ==
  ASSUME TypeOK, NEW active, NEW words, NEW import,
         NEW onDisk \in SUBSET Commits, NEW lines, NEW count, NEW pub,
         StartTraining(active, words, import, onDisk, lines, count, pub)
  PROVE  /\ corpus' \subseteq onDisk
         /\ InFlightText' \subseteq onDisk \union InFlightText
<1>1. CASE cooling
  BY <1>1 DEF StartTraining, InFlightText, InFlight
<1>2. CASE ~cooling
  BY <1>2, BeginReads DEF StartTraining
<1>3. QED
  BY <1>1, <1>2

(* What is in reach after a step that leaves the generations alone.        *)
LEMMA ReachFromParts ==
  ASSUME NEW onDisk, corpus' \subseteq onDisk,
         InFlightText' \subseteq onDisk \union InFlightText,
         UNCHANGED <<gens, content>>
  PROVE  InReach' \subseteq InReach \union onDisk
  BY DEF InReach, OnDisk, InFlightText

(* A step of the task t: it reads nothing more.                            *)
LEMMA TaskReadsNothing ==
  ASSUME TypeOK, NEW t \in Trainers, NEW s,
         trainer[t].stage # "idle", s # "idle",
         trainer' = [trainer EXCEPT ![t].stage = s]
  PROVE  InFlightText' = InFlightText
<1>1. trainer'[t].lines = trainer[t].lines /\ trainer'[t].stage = s
  BY FlightTyped DEF TypeOK
<1>2. \A u \in Trainers : u # t => trainer'[u] = trainer[u]
  BY DEF TypeOK
<1>3. InFlight' = InFlight
  BY <1>1, <1>2 DEF InFlight
<1>4. \A u \in InFlight : trainer'[u].lines = trainer[u].lines
  BY <1>1, <1>2 DEF InFlight
<1>5. QED
  BY <1>3, <1>4 DEF InFlightText

LEMMA EraseFilesKeeps ==
  ASSUME EraseInv, TypeOK', NEW c \in SUBSET corpus, NEW g \in SUBSET gens, NEW p,
         EraseFiles(c, g, p), UNCHANGED <<commits, trainer>>
  PROVE  EraseInv'
<1>1. corpus' = c /\ gens' = g
  BY DEF EraseFiles
<1>2. \A n \in g : content'[n] = content[n]
  BY DEF EraseFiles, EraseInv, TypeOK
<1>3. InFlight' = InFlight
  BY DEF InFlight
<1>4. InReach' \subseteq Caught(c, g)
  BY <1>1, <1>2, <1>3 DEF InReach, OnDisk, Caught
<1>5. Caught(c, g) \subseteq caught'
  BY DEF EraseFiles
<1>6. erasedThrough' <= commits'
  BY ConstantFacts DEF EraseFiles, EraseInv, TypeOK
<1>7. QED
  BY <1>4, <1>5, <1>6 DEF EraseInv

LEMMA EraseInit == Init => EraseInv
<1> SUFFICES ASSUME Init PROVE EraseInv
  OBVIOUS
<1>1. InFlight = {}
  BY DEF Init, InFlight, Idle
<1>2. InReach = {}
  BY <1>1 DEF Init, InReach, OnDisk
<1>3. QED
  BY <1>2, TypeInit DEF Init, EraseInv

LEMMA EraseNext == EraseInv /\ [Next]_vars => EraseInv'
<1> SUFFICES ASSUME EraseInv, [Next]_vars PROVE EraseInv'
  OBVIOUS
<1> USE DEF diskVars, outsideVars, inputVars, countVars, runVars, eraseVars
<1>a. TypeOK /\ TypeOK' /\ corpus \in SUBSET Commits
  BY TypeNext DEF EraseInv, TypeOK
<1>b. corpus \subseteq InReach
  BY DEF InReach, OnDisk
<1>1. CASE Record
  <2> DEFINE now == corpus \union {commits + 1}
  <2>1. now \in SUBSET Commits
    BY <1>1, <1>a, ConstantFacts DEF Record, TypeOK, Commits
  <2>2. corpus' \subseteq now /\ InFlightText' \subseteq now \union InFlightText
    <3>1. CASE StartTraining(settings, registered, imported, now,
                             corpusLines + 1, unlearned + 1, published)
      <4> HIDE DEF now
      <4>1. QED
        BY <1>a, <2>1, <3>1, StartReads
    <3>2. CASE corpus' = now /\ UNCHANGED trainer
      BY <3>2 DEF InFlightText, InFlight
    <3>3. QED
      BY <1>1, <3>1, <3>2 DEF Record
  <2>3. InReach' \subseteq InReach \union {commits + 1}
    BY <1>1, <1>b, <2>2, ReachFromParts DEF Record
  <2>4. commits + 1 \notin 1 .. erasedThrough
    BY <1>a, ConstantFacts DEF EraseInv, TypeOK
  <2>5. UNCHANGED <<erasedThrough, caught>> /\ erasedThrough' <= commits'
    BY <1>1, <1>a, ConstantFacts DEF Record, EraseInv, TypeOK
  <2>6. QED
    BY <1>a, <2>3, <2>4, <2>5 DEF EraseInv
<1>2. ASSUME NEW r \in BOOLEAN, NEW w \in WordLists, Convert(r, w)
      PROVE  EraseInv'
  <2>1. /\ corpus' \subseteq corpus
        /\ InFlightText' \subseteq corpus \union InFlightText
    <3>1. ASSUME NEW import,
                 StartTraining(settings, w, import, corpus, corpusLines,
                               unlearned, published)
          PROVE  /\ corpus' \subseteq corpus
                 /\ InFlightText' \subseteq corpus \union InFlightText
      BY <1>a, <3>1, StartReads
    <3>2. CASE UNCHANGED <<corpus, trainer>>
      BY <3>2 DEF InFlightText, InFlight
    <3>3. QED
      BY <1>2, <3>1, <3>2 DEF Convert
  <2>2. QED
    BY <1>2, <1>a, <1>b, <2>1, ReachFromParts, NothingNewInReach DEF Convert
<1>3. ASSUME ProcessEnds, corpus' \subseteq corpus, UNCHANGED <<gens, content>>
      PROVE  EraseInv'
  <2>1. InFlight' = {}
    BY <1>3 DEF ProcessEnds, InFlight, Idle
  <2>2. InReach' \subseteq InReach
    BY <1>3, <2>1 DEF InReach, OnDisk
  <2>3. QED
    BY <1>3, <1>a, <2>2, NothingNewInReach DEF ProcessEnds
<1>4. ASSUME NEW w \in WordLists, ApplyUserDictionary(w)
      PROVE  EraseInv'
  <2>1. /\ corpus' \subseteq corpus
        /\ InFlightText' \subseteq corpus \union InFlightText
    <3>1. CASE StartTraining(settings, w, imported, corpus, corpusLines,
                             unlearned, published)
      BY <1>a, <3>1, StartReads
    <3>2. CASE UNCHANGED <<corpus, trainer>>
      BY <3>2 DEF InFlightText, InFlight
    <3>3. QED
      BY <1>4, <3>1, <3>2 DEF ApplyUserDictionary
  <2>2. QED
    BY <1>4, <1>a, <1>b, <2>1, ReachFromParts, NothingNewInReach
    DEF ApplyUserDictionary
<1>5. CASE UpdateSettings
  <2>1. CASE settings
    <3>1. PICK g \in Survivors(gens), p \in Survivors(partial),
               c \in (IF DeletionMayFail THEN {{}, corpus} ELSE {{}}) :
                 EraseFiles(c, g, p)
      BY <1>5, <2>1 DEF UpdateSettings
    <3>2. g \in SUBSET gens /\ c \in SUBSET corpus
      BY <3>1, SurvivorsFacts
    <3>3. UNCHANGED <<commits, trainer>>
      BY <1>5 DEF UpdateSettings
    <3>4. QED
      BY <1>a, <3>1, <3>2, <3>3, EraseFilesKeeps
  <2>2. CASE ~settings
    <3>1. UNCHANGED <<diskVars, trainer, erasedThrough, caught, commits>>
      BY <1>5, <2>2 DEF UpdateSettings
    <3>2. InReach' \subseteq InReach
      BY <3>1 DEF InReach, OnDisk, InFlight
    <3>3. QED
      BY <1>a, <3>1, <3>2, NothingNewInReach
  <2>3. QED
    BY <2>1, <2>2
<1>6. ASSUME NEW t \in Trainers, Stage(t) \/ Train(t)
      PROVE  EraseInv'
  <2>1. /\ trainer[t].stage # "idle"
        /\ \E s \in {"staged", "checked", "failed"} :
             trainer' = [trainer EXCEPT ![t].stage = s]
        /\ UNCHANGED <<corpus, gens, content, erasedThrough, caught, commits>>
    BY <1>6 DEF Stage, Train
  <2>2. InFlightText' = InFlightText
    BY <1>a, <2>1, TaskReadsNothing
  <2>3. InReach' \subseteq InReach
    BY <2>1, <2>2 DEF InReach, OnDisk, InFlightText
  <2>4. QED
    BY <1>a, <2>1, <2>3, NothingNewInReach
<1>7. ASSUME NEW t \in Trainers, ClearDestination(t)
      PROVE  EraseInv'
  <2>1. /\ trainer[t].stage # "idle"
        /\ trainer' = [trainer EXCEPT ![t].stage = "cleared"]
        /\ UNCHANGED <<corpus, erasedThrough, caught, commits>>
        /\ content' = [content EXCEPT ![trainer[t].gen] =
                         IF trainer[t].gen \in gens' THEN @ ELSE Nothing]
    BY <1>7 DEF ClearDestination
  <2>2. InFlightText' = InFlightText
    BY <1>a, <2>1, TaskReadsNothing
  <2>3. gens' \subseteq gens
    BY <1>7, SurvivorsFacts DEF ClearDestination
  <2>4. \A n \in gens' : content'[n] = content[n]
    BY <1>a, <2>1, <2>3 DEF TypeOK
  <2>5. InReach' \subseteq InReach
    BY <2>1, <2>2, <2>3, <2>4 DEF InReach, OnDisk, InFlightText
  <2>6. QED
    BY <1>a, <2>1, <2>5, NothingNewInReach
<1>8. ASSUME NEW t \in Trainers, MoveIntoPlace(t)
      PROVE  EraseInv'
  <2>1. /\ trainer[t].stage # "idle"
        /\ \E s \in {"moved", "failed"} :
             trainer' = [trainer EXCEPT ![t].stage = s]
        /\ UNCHANGED <<corpus, erasedThrough, caught, commits>>
        /\ \/ UNCHANGED <<gens, content>>
           \/ /\ gens' = gens \union {trainer[t].gen}
              /\ content' = [content EXCEPT ![trainer[t].gen] =
                               trainer[t].lines]
    BY <1>8 DEF MoveIntoPlace
  <2>2. InFlightText' = InFlightText
    BY <1>a, <2>1, TaskReadsNothing
  <2>3. \A n \in gens' : \/ n \in gens /\ content'[n] = content[n]
                         \/ content'[n] = trainer[t].lines
    BY <1>a, <2>1 DEF TypeOK
  <2>4. trainer[t].lines.text \subseteq InFlightText
    BY <2>1 DEF InFlightText, InFlight
  <2>5. InReach' \subseteq InReach
    <3>1. \A n \in gens' : content'[n].text \subseteq InReach
      BY <2>3, <2>4 DEF InReach, OnDisk, InFlightText
    <3>2. QED
      BY <1>b, <2>1, <2>2, <3>1 DEF InReach, OnDisk, InFlightText
  <2>6. QED
    BY <1>a, <2>1, <2>5, NothingNewInReach
<1>9. ASSUME NEW t \in Trainers, FinishTraining(t)
      PROVE  EraseInv'
  <2>1. /\ trainer' = [trainer EXCEPT ![t] = Idle]
        /\ UNCHANGED <<corpus, erasedThrough, caught, commits>>
    BY <1>9 DEF FinishTraining
  <2>2. InFlightText' \subseteq InFlightText
    <3>1. \A u \in InFlight' : u \in InFlight /\ trainer'[u] = trainer[u]
      BY <1>a, <2>1 DEF InFlight, TypeOK, Idle
    <3>2. QED
      BY <3>1 DEF InFlightText
  <2>3. gens' \subseteq gens /\ \A n \in gens' : content'[n] = content[n]
    <3>1. CASE trainer[t].stage = "moved"
      <4>1. gens' \subseteq gens
        BY <1>9, <3>1, SurvivorsFacts DEF FinishTraining
      <4>2. content' = [g \in Generations |->
                          IF g \in gens' THEN content[g] ELSE Nothing]
        BY <1>9, <3>1 DEF FinishTraining
      <4>3. QED
        BY <1>a, <4>1, <4>2 DEF TypeOK
    <3>2. CASE trainer[t].stage # "moved"
      BY <1>9, <3>2 DEF FinishTraining
    <3>3. QED
      BY <3>1, <3>2
  <2>4. InReach' \subseteq InReach
    BY <2>1, <2>2, <2>3 DEF InReach, OnDisk, InFlightText
  <2>5. QED
    BY <1>a, <2>1, <2>4, NothingNewInReach
<1>10. CASE DeferredRunWakes
  <2>1. /\ corpus' \subseteq corpus
        /\ InFlightText' \subseteq corpus \union InFlightText
    <3>1. CASE BeginTraining(deferred.active, registered, imported, corpus,
                             published)
      BY <1>a, <3>1, BeginReads
    <3>2. CASE UNCHANGED <<corpus, trainer>>
      BY <3>2 DEF InFlightText, InFlight
    <3>3. QED
      BY <1>10, <3>1, <3>2 DEF DeferredRunWakes
  <2>2. QED
    BY <1>10, <1>a, <1>b, <2>1, ReachFromParts, NothingNewInReach
    DEF DeferredRunWakes
<1>11. ASSUME NEW b \in Bases, NEW w \in WordLists, Start(b, w)
       PROVE  EraseInv'
  <2>1. Trimmed(corpus) \subseteq corpus /\ Trimmed(corpus) \in SUBSET Commits
    BY <1>a, TrimmedFacts
  <2>2. /\ corpus' \subseteq corpus
        /\ InFlightText' \subseteq corpus \union InFlightText
    <3> DEFINE kept == Trimmed(corpus)
               import == IF importFile.usable THEN importFile.mtime ELSE 0
    <3>1. CASE BeginTraining(registry, w, import, kept, Newest(gens))
      <4> HIDE DEF kept, import
      <4>1. corpus' \subseteq kept /\ InFlightText' \subseteq kept \union InFlightText
        <5>1. kept \in SUBSET Commits
          BY <2>1 DEF kept
        <5>2. QED
          BY <1>a, <3>1, <5>1, BeginReads
      <4>2. QED
        BY <2>1, <4>1 DEF kept
    <3>2. CASE corpus' \in {corpus, kept} /\ UNCHANGED trainer
      BY <2>1, <3>2 DEF InFlightText, InFlight
    <3>3. QED
      BY <1>11, <3>1, <3>2 DEF Start
  <2>3. QED
    BY <1>11, <1>a, <1>b, <2>2, ReachFromParts, NothingNewInReach DEF Start
<1>12. CASE CooldownEnds \/ FlipSwitch \/ ChangeImport \/ UNCHANGED vars
  <2>1. UNCHANGED <<corpus, gens, content, trainer, erasedThrough, caught, commits>>
    BY <1>12 DEF CooldownEnds, FlipSwitch, ChangeImport, vars
  <2>2. InReach' \subseteq InReach
    BY <2>1 DEF InReach, OnDisk, InFlight
  <2>3. QED
    BY <1>a, <2>1, <2>2, NothingNewInReach
<1>13. CASE EraseFromSettingsApp
  <2>1. PICK g \in Survivors(gens), p \in Survivors(partial),
             c \in (IF DeletionMayFail THEN {{}, corpus} ELSE {{}}) :
               EraseFiles(c, g, p)
    BY <1>13 DEF EraseFromSettingsApp
  <2>2. g \in SUBSET gens /\ c \in SUBSET corpus
    BY <2>1, SurvivorsFacts
  <2>3. UNCHANGED <<commits, trainer>>
    BY <1>13 DEF EraseFromSettingsApp
  <2>4. QED
    BY <1>a, <2>1, <2>2, <2>3, EraseFilesKeeps
<1>14. CASE ConvertMissingModel \/ Stop
  <2>1. Trimmed(corpus) \subseteq corpus
    BY <1>a, TrimmedFacts DEF TypeOK
  <2>2. QED
    BY <1>3, <1>14, <2>1 DEF ConvertMissingModel, Stop, diskVars
<1>15. QED
  BY <1>1, <1>2, <1>4, <1>5, <1>6, <1>7, <1>8, <1>9, <1>10, <1>11,
     <1>12, <1>13, <1>14
  DEF Next, MainActorStep, TrainingStep

(* After an erase, by the engine or the settings app, no text committed    *)
(* before it comes back into a file, except what a run in flight had read  *)
(* and what could not be deleted.                                          *)
THEOREM ErasedStaysGone == Spec => []ErasedIsGone
<1>1. EraseInv => ErasedIsGone
  BY DEF EraseInv, ErasedIsGone, InReach
<1>2. QED
  BY <1>1, EraseInit, EraseNext, PTL DEF Spec
=============================================================================
