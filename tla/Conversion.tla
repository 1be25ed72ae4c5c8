----------------------------- MODULE Conversion ------------------------------
(***************************************************************************)
(* What the conversion engine knows besides its models: the words a person *)
(* has registered (UserDictionaryStore.swift), which the settings app      *)
(* keeps in the same file without a lock (DictionaryPage.xaml.cs), and the *)
(* readings whose candidates it has handed out lately                      *)
(* (ConversionService.swift).                                              *)
(*                                                                         *)
(* A word stands for a reading with what it converts to; its part of       *)
(* speech is left out. The engine handles one request at a time, on its    *)
(* main actor, but each of its looks at the file is a step of its own.     *)
(***************************************************************************)
EXTENDS Naturals, Sequences, FiniteSets

CONSTANTS
  Words,          \* words that can be registered
  Broken,         \* a line, or a word, that validate refuses
  MaxEntries,     \* maximumEntries
  HandWritten,    \* files as a person may write them: sequences of lines
  MaxWrites,      \* bound: times the file is written
  Converted,       \* readings that are converted
  RecentLimit     \* recentCandidatesLimit

ASSUME ConversionAssumption ==
  /\ Broken \notin Words /\ HandWritten \subseteq Seq(Words \union {Broken})
  /\ MaxEntries \in Nat \ {0} /\ MaxWrites \in Nat \ {0} /\ RecentLimit \in Nat \ {0}
  /\ Converted # {}

VARIABLES
  dict,      \* userdict.tsv, see DictType
  page,      \* the dictionary's page in the settings app: open, with _entries
  words,     \* the engine's UserDictionaryStore and converter, see WordsType
  recent,    \* recentCandidates: readings, the latest first
  since      \* history: readings converted since each was, itself if never

conversionVars == <<dict, page, words, recent, since>>

NoDate == 0

DictType ==
  [date   : 0..MaxWrites,       \* modification date: no two writes have the same
   lines  : Seq(Words \union {Broken}),
   writes : 1..MaxWrites]        \* writes so far: the date of the last

Slips == {"misread",       \* the file was there and could not be read
          "appeared",      \* the file was not there, and a moment later it was
          "overtaken",     \* the date recorded after a write was another's
          "missed"}        \* a registration reloaded and threw

WordsType ==
  [at      : {"down", "idle", "read", "serve", "note"},
   task    : {"start", "convert", "register"},
   word    : Words \union {Broken},  \* what is registered
   entries : Seq(Words),
   loaded  : 0..MaxWrites,        \* loadedModificationDate
   changed : BOOLEAN,             \* what reloadIfChanged answers
   known   : Seq(Words),          \* what the converter was told last
   began   : 0..MaxWrites,        \* history: date of the file when the task began,
   wrote   : 0..MaxWrites,        \*   of what it wrote,
   lost    : SUBSET Words,        \*   words that its writing took out,
   slips   : SUBSET Slips]        \*   what has gone wrong and still matters

NoService ==
  [at |-> "down", task |-> "start", word |-> Broken, entries |-> <<>>, loaded |-> NoDate,
   changed |-> FALSE, known |-> <<>>, began |-> NoDate, wrote |-> NoDate, lost |-> {},
   slips |-> {}]

-----------------------------------------------------------------------------
(* The file.                                                               *)

\* The elements of q at some of its indices, in their order.
Rank(i, where) == Cardinality({j \in where : j <= i})
Kept(q, where) ==
  [k \in 1..Cardinality(where) |-> q[CHOOSE i \in where : Rank(i, where) = k]]
Without(q, e)  == Kept(q, {i \in DOMAIN q : q[i] # e})
ToSet(q)       == {q[i] : i \in DOMAIN q}

\* parse: lines that cannot be read and repetitions are dropped.
ParseWords(lines) ==
  LET read == {i \in DOMAIN lines : /\ lines[i] # Broken
                                    /\ \A j \in 1..(i - 1) : lines[j] # lines[i]}
  IN Kept(lines, {i \in read : Rank(i, read) <= MaxEntries})

\* adding, and OnAddClicked: a word registered again moves to the end.
Adding(w, entries) == Append(Without(entries, w), w)

\* Both writers replace the file atomically.
WriteWords(lines) ==
  /\ dict.writes < MaxWrites
  /\ dict' = [date |-> dict.writes + 1, lines |-> lines, writes |-> dict.writes + 1]

-----------------------------------------------------------------------------
(* The engine.                                                             *)

\* Mutant: registering trusts what was read last.
BeginTaskUnread(task) ==
  LET s == [words EXCEPT !.task = task, !.began = dict.date]
  IN words' = IF task = "register" \/ dict.date = s.loaded
              THEN [s EXCEPT !.at = "serve", !.changed = FALSE]
              ELSE [s EXCEPT !.at = "read", !.loaded = dict.date]

\* reloadIfChanged, up to its comparison of dates.
BeginTask(task) ==
  LET s == [words EXCEPT !.task = task, !.began = dict.date]
  IN words' = IF dict.date = s.loaded THEN [s EXCEPT !.at = "serve", !.changed = FALSE]
              ELSE [s EXCEPT !.at = "read", !.loaded = dict.date]

StartService ==
  words.at = "down" /\ BeginTask("start") /\ UNCHANGED <<dict, recent, since>>

HandleRequest ==
  /\ words.at = "idle"
  /\ BeginTask("convert") \/ BeginTask("register")
  /\ UNCHANGED <<dict, recent, since>>

\* The rest of reloadIfChanged.
ReadWords(fails) ==
  LET gone == dict.date = NoDate \/ fails
  IN /\ words.at = "read"
     /\ words' = [words EXCEPT
          !.at = "serve",
          !.entries = IF gone THEN <<>> ELSE ParseWords(dict.lines),
          !.changed = ~gone \/ words.entries # <<>>,
          !.slips = (@ \cap {"missed"})
                      \union (IF fails /\ dict.date # NoDate THEN {"misread"} ELSE {})
                      \union (IF words.loaded = NoDate /\ ~gone THEN {"appeared"} ELSE {})]
     /\ UNCHANGED <<dict, recent, since>>

\* The request has been answered: what was its own is gone.
Answered(s) == [s EXCEPT !.at = "idle", !.task = "start", !.word = Broken, !.changed = FALSE,
                     !.began = NoDate, !.wrote = NoDate, !.lost = {}]

\* applyUserDictionary
Applied(s) == [Answered(s) EXCEPT !.known = s.entries, !.slips = @ \ {"missed"}]

ServeStart ==
  /\ words.at = "serve" /\ words.task = "start" /\ words' = Applied(words)
  /\ UNCHANGED <<dict, recent, since>>

FirstRecent(all) == SubSeq(all, 1, IF Len(all) > RecentLimit THEN RecentLimit ELSE Len(all))

\* Mutant: what was remembered for the reading stays.
RememberAgain(r) ==
  recent' = FirstRecent(<<r>> \o recent)

\* remember: of a reading only the latest conversion is kept.
Remember(r) ==
  recent' = FirstRecent(<<r>> \o Without(recent, r))

ServeConvert(r) ==
  /\ words.at = "serve" /\ words.task = "convert"
  /\ words' = IF words.changed THEN Applied(words) ELSE Answered(words)
  /\ Remember(r)
  /\ since' = [o \in Converted |-> IF o = r THEN {} ELSE
                                  IF o \in since[o] THEN since[o] ELSE since[o] \union {r}]
  /\ UNCHANGED dict

\* register throws: what it has reloaded is not handed on.
RefuseWord ==
  words' = [Answered(words) EXCEPT !.slips = @ \union IF words.changed THEN {"missed"} ELSE {}]

\* The word came with the request; nothing looks at it before.
ServeRegister(w, fails) ==
  LET updated == Adding(w, words.entries)
  IN /\ words.at = "serve" /\ words.task = "register"
     /\ IF w = Broken \/ Len(updated) > MaxEntries \/ fails
        THEN RefuseWord /\ UNCHANGED dict
        ELSE /\ WriteWords(updated)
             /\ words' = [words EXCEPT
                  !.at = "note", !.word = w, !.wrote = dict'.date,
                  !.lost = IF dict.date = words.began /\ words.slips \subseteq {"missed"}
                           THEN ToSet(ParseWords(dict.lines)) \ ToSet(updated) ELSE {}]
     /\ UNCHANGED <<recent, since>>

\* write's look at the date, and what follows in register and handle.
NoteDate ==
  /\ words.at = "note"
  /\ words' = Applied([words EXCEPT
       !.entries = Adding(words.word, @), !.loaded = dict.date,
       !.slips = (@ \cap {"missed"}) \union IF dict.date # words.wrote THEN {"overtaken"} ELSE {}])
  /\ UNCHANGED <<dict, recent, since>>

\* It exits when idle, crashes, or is ended.
ExitService ==
  /\ words.at # "down" /\ words' = NoService
  /\ recent' = <<>> /\ since' = [r \in Converted |-> {r}] /\ UNCHANGED dict

EngineWords(readings) ==
  /\ \/ StartService \/ HandleRequest \/ ServeStart \/ NoteDate \/ ExitService
     \/ \E fails \in BOOLEAN :
          ReadWords(fails) \/ \E w \in Words \union {Broken} : ServeRegister(w, fails)
     \/ \E r \in readings : ServeConvert(r)
  /\ UNCHANGED page

-----------------------------------------------------------------------------
(* The settings app, and whoever else finds the file.                      *)

LoadPage == page' = [open |-> TRUE, entries |-> ParseWords(dict.lines)] /\ UNCHANGED dict

OnAddClicked(w) ==
  LET entries == Adding(w, page.entries)
  IN page.open /\ WriteWords(entries) /\ page' = [page EXCEPT !.entries = entries]

OnDeleteClicked(w) ==
  LET entries == Without(page.entries, w)
  IN /\ page.open /\ w \in ToSet(page.entries)
     /\ WriteWords(entries) /\ page' = [page EXCEPT !.entries = entries]

EditByHand ==
  /\ \/ \E lines \in HandWritten : WriteWords(lines)
     \/ dict' = [dict EXCEPT !.date = NoDate, !.lines = <<>>]
  /\ UNCHANGED page

OthersWords ==
  /\ LoadPage \/ EditByHand \/ \E w \in Words : OnAddClicked(w) \/ OnDeleteClicked(w)
  /\ UNCHANGED <<words, recent, since>>

ConversionInit ==
  /\ \/ dict = [date |-> NoDate, lines |-> <<>>, writes |-> 1]
     \/ \E lines \in HandWritten : dict = [date |-> 1, lines |-> lines, writes |-> 1]
  /\ page = [open |-> FALSE, entries |-> <<>>]
  /\ words = NoService /\ recent = <<>> /\ since = [r \in Converted |-> {r}]

NoConversion == UNCHANGED conversionVars

ConversionSpec ==
  ConversionInit /\ [][EngineWords(Converted) \/ OthersWords]_conversionVars

-----------------------------------------------------------------------------
ConversionTypeOK ==
  /\ dict \in DictType /\ words \in WordsType
  /\ page \in [open : BOOLEAN, entries : Seq(Words)]
  /\ recent \in Seq(Converted) /\ since \in [Converted -> SUBSET Converted]

(* When the date says that the file has not changed, the engine's entries  *)
(* are what is in it; and so they are when a registration adds to them.    *)
EntriesAreCurrent ==
  words.at \in {"idle", "serve"} /\ words.loaded = dict.date
    /\ words.slips \subseteq {"missed"} => words.entries = ParseWords(dict.lines)

(* Between requests the converter knows the store's entries, unless a      *)
(* registration has reloaded them and thrown.                              *)
ConverterIsTold ==
  words.at = "idle" /\ "missed" \notin words.slips => words.known = words.entries

(* A registration takes no word out of the file that was in it when the    *)
(* registration began, whoever had written it, and that the engine could   *)
(* read there.                                                             *)
RegisteringKeeps == words.lost = {}

(* A conversion can be matched with its commit as long as fewer others     *)
(* than the cache holds have come in between.                              *)
OffersAreRemembered ==
  \A r \in Converted :
    r \in ToSet(recent) <=> r \notin since[r] /\ Cardinality(since[r]) < RecentLimit

(* The words a conversion draws on are those of the file, and its          *)
(* candidates can still be learned from when one of them is chosen.        *)
ConversionIsCurrent ==
  EntriesAreCurrent /\ ConverterIsTold /\ RegisteringKeeps /\ OffersAreRemembered
=============================================================================
