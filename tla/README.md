# Ohagey: a TLA+ verification project

Ohagey is a Japanese input method for Windows. A TSF text service, loaded into
every application, asks one shared conversion engine per session for candidates
over a named pipe; a settings app edits what the engine reads. This directory
holds TLA+ specifications of that system, the TLC configurations that check them
on small instances, and TLAPS proofs for every value of the constants. Paths
below are relative to the repository.

* [Parts of the system](#parts-of-the-system)
* [What is modelled](#what-is-modelled)
* [What the runs check](#what-the-runs-check)
* [What is proved](#what-is-proved)
* [What is only model-checked, and what is not modelled](#limits)
* [Plan](#plan)

To check: `tlc -workers 2 -config TextService.cfg MCTextService` (and likewise
for each row of the table of runs); `tlapm TextService_proofs.tla`.

## Parts of the system

| Component | Where | State it keeps | Operations | What makes it correct | Modules |
|---|---|---|---|---|---|
| Personal language model | `engine/Sources/OhageyEngine/PersonalLanguageModel.swift`, `ConversionService.swift` | `personal/corpus.txt`, `gen-N/`, `gen-N.partial/`; in memory the published generation, counters, cooldown, deferred run | `prepare`, `record`, refresh of words and import, `startTraining`, `train` (detached), `finishTraining`, `erase` | one run at a time; the model the converter is told to load exists; erased text stays erased; commits reach a run | `PersonalModel` |
| Engine server | `PipeServer.swift`, `PipeConnection.swift`, `IdleWatchdog.swift` | pipe instances, a thread for each, connection count, countdowns | accept, read, route, write, disconnect, expire | every call returns; the count is right; no expiry under a client; an idle engine does exit | `EngineServer`, `RequestReply` |
| Engine client, launch | `tsf/Ohagey/OhageyEngineClient.cpp`, `main.swift` | handle, request id, time of the last launch; which engine owns the pipe's name | connect, launch, exchange, warm-up; claim the name, listen, exit | one engine serves; a call gets its own answer, once | `EngineClient`, `RequestReply` |
| Wire protocol | `tsf/Ohagey/OhageyWire.cpp`, `OhageyEngineProto` | none | write and read frames, envelopes and replies | what one side writes the other reads, or it is refused | `Wire` |
| Text service | `tsf/SampleIME` (derived from Microsoft's sample): `KeyEventSink.cpp`, `KeyHandler.cpp`, `CompositionProcessorEngine.cpp`, `Composition.cpp`, `EndComposition.cpp`, `TextEditSink.cpp` | composition, keystroke buffer, candidate mode, presenter | key tables, key handlers, edit sessions, sinks | no key is lost, doubled or handled on a list or composition that is gone | `KeyRouting`, `TextService`, `Preedit` |
| Romaji to kana | `tsf/Ohagey/RomajiKana.cpp` | the keystroke buffer | push, backspace, finish | keys typed one by one spell the reading | `RomajiKana`, `KanaTyping` |
| Activation and focus | `SampleIME.cpp`, `ThreadMgrEventSink.cpp`, `ThreadFocusSink.cpp`, `CandidateListUIPresenter.cpp`, `TfTextLayoutSink.cpp` | advised sinks, references, the last document, the presenter and its window | `ActivateEx`, `Deactivate`, focus callbacks, UI element calls | nothing held is gone; a list is shown where its document has the focus | `Activation`, `CandidateUI` |
| Candidate list | `CandidateWindow.cpp`, `ScrollBarWindow.cpp`, `CandidateListUIPresenter.cpp` | selection, page starts, scroll position, what was painted | arrows, pages, digits, clicks, paint, the application's UI-less calls | the selection is shown, what is seen is what is taken | `CandidateList` |
| Candidate window | `tsf/Ohagey/CandidateSurface.cpp`, `CandidateRenderer.cpp`, `CandidateWindow.cpp`, `ShadowWindow.cpp`, `BaseWindow.cpp` | device stack, back buffer, renderer, shadow, place | initialise, attach, resize, paint, tear down, move | a failure costs one paint; the window does not cover the text | `CandidateDrawing`, `WindowPlacement` |
| Input modes | `Compartment.cpp`, `LanguageBar.cpp`, `CompositionProcessorEngine.cpp` | three compartments, the conversion mode, three buttons | set-up, callbacks, clicks, preserved keys | all that show a mode agree; callbacks end | `Compartments` |
| COM module | `Server.cpp`, `Register.cpp`, `DllMain.cpp` | reference count, factory, registry entries | `DllGetClassObject`, `CreateInstance`, `LockServer`, register, unregister | the module outlives its users; registration is whole or undone | `ModuleServer`, `Registration` |
| Enumerators | `SearchCandidateProvider.cpp`, `TipCandidateList.cpp`, `EnumTfCandidates.cpp`, `EnumDisplayAttributeInfo.cpp` | a position | next, skip, reset, clone | each item once, in order | `Enumeration` |
| Settings hot reload | `SettingsWatcher.swift`, `RegistrySettings.swift` | what was applied last, an event | register, wait, read, hand over | the settings in force become the last ones written | `SettingsReload` |
| User dictionary, recent conversions | `UserDictionaryStore.swift`, `OhageyEngineCore/UserDictionary.swift`, `DictionaryPage.xaml.cs`, `ConversionService.swift` | `userdict.tsv`, entries, date last read, readings converted lately | reload, register, write; the dictionary's page; remember a conversion | no word is lost, every change reaches the converter | `Conversion` |
| Settings app, backend selection, logs, installer, tools | `settings-app/src`, `BackendLoader.swift`, `EngineLogFile.swift`, `installer/`, `tools/` | registry values, `imported.txt` | switches, import, erase | what it shows as erased is erased | its effects only, in `PersonalModel` |

Interactions. TSF calls the text service on the application's thread: key sinks
decide what a key means, and the handler runs in an edit session TSF may grant
at once or later. Handlers change composition, buffer and candidate list, and
call the engine synchronously through the pipe; the engine's connection threads
hand each request to the main actor and wait. The personal model lives on the
main actor, except for the detached training task, which shares only the file
system with it. The settings app never calls the engine: it writes the registry
(watched) and files (looked at before each conversion), and its erase button
deletes files the engine may be using.

What makes it hard: a key is decided on one state and handled on a later one;
compartment callbacks run inside the writes that cause them; anything Windows is
asked for may be refused, and devices are lost; pipes break at any moment and
several applications launch engines at once; three processes and several threads
share one directory without a lock; decisions are taken on cached claims
(`publishedGeneration`, `corpusLines`, captured settings, what was painted
last). `PROJECT.json` lists each hazard at its line with the property that
covers it or the reason none does.

## What is modelled

### `PersonalModel`: corpus, training runs, generations

Methods of the main actor do not suspend, so each is one action that does all
the method does: `Record` (`commit` and `record`), `Convert`, `ApplyUserDictionary`
(`registerWord`), `UpdateSettings`, `FinishTraining`, `DeferredRunWakes`, `Start`
(`prepare` and the rest of `ConversionService.init`). The helpers they share
(`BeginTraining`, `StartTraining`, `Defer`, `EraseFiles`) are operators with the
names of the methods; their arguments carry what the caller has already changed.

`Convert` composes two helpers of the code. When both the dictionary and the
import have changed, the dictionary's run starts first, on the old import, and
its `isTraining` stops the second; the operands of the action spell that out.

The detached task (`train`) is a sequence of file operations beside the main
actor: `Stage`, `Train`, `ClearDestination`, `MoveIntoPlace`, each with its way to
fail. `EraseFromSettingsApp`, `FlipSwitch` and `ChangeImport` are the settings
app. `Stop` ends the process at any point, losing memory and keeping files;
`ConvertMissingModel` is the exit that loading a missing trie causes.

Data are abstracted as follows. Commits are numbered, so a corpus and the text a
model was trained on are sets of numbers, and trimming keeps the largest ones. A
generation is its number, 0 for nil. The dictionary's words are a model value.
The import is its modification date and whether it validates. Time is one bit,
`cooling`: whether `nextRunNotBefore` lies ahead. Both sleeps end at the same
instant, so `CooldownEnds` also makes the deferred run due; as the cooldown is
nine times the length of the run, a follow-up of `finishTraining` is always
deferred. A finished run deletes the previous directory in one step, as does an
erase: the code between two deletions of one method reads nothing.

History variables record what properties need and no action reads: `erasedThrough`
(commits before the latest erase), `caught` (text an erase could not reach: read
by a run in flight, or in a directory that would not go), `pulled` (generations
deleted from outside between being moved into place and being published, or
while on offer), `lastRun`.

### `EngineServer`: accept loop, connections, idle watchdog, clients

A member of `Instances` is a pipe instance with the thread that serves it; its
stage walks through the source: `listening` (created), `accepted`
(`ConnectNamedPipe` returned), `counted` (`connectionOpened`), `reading`, `routing`,
`writing`, `closing`, `closed` (`disconnect` done, `connectionClosed` not yet), `free`.
The accept loop's position is `accept`. The watchdog has its own variables and one
action per critical section; `expiring` separates the decision taken under the
lock from `onExpiry`, which runs after it. `pending` is the set of deadlines
Dispatch holds: a countdown takes any time, so its length is not modelled and
deadlines may arrive in any order.

A client has one call outstanding, because every method of `EngineClient`
blocks. `Connect` is `CreateFileW` on a listening instance; it succeeds before
the engine knows. `CallFails` drops a broken handle. `Leave` is the application
ending at any point. Requests and replies are one bit per direction: what they
say does not matter here. Creating an instance may fail at any time, which ends
the process (`CreateFails`).

`RequestReply` is what an application may rely on in a call: what it asks is done at
most once, a reply is to what was asked, and a connection that breaks costs the call
under way and no other. Both sides of the pipe implement it, `EngineServer` with one engine's
threads and `EngineClient` (below) with several engines and request ids. An application
is where its pipe and its thread say it is (`CallOf`, `CallStage`).

### `KeyRouting`, `TextService`: from a key to the document

`KeyRouting` is the pure part: `_IsKeyEaten` and `IsVirtualKeyNeed` with the
tables they try in turn. A key stands for all keystrokes these tests cannot tell
apart (a letter, a digit, a mark, an arrow ...), a decision for a
`_KEYSTROKE_STATE` and the `BOOL` beside it. Tables are functions joined by
`++`, which lets the left one win: the first test that matches decides, as in the code.

`TextService` is the stateful part in one document. `ts` is what `CSampleIME`, its
engine and its presenter hold; each handler of `KeyHandler.cpp` is an operator
from `ts` to `ts` under the name it has there, including the handlers it calls, so
one `RunSession` runs one edit session whole. `KeyDown` decides and queues;
`RunSession` takes the first of the queue. A session carries its class
(`CKeyHandlerEditSession` or `CEndCompositionEditSession`), the category and
function that were decided when the key went down, and the number of the key.
Everything the environment chooses in a session (a composition refused, an end
refused, a window that fails, no candidates) is in `Choices`. A null pointer
that would be used sets `fault`: the guard of `FaultContainment` ends the handler
there, and what it had done stays. The application may move the caret, end the
composition, change the profile, destroy the layout, close the keyboard or
deactivate the service between any two sessions.

A spelling key is numbered when it is pressed, and a character goes by the key that
brought it about: a letter, or the kana that came of it and the letters before it.
A text is kana and the letters behind them that are not kana yet, so order, loss,
duplication and the difference between what is shown (`BufferDisplay`), what is read
(`BufferReading`, without the letters, a lone n counted as a kana) and what Enter sends
(the text of the composition, at most `PRECEDING_TEXT_MAX` of it) are visible. Which
letters make which kana is in `RomajiKana`; here a key has any of the effects a key can
have on the letters before it (`Effects`: it goes on, closes a syllable, drops what
spells nothing ...), and `spent` records letters that are no longer shown for themselves.

`Preedit` is what the person typing is promised: a text at the caret that grows,
shrinks, is offered candidates for and settles into a document. `TextService`
implements it in every calm host (`Calm`: only the user acts and nothing is
refused), whatever the number of waiting sessions.

### `Tip`: the processor around the text

`Tip` composes thirteen modules over one thread of an application, as `SampleIME.cpp`,
`ThreadMgrEventSink.cpp` and `CandidateListUIPresenter.cpp` compose the classes:

* `Activation` and `CandidateUI`: `ActivateEx` step by step, each of which may
  fail and undo the ones before; the references the service takes of documents
  and contexts; the presenter, its UI element, layout sink and window, as focus
  moves among documents and threads.
* `CandidateList`: what `CCandidateWindow` holds. Candidates are numbers; `pages`
  is `_PageIndex`. Painting may cut the pages anew, so `seen` records what the
  person, or the application in UI-less mode, has in front of them. A click
  waits in `pick` for its session, which takes what is selected by then: `pick` has the
  candidate that was seen and, once the session has run, the one that was taken, and `moved`
  says that something else moved the selection, or picked, in between. Enter and the application's
  `Finalize` take the selection at once. An application may select any index (`AppSetSelection`).
* `CandidateDrawing`: the stack of six device objects built one on the other, the
  surface attached to a window, the renderer, the shadow. Any call may fail, one
  in a paint; a lost device makes everything built on it fail.
* `Compartments`: `SetValue` notifies before it returns, so the engine's callbacks
  form a stack (`calls`); a frame keeps the conversion mode it read before the
  callbacks inside it ran. TSF refuses writes from inside a notification or
  does not (`refuses`); both are checked.
* `EngineClient`: a client in each application, engines that are launched, claim
  the name of the pipe (`FILE_FLAG_FIRST_PIPE_INSTANCE`), listen, exit idle or
  crash. `Retry`, `WaitNamedPipe` and the launch throttle are steps, as are
  writing, answering and reading. A pipe may break in any stage; `sent` and
  `replies` may outlive the engine that wrote them or not.
* `ModuleServer`: the reference count and the class factory under several
  threads; `DllGetClassObject` is three steps, of which only building is locked.
* `Enumeration`: the two enumerators and the list a search is answered with.
* `Wire`, `KanaTyping`, `WindowPlacement`, `Registration`, `Conversion`,
  `SettingsReload` share no state with the rest and run beside it. `Wire` writes successful replies, also with a
  field of a later engine at any place and depth, cuts them anywhere and reads them as
  the client does; how much a byte of a varint counts (`Base`), how many integers there are
  (`Ints`, `Longs`) and what may be answered are constants, in the run 3 bits for 7, integers of 4
  and 8 bits for 32 and 64, and candidates of short texts; what a call returns of a reply depends on the id of its
  request (`Correlated`), and a reply without an id answers none. `KanaTyping` types into the buffer of `RomajiKana`. `WindowPlacement`
  moves text over two monitors under a window with the border GDI gives it (`Border`) or none. `Registration` lets calls to the
  system fail together, as long as the registration lasts: `Refusals` is any set of sets of them, in the run every one and every two,
  the managers of TSF in any combination (a COM server that is not there fails three calls), and all.
* `Conversion` is the engine's dictionary store, its converter and its cache of recent
  conversions, against a file that the settings app's page and a person with an editor
  write too. A request is one task of the main actor, but each of its looks at the file is a step:
  the date (`BeginTask`), the contents (`ReadWords`), the write (`ServeRegister`) and the
  date after it (`NoteDate`). `slips` names what went wrong in between.
* `SettingsReload` is the registry key, written value by value, and the watcher's
  thread, which reads value by value. Windows tells a registration of one
  change; whether it remembers one that comes between two registrations is not
  documented, so `remembers` is chosen in the initial state. `unseen` says that there was a change
  nobody will be told of.

A module's `...Step` is what happens in it alone; the actions `Tip...` are the calls
that reach several of them: `TipActivate` also sets the modes up and warms the
engine up, `TipEnd` drops the list, `WindowFollows` makes, shows, hides and
destroys the drawn window after whatever step showed or hid it.

### Model-checking modules

`MCPersonalModel` and `MCEngineServer` add symmetry sets; `PersonalModelErase.cfg`
uses the symmetry of training tasks, and the runs with liveness use none.
`MCTextService` and `MCTip` define the applications (`Hosts`) a run lets the
service run in. An application is a constant chosen in the initial state and says
which keys, events and failures occur in it, so that one run covers several
concerns, each with all its interleavings, without the product of all of them.

## What the runs check

| Run | Configuration | Properties |
|---|---|---|
| `personal_erase` | `PersonalModelErase.cfg` | `TypeOK`, `OneRunAtATime`, `RunSparesPublished`, `NamedModelIsThere`, `ErasedIsGone` |
| `personal_learn` | `PersonalModelLearn.cfg` | `CorpusCountInStep`, `NoCommitsStranded`, `CommitsReachARun` |
| `engine_server` | `EngineServer.cfg` | `TypeOK`, `WatchdogIsTrue` (`CountIsConnections`, `IdleIsTimed`), `PipesPair`, `ExpiresOnlyIdle`, `CallsReturn`, `AbandonedEngineExits`, `RequestReplySpec` |
| `text_service` | `TextService.cfg` | `TypeOK`, `ScreenIsTrue`, `LearnedIsRead`, `KeysSurvive`, `ChoosingHasWindow`, `RoutingIsSound`, `OutsideEnds`, `PreeditSpec` |
| `tip` | `Tip.cfg` | `TypeOK`, `ListIsSound` (`NothingDangles`, `ListIsWhereFocused`), `ListIsTrue`, `ModesSettle`, `LastWishStays`, `OneServer`, `CallsAreAnswered`, `WireIsRead`, `DrawnIsTrue`, `ModuleIsHeld`, `RegistrationIsWhole`, `PlacedBesideText`, `ItemsAreFound`, `BufferSpells`, `ConversionIsCurrent`, `SettingsSettle`, `RequestReplySpec` |
| `personal_missing`, `personal_in_flight`, `personal_deferred`, `personal_import`, `engine_exit`, `kana_typed`, `tip_focus` | `PersonalModel{Missing,InFlight,Deferred,Import}.cfg`, `EngineServerExit.cfg`, `KanaTyping.cfg`, `TipFocus.cfg` | one promise of a comment each, which the run refutes |

Bounds.

* `personal_erase` (about 550,000 states) has two commits with a corpus limit of
  two, two starts, one flip of the switch, two word lists, generations 1 and 2,
  and lets every deletion fail. Two generations are enough for a previous and a
  next one; an erase takes the numbering back to 1, so a generation is also
  allocated twice. Two tasks are enough to break exclusion.
* `personal_learn` (about 63,000 states) has four commits with a corpus limit of
  two, so that the corpus is trimmed while it is counted, thresholds 1 and 2, and
  five generations: runs are begun by commits, one import and restarts, so
  `MaxGeneration` is never what stops one and liveness is not cut short by the
  bound. Word changes are unbounded in number, each may begin a run, and
  so the word list is fixed in this run and varied in the other.
* `engine_server` (about 200,000 states) has two clients, three instances and
  three connections in all: one connection ends while another is open, and a
  client connects again after a failed call. Countdowns are numbered by
  `generation`, which connections bound. Both values of `timed` are covered;
  in the shipped default (`IdleTimeoutSeconds` is 0) the watchdog is off.
* `text_service` (about 156,000 states) has four applications: `Deferring` grants
  two sessions late; `Stubborn` runs each session before the next key and will
  not end a composition; in `Wandering` the caret leaves it while sessions wait; in
  `Turmoil` everything may happen and be refused. Three or four spelling keys in the first two, of which
  the second may be an n: enough for a kana with letters behind it, for a letter typed
  over candidates, and one that waits; two in the others. `Deferring` has every effect a key may
  have. `PRECEDING_TEXT_MAX` is 2, so that a text of three is cut.
  Two waiting sessions are enough for a key to be understood in a state that the
  session before it changes. `written` ends an application's keys once its document has that many characters.
* `tip` (about 453,000 states) has two documents; lists of up to five candidates in
  pages of two, so that the last page is short and a page may begin past the
  end; one engine for three calls of an application in which the processor comes and goes,
  two engines for two calls, one engine for two applications with a call each, and request
  ids modulo 3 so that they wrap; two threads and two factories built one after the other;
  two categories to register; two work areas of different height, one further down, with text on, between
  and beyond them and windows of 1 and 3 a side, with a border of 1 or none; modes written while the bar asks, while
  documents come and go, and either of these two without them; up to four keystrokes out of nine (a vowel, letters with rows, the
  letters with a case of their own, one without a rule, the apostrophe); replies of
  up to two candidates, whole or cut at any byte; a dictionary of two entries for three
  words, a hand-written file with a bad line and a repeated one, two writes after the first, so that
  one falls between the other's look and write; a cache of two of three readings; two
  settings and three saves, so that one is written while another is read. References that leak are counted up to one.

`CHECK_DEADLOCK FALSE` is set everywhere: with its bounds used up, or the engine
gone and the applications closed, the system really stops.

Fairness. `PersonalModel!FairSpec` asks that a training task goes on, that the
cooldown passes, and that the main actor runs what is queued on it (`FinishTraining`,
`DeferredRunWakes`): threads and executor of a live process. Nothing is asked of
users, requests, starts or stops. `EngineServer!FairSpec` asks that the accept
loop, each connection thread, Dispatch and the expiry handler are scheduled, and
that a client goes on with the call it is in; no client has to call or to leave,
and pipe creation never has to fail. `TextService!FairSpec` asks only that TSF runs
the sessions it has accepted (`RequestEditSession` with `TF_ES_ASYNCDONTCARE`,
`KeyHandler.cpp:840`): it is weak fairness of the step that takes the first of the queue (`SessionLeaves`). Weak fairness is enough throughout: each of these
steps stays enabled until it is taken or the process ends. `Tip` states safety and
asks nothing.

What the passing runs show beyond the obvious:

* `RunSparesPublished` holds although a generation number is reused after an
  erase: `published` is 0 then, and no second run starts while one is in flight.
* `ErasedIsGone` holds with exactly two exceptions, `caught`; the refuted
  `ErasedTextIsGone` shows that the first exception really happens.
* `NoCommitsStranded` holds with one exception, a failed run: `finishTraining`
  returns before it compares the counter with the threshold.
* `ExpiresOnlyIdle` holds for connections that are counted; `NoExpiryUnderClient`
  is refuted, because a client is connected a little before it is counted.
* `ScreenIsTrue`, `LearnedIsRead` and `PreeditSpec` hold although a key is decided on
  a state that earlier sessions then change; `ScreenIsTrue` but for letters that spell nothing and
  are all that is left on the screen (`StrayOnScreen`). `LearnedIsRead` holds in every
  host, with every refusal: the kana of what is sent are the reading. Text and reading are not the
  same, though (see Learning below). `KeysSurvive` and `ChoosingHasWindow` hold in
  prompt hosts (`Prompt`) - a letter in mid-syllable is lost to a conversion, which `erased` records -, `ScreenIsTrue` and `PreeditSpec` in calm ones.
* `OutsideEnds` holds also when TSF refuses `EndComposition`: the service drops its
  composition all the same.
* `RoutingIsSound` quantifies over every key, width and the disabled keyboard in
  each reachable state; the page keys of the touch keyboard, which are taken and have
  no handler, are excepted (`TouchKeys`).
* `ModesSettle` and `LastWishStays` hold with a TSF that refuses nested writes and
  with one that does not.
* `OneServer` holds unless the name was free while an engine served (`gap`): a client
  that connects and leaves before the accept loop has created the next instance
  leaves none.
* `CallsAreAnswered`: an answer is dropped as another call's only when the request id
  has wrapped to 0, and no call ever gets another's.
* `RequestReplySpec`: an engine that ends, by its watchdog, by a pipe it cannot create or by a
  crash, breaks the calls of every application connected to it in one step, and nothing else does.
* `ListIsSound` holds where focus of documents and of threads move together. While one is elsewhere the other
  may bring a list out where it does not belong, in two ways (`crossed`): the thread loses the focus while
  another document has it, and the list comes back over that one (`ListFollowsFocus`, refuted); the list's
  document gets the focus while the thread has none. An application that shows the list itself (`byApp`) does so anywhere.
* `ListIsTrue`: what is picked on the screen is taken, also by a click that waits, unless the selection is moved before its
  session runs. Two clicks that both wait count as such a move.
* `WireIsRead`: a reply that is cut is refused, or was cut behind everything the
  client knows; and a reply counts only for the request whose id it has.
* `RegistrationIsWhole`: with the exceptions it names, the loop at `Register.cpp:191` among them, which
  does not end on a subkey that is there and cannot be opened.
* `DrawnIsTrue` holds with the exceptions its parts name; each
  exception was seen to happen and is in the list of limits below.
* `ConversionIsCurrent`: whoever writes the file in whatever order, entries under the
  file's date are the file's, a registration takes out no word that was there when it
  began, and a commit finds its conversion unless as many others as the
  cache holds came in between; with the exceptions below.
* `SettingsSettle`: saves, notifications and reads may cross in every way, and a read may
  see half of a save; the settings in force are the registry's once all is quiet.

Comments the code does not live up to (`findings` in `PROJECT.json` quotes them):

1. `PersonalLanguageModel.swift:229-231`: the model named always exists. Erasing from the
   settings app deletes it under a running engine, and the next conversion loads it.
2. `ConversionService.swift:83-85`: switching off removes the data. A run in flight publishes
   a model of the erased text afterwards; it stays on disk until the next erase.
3. `PersonalLanguageModel.swift:484-486`: a deferred run re-checks the switch. It checks a copy
   of the settings taken when it was queued.
4. `PersonalLanguageModel.swift:377-380`: deleting the import reaches the model. It does not
   when noticed during a run, nor when nothing is left to train on.
5. `PipeServer.swift:241-243` and `IdleWatchdogTests.swift:93`: no exit under a connected
   client. There is a window between `CreateFileW` and `connectionOpened`.
6. `RomajiKana.cpp:191` and `kana-selftest.cpp:140`: `sannin` means さんにん. Fed whole it
   does; typed a letter at a time it becomes さんいん, because the buffer settles `nn` as
   ん before it sees the vowel.
7. `ThreadMgrEventSink.cpp:60`: lists are hidden and shown by their document. `OnKillThreadFocus` remembers the
   list's document and not the focused one, and so `OnSetThreadFocus` shows the list over another (`ListFollowsFocus`).

Comments that what is modelled contradicts too, seen while the models were written and without a run that
refutes them; the properties that hold name what they except:

* Startup. `PersonalLanguageModel.swift:435-439`: no training at every start. `registeredWords` starts empty, so
  with a word registered there is one (`ApplyUserDictionary` after `Start`).
* Learning. `KeyHandler.cpp:394`: "reading = surface" of a text committed unconverted. `kak` and Enter teach か
  as the reading of か followed by k; `LearnedIsRead` says what does hold.
* Screen. `CompositionProcessorEngine.cpp:274-277`: one character of the buffer is one on screen. Letters that
  spell nothing (`kq`) leave the buffer, and when nothing is left of it the screen keeps them, out of
  the reach of Backspace (`StrayOnScreen`).
* Faults. `CandidateListUIPresenter.cpp:231`: the SEH net is a last resort. A letter typed over a conversion
  ends the list and keeps the presenter (`KeyHandler.cpp:67`), whose null `_pCandidateWnd` `_ClearList` then uses: in the
  plainest of hosts, with a letter, Space and a letter, only the net catches it (`Fault` in `TextService`).
  `ScreenIsTrue` and `KeysSurvive` hold with it.
* Placement. `BaseWindow.cpp:404-405`: a window with no room is docked to the top of the work area. It is docked to 0,
  which on a monitor further down is above it and may be off every monitor; `PlacedOnMonitor` excepts text
  over the left or the top of a monitor that does not begin at 0.

What else the models show of the code, where no comment promises otherwise:

* Text. A caret that leaves while a list is open lets the list outlive the
  composition. After a refused start or a late session the buffer may be of a
  reading no longer shown (`EndComposition.cpp:59`); a letter is lost when Enter and a
  letter wait together; punctuation typed while choosing may delete the kana
  (`KeyHandler.cpp:775`). These are the hosts `Calm` and `Prompt` leave out.
* Lists. A digit past the last row selects outside the list
  (`CandidateWindow.cpp:1047`); a page past the end exists after some cuts (`:1412`); an
  application that draws the list itself is told of the selection and not of the page
  (`CandidateListUIPresenter.cpp:956`). `Stray` names the first.
* Drawing. An attach that fails in a paint is never retried although
  `CandidateWindow.cpp:156-157` counts on it; a device lost in `Resize`, or while no back
  buffer is bound, is never torn down; a renderer that is unavailable stays so.
* Placement. A window wider than the work area may cover its text, as may one for which there is
  room neither below nor above. Text over the left or upper edge docks the window to 0, not to the edge
  of the work area (`BaseWindow.cpp:391`, `:408`). The window GDI draws has a border that placing it does
  not count (`CandidateWindow.cpp:119`): it is larger by that width on each side, and may reach over the text or the edge by it.
* Module. Between the decrement and the lock of the last release another thread may
  take the factory that is about to be freed (`raced`); a registration that
  fails takes out what an earlier one had entered; the result of registering the categories
  is that of the last one.
* Modes. `Deactivate` clears the width compartment twice and punctuation never
  (`SampleIME.cpp:330`).
* References. `OnKillThreadFocus` keeps a reference to a document manager (counted
  in `refs` up to `MaxLeaked`).

* Dictionary. A file that cannot be read counts as empty under its own date
  (`UserDictionaryStore.swift:68-75`), and the next registration writes it without its
  words. A registration that finds the file changed and then throws has
  recorded its date, so the converter is not told, although "it cannot miss a
  change" (`ConversionService.swift:132`). The date recorded after a write may be that of
  a later one (`:146`), which is then not read; a file made between the look at its
  date and the read is read under no date, and deleting it is then not noticed. A write
  by one side between the other's read and write is lost, the page's entries
  being as old as the page. The page has no limit, and what is past
  `maximumEntries` goes with the engine's next registration.
* Settings. A change between the load at startup and the first registration is not seen
  until the next. Between two registrations only Windows can save it: the event is
  reset and the registration renewed after the read, although
  `SettingsWatcher.swift:69-72` says it is registered before.

## What is proved

TLAPS proves, for every value of the constants that satisfies the named
assumptions (`ConstantsAssumption`, `ServerAssumption`, `TextServiceAssumption`,
`EngineClientAssumption`, `LimitsAssumption`, `ModuleAssumption`, `RegistrationAssumption`,
`EnumerationAssumption`, `ActivationAssumption`, `CandidateListAssumption`,
`DrawingAssumption`, `PlacementAssumption`, `ConversionAssumption`, `SettingsAssumption`,
`WidthsAssumption`, `RepliesAssumption`, `KanaAssumption`, `TipAssumption`):

| Theorem | States | Module |
|---|---|---|
| `TypeCorrect` | `Spec => []TypeOK` | `PersonalModel_proofs` |
| `RunsExclude` | `Spec => []OneRunAtATime` | `PersonalModel_proofs` |
| `PublishedIsSpared` | `Spec => []RunSparesPublished` | `PersonalModel_proofs` |
| `OfferedModelIsThere` | `Spec => []NamedModelIsThere` | `PersonalModel_proofs` |
| `ErasedStaysGone` | `Spec => []ErasedIsGone` | `PersonalModel_proofs` |
| `CountInStep` | `Spec => []CorpusCountInStep`, when only the engine erases and deletions succeed | `PersonalModel_proofs` |
| `NothingStranded` | `Spec => []NoCommitsStranded` | `PersonalModel_proofs` |
| `ServerTypes` | `Spec => []TypeOK` | `EngineServer_proofs` |
| `CountIsRight` | `Spec => []CountIsConnections` | `EngineServer_proofs` |
| `IdleEngineIsTimed` | `Spec => []IdleIsTimed` | `EngineServer_proofs` |
| `WatchdogIsRight` | `Spec => []WatchdogIsTrue` | `EngineServer_proofs` |
| `ExpiryNeedsIdleness` | `Spec => ExpiresOnlyIdle` | `EngineServer_proofs` |
| `PipesArePaired` | `Spec => []PipesPair` | `EngineServer_proofs` |
| `ImplementsRequestReply` | `Spec => RequestReplySpec` | `EngineServer_proofs` |
| `RoutingIsSoundHolds` | `Spec => []RoutingIsSound` | `TextService_proofs` |
| `LearnedIsReadHolds` | `Spec => []LearnedIsRead` | `TextService_proofs` |
| `ScreenIsTrueHolds` | `Spec => []ScreenIsTrue` | `TextService_proofs` |
| `ChoosingHasWindowHolds` | `Spec => []ChoosingHasWindow` | `TextService_proofs` |
| `KeysSurviveHolds` | `Spec => []KeysSurvive` | `TextService_proofs` |
| `TypeOKHolds` | `Spec => []TypeOK` | `TextService_proofs` |
| `ImplementsPreedit` | `Spec => PreeditSpec` | `TextService_proofs` |
| `CallsAreAnsweredHolds` | `EngineSpec => []CallsAreAnswered` | `Shared_proofs` |
| `OneServerHolds` | `EngineSpec => []OneServer` | `Shared_proofs` |
| `ImplementsRequestReply` | `EngineSpec => RequestReplySpec` | `Shared_proofs` |
| `EnginesAreTyped` | `EngineSpec => []EngineTypeOK` | `Shared_proofs` |
| `ModuleIsHeldHolds`, `ModuleIsTyped` | `ModuleSpec => []ModuleIsHeld`, `ModuleSpec => []ModuleTypeOK` | `Shared_proofs` |
| `ModesSettleHolds`, `LastWishStaysHolds`, `ModesAreTyped` | `ModeSpec => []ModesSettle`, `ModeSpec => LastWishStays`, `ModeSpec => []ModeTypeOK` | `Shared_proofs` |
| `NothingDanglesHolds`, `ListComesBackHolds` | `UISpec => []NothingDangles`, `UISpec => [](NoSecondWindow /\ ListComesBack)` | `Candidates_proofs` |
| `ListIsTrueHolds`, `ListIsTyped` | `ListSpec => []ListIsTrue`, `ListSpec => []ListTypeOK` | `Candidates_proofs` |
| `ConversionIsCurrentHolds` | `ConversionSpec => []ConversionIsCurrent` | `Shared_proofs` |
| `SettingsSettleHolds` | `SettingsSpec => []SettingsSettle` | `Tip_proofs` |
| `EngineIsPart`, `ModuleIsPart`, `ModeIsPart` | `Spec => EngineSpec`, `Spec => ModuleSpec`, `Spec => ModeSpec` | `Tip_proofs` |
| `TipCallsAreAnswered`, `TipHasOneServer`, `TipRequestReply`, `TipModuleIsHeld`, `TipSettingsSettle`, `TipConversionIsCurrent`, `TipModesSettle`, `TipLastWishStays` | the properties of these parts, of `Tip!Spec` | `Tip_proofs` |
| `TipNothingDangles`, `TipListIsWhereFocused`, `TipListIsSound` | `Spec => []NothingDangles`, `Spec => []ListIsWhereFocused`, `Spec => []ListIsSound` | `Tip_proofs` |
| `TipListIsTrue` | `Spec => []ListIsTrue` | `Tip_proofs` |
| `TipDrawnIsTrue` | `Spec => []DrawnIsTrue` | `Tip_proofs` |
| `TipPlacedBesideText` | `Spec => []PlacedBesideText` | `Tip_proofs` |
| `TipRegistrationIsWhole` | `Spec => []RegistrationIsWhole` | `Tip_proofs` |
| `TipItemsAreFound` | `Spec => []ItemsAreFound` | `Tip_proofs` |
| `TipWireIsRead` | `Spec => []WireIsRead` | `Tip_proofs`, from the lemmas of `Wire_proofs` |
| `BufferSpellsHolds`, `TipBufferSpells` | `KanaSpec => []BufferSpells`, `Spec => []BufferSpells` | `Kana_proofs`, `Tip_proofs` |
| `TipIsTyped` | `Spec => []TypeOK` | `Tip_proofs` |

The arguments:

* `ModelInv` is the inductive invariant for the runs. `NamedModelIsThere` is not
  inductive alone: `FinishTraining` publishes a generation, so one has to know
  that a task in stage `moved` still finds its directory (`MovedIsThere`), that
  the previous one, which the step deletes, is another (`RunSparesPublished`), that
  no other task is moving (`OneRunAtATime`), and that a process which is down
  holds nothing (`NothingWhenDown`). A beginning run is summed up once, in
  `RunsBegin`, and used by the six actions that may begin one.
* `EraseInv` bounds everything the engine can still bring into a file
  (`InReach`: the disk and what runs in flight have read) rather than the disk
  alone; the disk alone is not inductive, as `MoveIntoPlace` adds to it. Each
  step either brings nothing new into reach, adds a commit later than
  `erasedThrough`, or is an erase, after which what is in reach is what `caught`
  records.
* `CorpusInv` adds that the corpus holds only commits already made, so an append
  adds a line that was not there. `CountInStep` assumes that `SettingsAppErases` and
  `DeletionMayFail` are FALSE, as in `personal_learn`: the settings app deletes
  the corpus without telling the engine, and a deletion that fails leaves the lines
  whose count `erase` has zeroed.
* `StrandedInv` adds that nothing is counted while personalisation is off or the
  engine is down, and that every run queued or in flight was asked for while it was
  on, so that the run `FinishTraining` queues for commits left over is not one whose
  captured settings make it give up when it wakes.
* `CountInv` follows the threads through `connectionOpened` and `connectionClosed`; a
  counted thread makes the count positive, so the clamp never applies.
* `ClockInv` adds that `generation` is beyond `idleSince` once a countdown is
  armed, from which `ExpiresOnlyIdle` follows for the step that expires.
* `ReplyInv` of the server says that what lies in an application's pipe is told by where its call is:
  nothing before it is sent, one request or one reply but never both after, and that a thread which
  closes without having answered has nothing more to say. So each step of a thread is a step of one call, and
  an engine's end is one `Break` of all.
* A key's decision is read off the tables: `Decided` says what each table makes of a key in
  the modes the service uses (`UsedModes`), and `DecisionIs` that `IsKeyEaten` and
  `IsVirtualKeyNeed` decide so. That a key that is taken has a handler, and that its
  release is decided as its press was, then follows in every situation a state
  can be in (`UsedSituations`).
* The types of the text service come first: `TInv` is `TypeOK` with what makes it inductive, that a session
  that spells has the number of a key (`SpelledIds`). A handler's type lemma assumes nothing of what it
  runs on but its type.
* `Good` holds of `ts` between sessions and is kept by every handler
  (`SessionGood`), whatever it is run on and whatever is granted. Inside a handler the
  buffer is ahead of the composition or behind it, so only `Loose` holds there: the kana of the
  text, the list and what the buffer reads are one reading as far as they are there, and what was sent
  last is read right (`Reads`). That what Enter sends has the reading for its kana is then about `Fetched`, the
  first `PRECEDING_TEXT_MAX` of a text. `ScreenIsTrue` is not inductive alone: a session may
  find a composition with an empty buffer, whose letters spell nothing (`Stray`), and what was learned
  is compared with the buffer and not with the screen. `Waiting`, in `IInv`, adds that no session that ends the
  composition waits in a calm or prompt host (`Orderly`): only a caret that wanders asks for one.
* `RInv` adds to it that what is written, then what waits, then what is yet to be
  typed is an increasing sequence of keys (`Ordered`). For each handler a lemma says
  which step of `Preedit` it is, by the texts before and after it (`Handled`; `Spelled` for a key that spells,
  whatever its effect): a key that arrives late may be typed where it arrives, because
  everything in the document and the composition came before it.
* `PInv` adds to `RInv` that in a prompt host no more than one session waits, and that the
  service is as it was when its key was decided (`Attended`). A session that is `Careful`, one
  that runs what was decided for what it finds, drops only a text the user cancels and the letters
  a conversion leaves out, so that every key is in the queue, the composition, the document or in `spent`, or
  has been taken back (`KeysSurvive`).
* `Sound` says of one client what its pipe holds at each place of a call: nothing
  outside `Exchange`, its own request or the answer to it while it reads. It keeps itself
  whatever the other clients and the engines do, because a step of an engine touches a pipe
  only by serving what is in it. `NameInv` is that two engines serve only after a `gap`: a second
  claims the name when there is none, and as long as there was no gap there is none
  only while nobody serves. `ReplyInv` of the client adds that a request that was written is in a pipe with an
  engine at its other end (`Held`), which with `Sound` makes each step of an exchange one of `RequestReply`.
* `CountInv` ties `dllRefCount` to the number of references the threads hold, the
  set `Held`, by its cardinality. `BuildInv` says that the factories built and not
  freed are the one in `classFactoryObjects`. `AloneInv` says that whoever is on the way to
  free the factory holds it against nobody, as long as no `DllGetClassObject` was under way
  at the last release (`raced`).
* `StackInv` gives the stack of callbacks one shape (`Stacked`): at the bottom the callback of
  the conversion mode, or on the callback of the one mode written from outside; on this
  `Root` the callback of a mode it has set, on that perhaps one more of the conversion mode and one of
  the keyboard. What the root has read is what everything settles to (`Settling`), but for the
  punctuation, which a callback of the width may write from a flag that the root is about to set;
  and it is what was asked for (`WishInSight`). The bottom of the stack also bounds it, whatever the number of writes.
* `UIInv` says when there is a presenter (`Activated`), that its window and layout sink
  belong to its document (`Windowed`), and that the document is remembered while its
  thread has no focus (`Remembered`), without which the list would not come back.
  `NothingDangles` counts references, and needs no more than that each pointer counts for one.
  `InPlace` is what `ListIsWhereFocused` needs: that a visible list is where both focuses are, and that what a
  thread without the focus remembers, if it is the list's document, is the one with the focus - both unless the focuses have `crossed`.
* `ListInv` says that whatever has cut the pages - a conversion, a move, a scroll, a paint, the
  application -, they begin with the list, ascend in steps no longer than a page and reach its end
  (`WellPaged`). So exactly one page contains the selection (`CurrentPageIs`, `OneIsCurrent`; that the
  last page not beyond the selection exists is `Greatest`, from the well-foundedness of inclusion).
  That a digit past the end of the list leaves the page where it was needs that all pages but the
  first are full where the service draws the list (`Full`), and that only such a list has a timer. A move
  either changes nothing or is followed by a paint or told to the application (`Announced`). Of a
  click that waits, the row that was seen is what is selected, unless that was moved (`TruePick`).
* `WholeDrawing` says that a stack of devices is there whole or not at all and shows
  what is drawn (`StackSound`), and that a paint that misses has an excuse or releases the device that
  was lost, so that the next builds another. It holds in `Tip` because the window follows
  what the list's presenter shows.
* `PlacedBesideText` has no state but the last move: it follows from arithmetic on
  rectangles. The proof needed a condition TLC had not met: a window wider than the work area
  may cover its text. A border adds its width to where the client area would go.
* `Stuck` is what a registration leaves because its removal failed, whatever was there before; each set of
  failing calls is taken as it is, so that `Refusals` may be any.
  `EnumInv` numbers a list's items and says that an enumerator has been through those before its
  place, each once.
* `SettingsInv` follows a value through the watcher: what was read is in the registry
  (`ReadIsTrue`), then what was handed over is (`AppliedIsTrue`), unless a change has come that is
  remembered, signalled or lost; and what was handed over is in force or last in the queue
  (`QueueEndsApplied`). `SettingsSettle` alone says nothing of a step before the watcher waits.
* What `Conversion` keeps of a sequence (`Kept`) is taken at the indices of a set in their order, so
  that no recursion is needed: ranks in a finite set are a strictly increasing bijection (`RankCounts`,
  `RankReaches`), from which follow what is left, that nothing is in it twice, and what came before it
  (`WithoutIs`, `WithoutKeepsOrder`), and that a file the engine wrote is read as it was written
  (`ParseKeepsAll`).
* `WordsInv` says what an engine knows at each of its looks at the file: a task has recorded the date
  it began with (`BeganRead`), what it is about to take over is what it wrote (`NoteIsWritten`), without a date
  it has read nothing (`NothingRead`), and what the converter was not told is still marked as
  changed (`OwesConverter`). `EntriesAreCurrent` alone does not survive a file that is deleted under the engine.
  `RecentInv` says that the cache is in the order of conversion, so that what came since a
  reading is what stands before it; `OffersAreRemembered` alone does not say which one is dropped.
* `WireIsRead` is about recursive functions over bytes, of which a definition says nothing until
  one is known to exist. `Recursion` proves that, by a fixpoint over sets, for every function that calls itself
  on something smaller; a varint, a message and `FlattenSeq` are instances (`SeptetsAre`,
  `FieldsAre`, `ConcatIs`). What is written is then followed through: a varint, a field, any number of
  fields (`Bears`: what is read from these bytes before whatever follows, and at most a first part of it
  from a part of them), a candidate, a reply, with one field of a later engine anywhere among them (`WithBears`,
  `AlienIsPassed`). A reply that was cut bears the first of its fields, so it has its body whole,
  and is read as it was meant, or has none, and is bad (`PartOfOne`, `ReplyIsRead`). With `Base = 128`,
  `Ints = 2^32`, `Longs = 2^64` this is the code's own format, for texts and lists of any length whose message is
  shorter than 2^64 bytes.
* Each action of `Tip` is a step of `EngineClient`, or leaves it alone, and the same of
  `ModuleServer`, `Conversion`, `SettingsReload` and `Compartments`; so `Tip!Spec` implies their specifications, and what
  is proved of them holds in the composition. Window, list and drawing have steps in `Tip`
  that they do not have alone (a list that is taken from ends its window), so there each step of
  `Tip` is shown to keep their invariants.

* `TipIsTyped` puts the types of all parts together, and each comes from the part's own invariant
  with what bounds its numbers. `Sized` says of the list what `ListInv` does not: the page shown begins
  in it, and a digit may select past its end, but by no more than a page, or be named by the application, whatever it is; that needs to know where the
  next page may begin (`InReach`). `Fielded` bounds what a client counts, and that no
  count of references is negative is what `NothingDangles` counts. A keystroke makes the buffer longer by at most
  one and Backspace shorter by one (`KeystrokeAdds`, `BackspaceTakes`), because no rule makes more kana
  than it uses letters (`RulesShrink`, for each family of the table) and so neither does
  a conversion (`RebuildShrinks`, by induction over the word).
* `BufferSpells` compares a function that reads a word from its front with a buffer that is settled from its
  back. A syllable that is settled stays so with one keystroke more (`SyllableStays`), because no
  rule goes on after another (`NoneGoesOn`, read off the families of the table), but for nn before a vowel or y
  and a doubled letter of no rule (`Odd`). So converting a word is converting the end
  that was in mid-syllable, with the kana before it (`RebuildJoins`, by induction over words, of which `WordInduction` is
  a statement about sets and not about operators). `SpellInv` keeps that the buffer's letters are in mid-syllable
  (`Pends`) and that the buffer, until something is taken back, is the conversion of what was typed; that Backspace takes
  one character needs that what is left of such letters still is in mid-syllable (`BackspacePends`).

## <a name="limits"></a>What is only model-checked, and what is not modelled

Liveness (`CommitsReachARun`, `CallsReturn`, `AbandonedEngineExits`, `OutsideEnds`)
is beyond TLAPS as it is used here and stays with TLC. Every safety property of a passing run is proved,
`CorpusCountInStep` under the condition stated with `CountInStep`.

Simplifications.

* `PersonalModel`, `EngineServer`: one engine process at a time; the words and the
  settings reach the personal model as inputs, whatever path they took; reading
  and appending to the corpus succeed; the file systems' caches, permissions and
  full disks are left out except for deletions that fail and training steps that
  fail; a task that starts in the conversion that ends the process takes no step.
* `TextService`: one document; marks and characters the application inserts itself are
  not texts; `TextService` and `Tip` are not composed: `Tip` has the window's life
  without the text, `TextService` the text with a window that exists or not. Of TSF it is
  assumed that a session asked for inside a session runs at once.
* `EngineClient`: the watchdog is an exit that happens when nobody is connected; what a
  second engine does to the data directory before it finds the name taken is left
  out. A read never times out, as in the code.
* `Wire`: UTF-16 conversion is Windows'; the engine's encoder is taken as one that
  writes its fields in order; the parser of `Ping`'s answer is left out.
* `CandidateDrawing`: which call fails and not what is painted; themes, fonts, colours
  and text layout are left out.
* `Activation`: a document manager has one context. `Enumeration`: a text is known by its
  place.
* `Registration`: an entry is there or not; its values are left out.
* `Conversion`: a word is a reading with what it converts to, and contains no tab or line
  break (`sanitize` then changes nothing); no two writes of the file have the same
  modification date; the settings app's writes and reads succeed.
* `SettingsReload`: settings are booleans, all in the registry; one page writes at a
  time; tasks reach the main actor in the order in which the watcher's thread creates them.

Not modelled:

* inference backend selection: a sequence of library loads at startup, a
  pure decision with no later state;
* logs: diagnostic output;
* pages of the settings app, its launcher, installer, build scripts, command-line
  tools: user interface or offline tools; their effects on shared files are
  actions of `PersonalModel`;
* generated code (`ohagey.pb.swift`) and the converter itself, which is outside
  the repository.

## Plan

Done: `PersonalModel`, `EngineServer`, their proofs of safety; the text service
with its abstract specification, its safety and the refinement proved; the
processor around it and its composition `Tip`, with the wire and the typing of kana; all safety of it proved.

Next, in this order:

1. The data-directory side of the engine's lifecycle: a second engine's `prepare` on the
   live directory. Composes `EngineClient` with starts of `PersonalModel`.
2. `Framing`: the engine's frame decoder over arbitrary splits of a byte stream.
3. An abstract specification `LearningStore` (commits are pending, learned or erased)
   implemented by `PersonalModel`.
