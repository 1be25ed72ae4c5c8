\* Two documents, lists of up to five candidates in pages of two; two
\* applications and up to two engines; words of up to four keystrokes; a
\* dictionary of two entries, written three times; three saves.
SPECIFICATION Spec
CONSTANTS
  Docs = {d1, d2}
  NoDoc = NoDoc
  MaxLeaked = 1
  PageSize = 2
  MaxCount = 5
  Hosts <- MCHosts
  Clients = {Self, Other}
  Self = Self
  Other = Other
  Engines = {e1, e2}
  NoEngine = NoEngine
  IdLimit = 3
  Limits <- MCLimits
  Base = 8
  Ints = 16
  Longs = 256
  Ids = {0, 15}
  Results <- MCResults
  NewerResults <- MCNewerResults
  MaxSize = 2
  Threads = {t1, t2}
  MaxFactories = 2
  FakeCandidateNumber = 2
  MaxAnswer = 3
  MaxEnums = 2
  MaxULong = 15
  WorkAreas <- MCWorkAreas
  Sizes = {1, 3}
  Border = 1
  Coordinates <- MCCoordinates
  Categories <- MCCategories
  Refusals <- MCRefusals
  Strokes = {"a", "n", "y", "t", "s", "x", "u", "q", "'"}
  MaxStrokes = 4
  Words = {w1, w2, w3}
  Broken = Broken
  MaxEntries = 2
  HandWritten <- MCHandWritten
  MaxWrites = 3
  Converted = {r1, r2, r3}
  RecentLimit = 2
  Settings <- MCSettings
  MaxSaves = 3
INVARIANTS
  TypeOK
  ListIsSound
  ListIsTrue
  ModesSettle
  OneServer
  CallsAreAnswered
  WireIsRead
  BufferSpells
  DrawnIsTrue
  ModuleIsHeld
  RegistrationIsWhole
  PlacedBesideText
  ItemsAreFound
  ConversionIsCurrent
  SettingsSettle
PROPERTIES
  LastWishStays
  RequestReplySpec
CHECK_DEADLOCK FALSE
