SPECIFICATION DesktopSpec
CONSTANTS
  Parts = {"lookup", "selection", "rows", "plan", "calculator", "catalog", "search", "apps", "windows", "wayland", "system", "popup", "shell", "limits", "hotkeys", "config", "routing", "install", "exit", "socket", "loop", "timers"}
  Queries = {"paths", "windows"}
  Foreign = {"keyword"}
  Home = "home"
  Keyed = {"path"}
  Shared = {"marks"}
  Windows = "windows"
  Wants <- TheWants
  Nothing = Nothing
  RowIds = {1, 2}
  Looks = {"header", "x", "y"}
  NoId = NoId
  Painted <- TheLists
  Typed = {"q", "r"}
  Deltas <- TheDeltas
  MaxRows = 3
  Plans <- ThePlans
  MaxSessionChanges = 1
  MaxWords = 2
  Tokens = {"2", "e", "pi", "f", "-", "*", "^", "!", "%", "(", ")"}
  MaxTokens = 4
  AllowBare = FALSE
  AppDirs <- TheDirs
  EntryIds = {"x"}
  MaxWrites = 3
  firefox = firefox
  esr = esr
  gimp = gimp
  Apps <- TheApps
  BaseName <- TheBaseName
  Variants <- TheVariants
  EntryOf <- TheEntryOf
  UsageTables <- TheUsage
  MaxLaunches = 6
  editor = editor
  text = text
  files = files
  music = music
  control = control
  Catalog <- TheCatalog
  Sessions = {"x11", "sway"}
  MaxWindows = 2
  NoOne = NoOne
  Desktops = {"x11", "wmctrl", "i3", "gnome", "hypr", "sway", "niri", "kwin", "qtile", "wlr", "lswt"}
  Screens <- TheScreens
  A11y = FALSE
  Introspects = {"none", "bare", "full"}
  Numbered <- TheNumbers
  Protocols = {"toplevels", "workspaces"}
  Schemes = {"coords", "numbers", "plain"}
  MaxItems = 3
  MaxDisplayChanges = 1
  OfferedActions = {"shutdown", "lock-orientation"}
  MaxTurns = 1
  MaxSettings = 2
  MaxEvents = 3
  QuitDelay = 2
  Today = 2
  LastSecond = 5
  MaxEntries = 2
  Accels = {"ctrl", "super", "meta", "other"}
  NoAccel = NoAccel
  FallbackAccels <- TheFallbacks
  HotkeyDesktops = {"GNOME", "XFCE", "PLASMA", "PORTAL"}
  MaxHotkeyChanges = 4
  MaxHotkeyFaults = 1
  Holders = {"app", "cli"}
  Keys = {"named", "listed"}
  Values = {0, 1}
  Default <- TheDefault
  Empty = 0
  Unloaded = Unloaded
  MaxSaves = 3
  ShortcutIds <- TheShortcuts
  ExtensionIds <- TheExtensions
  Keywords = {"k", "l"}
  NoKeyword = "none"
  MaxEdits = 1
  Commits = {1, 2}
  MaxInstalls = 3
  MaxFaults = 1
  Partial = Partial
  Chatty = {{"stdout", "stderr"}, {"socket"}}
  Errors = {"plain", "module"}
  MaxMessages = 3
  MaxPieces = 2
  Threads = {"t1", "t2"}
  Main = "main"
  Delays = {0, 1}
  MaxClock = 1
  MaxCalls = 2
  Contexts = {"once", "often"}
  Intervals = {"often"}
  MainThread = "qt"
  Workers = {"worker"}
  MaxRuns = 2
  None = None
  Clis = {"c", "d"}
  NoCli = NoCli
  MaxWritten = 1
INVARIANTS SelectionKept QueryKept ReadAsWritten EntriesFresh BestFirst SessionFaithful PopupYields LimitExact
  ShownHotkeyWorks DirectoriesKept FramesKept CallsServed
PROPERTIES PaintsEntry ActsAsShown AppRowsAct RowsOfWindows RotationAsTitled SaveChangesOneKey KeywordsRoute
  CallsAllowed
CHECK_DEADLOCK FALSE
