------------------------------ MODULE AppShell ------------------------------
(* When the application's windows open and close, and when the process ends:   *)
(* without a background service it quits a while after its last window closed, *)
(* late enough for a clipboard manager to fetch what was copied.               *)
EXTENDS Naturals, FiniteSets

CONSTANT QuitDelay   \* ticks of the quit timer; a clipboard manager needs no longer
ASSUME ShellAssumption == QuitDelay \in Nat \ {0}

VARIABLES popup,       \* _launcher_window.visible
          prefs,       \* _preferences_window.visible
          built,       \* a window was created
          persistent,  \* _persistent
          quitTimers,  \* ticks left of the quit timers that run
          unsaved,     \* ticks until the clipboard manager has the last copy
          deaf,        \* the window manager closed the popup: request_close did not run
          blocked,     \* the session is locked, a greeter, or out of time
          process      \* "running", or who made it exit
shellVars == <<popup, prefs, built, persistent, quitTimers, unsaved, deaf, blocked, process>>

ShellTypeOK ==
    /\ {popup, prefs, built, persistent, deaf, blocked} \subseteq BOOLEAN
    /\ quitTimers \subseteq 0..QuitDelay /\ unsaved \in 0..QuitDelay
    /\ process \in {"running", "asked", "timer"}

\* The process starts hidden (start) or is asked for its window right away (show).
ShellInit ==
    /\ popup = FALSE /\ prefs = FALSE /\ built = FALSE /\ deaf = FALSE
    /\ persistent \in BOOLEAN /\ blocked \in BOOLEAN
    /\ quitTimers = {} /\ unsaved = 0 /\ process = "running"

-----------------------------------------------------------------------------
WindowsOpen == popup' \/ prefs'

\* Mutant: the timer that runs is not cancelled.
QuitLaterToo == quitTimers' = IF persistent' \/ WindowsOpen THEN quitTimers ELSE quitTimers \union {QuitDelay}
\* _maybe_quit_later: one timer at a time, counted from the last reason to quit.
MaybeQuitLater ==
    quitTimers' = IF persistent' \/ WindowsOpen THEN quitTimers ELSE {QuitDelay}
CancelQuitTimer == quitTimers' = {}

RequestClose ==
    /\ popup' = FALSE /\ deaf' = FALSE
    /\ UNCHANGED <<prefs, built, persistent, blocked>> /\ MaybeQuitLater
ShowLauncher ==
    IF blocked THEN RequestClose
    ELSE /\ popup' = TRUE /\ built' = TRUE /\ deaf' = FALSE /\ CancelQuitTimer
         /\ UNCHANGED <<prefs, persistent, blocked>>

\* Every action of a live process; the clipboard is touched by CopyAndClose only.
Running(action) == process = "running" /\ action /\ process' = process
Quietly(action) == Running(action) /\ UNCHANGED unsaved

Show == Quietly(ShowLauncher)
Close == Quietly(RequestClose)
ToggleWindow == Quietly(IF popup THEN RequestClose ELSE ShowLauncher)
CopyAndClose == Running(RequestClose) /\ unsaved' = QuitDelay

ShowPreferences == Quietly(
    /\ CancelQuitTimer
    /\ popup' = FALSE /\ prefs' = TRUE /\ built' = TRUE /\ deaf' = FALSE
    /\ UNCHANGED <<persistent, blocked>>)
PreferencesClosed == Quietly(
    /\ prefs /\ prefs' = FALSE
    /\ UNCHANGED <<popup, built, persistent, deaf, blocked>> /\ MaybeQuitLater)
ToggleHold(value) == Quietly(
    /\ value # persistent /\ persistent' = value
    /\ UNCHANGED <<popup, prefs, built, deaf, blocked>> /\ MaybeQuitLater)

\* The popup's window has no handler for a close request of the window manager.
ClosedByWindowManager == Quietly(
    /\ popup /\ popup' = FALSE /\ deaf' = TRUE
    /\ UNCHANGED <<prefs, built, persistent, quitTimers, blocked>>)

SessionChanges == Quietly(
    /\ blocked' = ~blocked /\ UNCHANGED <<popup, prefs, built, persistent, quitTimers, deaf>>)
\* SessionWatcher: a signal of the session closes the popup.
SessionSignal == popup /\ blocked /\ Close

\* A timer that is due fires before time goes on.
Tick ==
    /\ process = "running" /\ 0 \notin quitTimers
    /\ quitTimers' = {t - 1 : t \in quitTimers}
    /\ unsaved' = IF unsaved = 0 THEN 0 ELSE unsaved - 1
    /\ UNCHANGED <<popup, prefs, built, persistent, deaf, blocked, process>>

QuitIfStillIdle ==
    /\ process = "running" /\ 0 \in quitTimers
    /\ process' = IF popup \/ prefs \/ persistent THEN process ELSE "timer"
    /\ quitTimers' = quitTimers \ {0}
    /\ UNCHANGED <<popup, prefs, built, persistent, unsaved, deaf, blocked>>
\* SIGTERM, or Exit in the tray.
Quit ==
    /\ process = "running" /\ process' = "asked"
    /\ UNCHANGED <<popup, prefs, built, persistent, quitTimers, unsaved, deaf, blocked>>

ShellNext ==
    \/ Show \/ Close \/ ToggleWindow \/ CopyAndClose
    \/ ShowPreferences \/ PreferencesClosed \/ (\E value \in BOOLEAN : ToggleHold(value))
    \/ ClosedByWindowManager \/ SessionChanges \/ SessionSignal
    \/ Tick \/ QuitIfStillIdle \/ Quit
ShellSpec == ShellInit /\ [][ShellNext]_shellVars
ShellFairness == WF_shellVars(Tick) /\ WF_shellVars(QuitIfStillIdle)

-----------------------------------------------------------------------------
\* The quit timer never ends the process before the clipboard manager had its
\* time, however often the windows were opened and closed since the copy.
ClipboardSurvives == process = "timer" => unsaved = 0

\* When nobody asks for anything any more, a process without a background
\* service and without a window has quit: no order of closing the popup, the
\* preferences and turning the background service off leaves it running. A popup
\* that the window manager closed (deaf) is not noticed by the code.
UnusedQuits ==
    <>[][Tick \/ QuitIfStillIdle]_shellVars =>
        <>[](process # "running" \/ persistent \/ popup \/ prefs \/ deaf \/ ~built)

\* Both together: the process ends in time, and not before it.
QuitsInTime == [][ClipboardSurvives']_shellVars /\ UnusedQuits
===============================================================================
