---------------------------- MODULE PopupSession ----------------------------
(* The popup and the session: opening it asks the session what forbids a popup *)
(* (a lock, a time limit), shows it and then subscribes to the signals that    *)
(* close it; the session goes on while the main loop does so.                  *)
EXTENDS Naturals, Sequences, SequencesExt, FiniteSets

CONSTANTS MaxEvents   \* bound on the changes of the session
ASSUME PopupAssumption == MaxEvents \in Nat

\* What comes up in a session. A lock screen is asked about (GetActive) and
\* signalled; a time limit is asked about, and its signal only means: ask again;
\* the overview, sleep, logind's lock and a screenshot tool are only signalled.
AskedBlockers == {"screensaver", "limit"}
OnlySignalled == {"overview", "sleep", "lock", "modal"}
Conditions == AskedBlockers \union OnlySignalled

VARIABLES on,          \* what is up in the session now
          visible,     \* the popup
          listening,   \* SessionWatcher._listening
          subscribed,  \* its signals reach the process
          popupStage,     \* where show_launcher is: "idle", "asked", "shown"
          blockers,    \* what the session said
          signals,     \* signals on the way
          before,      \* what is up and was not signalled to this opening, nor asked about
          repeats,     \* toggles that came within the key's repeat gap
          steps
popupVars == <<on, visible, listening, subscribed, popupStage, blockers, signals, before, repeats, steps>>
sessionVars == <<on, steps>>

PopupTypeOK ==
    /\ {on, blockers, before} \subseteq SUBSET Conditions
    /\ {visible, listening, subscribed, repeats} \subseteq BOOLEAN
    /\ popupStage \in {"idle", "asked", "shown"}
    /\ signals \in Seq(Conditions) /\ steps \in 0..MaxEvents

PopupInit ==
    /\ on = {} /\ visible = FALSE /\ listening = FALSE /\ subscribed = FALSE
    /\ popupStage = "idle" /\ blockers = {} /\ signals = <<>> /\ before = {}
    /\ repeats = FALSE /\ steps = 0

NotOpening == popupStage = "idle"
-----------------------------------------------------------------------------
\* SessionWatcher: subscriptions are made once, and dropped with the popup.
StartWatching ==
    /\ listening' = TRUE
    /\ subscribed' = (subscribed \/ ~listening)
\* Mutant: the watcher is unsubscribed and goes on believing it listens.
StopListening ==
    /\ listening' = listening /\ before' = {}
    /\ subscribed' = FALSE
StopWatching ==
    /\ listening' = FALSE /\ before' = {}
    /\ subscribed' = (subscribed /\ ~listening)

\* request_close: a hidden popup is left alone, with its watcher.
RequestPopupClose ==
    /\ IF visible THEN visible' = FALSE /\ StopWatching
       ELSE UNCHANGED <<visible, listening, subscribed, before>>

\* show_launcher, first half: session_popup_blockers asks for the lock, then for
\* the limits; a blocked session closes the popup instead.
AskSession ==
    /\ blockers' = on \intersect AskedBlockers
    /\ popupStage' = "asked"
    /\ before' = {c \in on : c \in OnlySignalled /\ ~(subscribed /\ Contains(signals, c))}
    /\ UNCHANGED <<visible, listening, subscribed, signals>>
ShowPopup == NotOpening /\ AskSession /\ repeats' = FALSE /\ UNCHANGED sessionVars

\* toggle_window: a repeat of the held key is dropped, and so are the next ones.
TogglePopup(repeat) ==
    /\ NotOpening
    /\ IF repeat THEN UNCHANGED <<visible, listening, subscribed, popupStage, blockers, signals, before>>
       ELSE IF visible THEN RequestPopupClose /\ UNCHANGED <<popupStage, blockers, signals>>
       ELSE AskSession
    /\ repeats' = TRUE /\ UNCHANGED sessionVars
KeyReleased ==
    /\ repeats /\ NotOpening /\ repeats' = FALSE
    /\ UNCHANGED <<sessionVars, visible, listening, subscribed, popupStage, blockers, signals, before>>

\* Its second half: closed when blocked, or a visible window ...
Presented ==
    /\ popupStage = "asked"
    /\ IF blockers # {} THEN RequestPopupClose /\ popupStage' = "idle"
       ELSE /\ visible' = TRUE /\ popupStage' = "shown"
            /\ UNCHANGED <<listening, subscribed, before>>
    /\ UNCHANGED <<sessionVars, blockers, signals, repeats>>
\* ... and then the subscriptions.
StartedWatching ==
    /\ popupStage = "shown" /\ popupStage' = "idle" /\ StartWatching
    /\ UNCHANGED <<sessionVars, visible, blockers, signals, before, repeats>>

HidePopup == NotOpening /\ RequestPopupClose /\ UNCHANGED <<sessionVars, popupStage, blockers, signals, repeats>>
\* The preferences hide the popup and stop its watcher, whether it is visible or not.
OpenPrefs ==
    /\ NotOpening /\ visible' = FALSE /\ StopWatching
    /\ UNCHANGED <<sessionVars, popupStage, blockers, signals, repeats>>
\* The popup has no handler for its window being closed by the window manager.
WindowManagerCloses ==
    /\ NotOpening /\ visible /\ visible' = FALSE
    /\ UNCHANGED <<sessionVars, listening, subscribed, popupStage, blockers, signals, before, repeats>>

\* _on_signal, with the subscriptions of now; a limit's signal asks again.
Closes(condition) == condition # "limit" \/ condition \in on
Signalled ==
    /\ NotOpening /\ signals # <<>> /\ signals' = Tail(signals)
    /\ IF subscribed /\ Closes(Head(signals)) THEN RequestPopupClose
       ELSE UNCHANGED <<visible, listening, subscribed, before>>
    /\ UNCHANGED <<sessionVars, popupStage, blockers, repeats>>

-----------------------------------------------------------------------------
\* The session, at any moment. The daemon signals new estimates, not the limit.
Emitted(condition) == IF subscribed THEN Append(signals, condition) ELSE signals
Rises(condition) ==
    /\ steps < MaxEvents /\ condition \notin on
    /\ on' = on \union {condition} /\ steps' = steps + 1
    /\ signals' = IF condition = "limit" THEN signals ELSE Emitted(condition)
    /\ before' = IF NotOpening \/ subscribed THEN before ELSE before \union {condition}
    /\ UNCHANGED <<visible, listening, subscribed, popupStage, blockers, repeats>>
EstimatesChange ==
    /\ steps < MaxEvents /\ steps' = steps + 1 /\ signals' = Emitted("limit")
    /\ UNCHANGED <<on, visible, listening, subscribed, popupStage, blockers, before, repeats>>
Falls(condition) ==
    /\ steps < MaxEvents /\ condition \in on
    /\ on' = on \ {condition} /\ before' = before \ {condition} /\ steps' = steps + 1
    /\ UNCHANGED <<visible, listening, subscribed, popupStage, blockers, signals, repeats>>

PopupNext ==
    \/ ShowPopup \/ (\E repeat \in BOOLEAN : (repeat => repeats) /\ TogglePopup(repeat)) \/ KeyReleased
    \/ Presented \/ StartedWatching \/ HidePopup \/ OpenPrefs \/ WindowManagerCloses \/ Signalled
    \/ EstimatesChange \/ (\E c \in Conditions : Rises(c) \/ Falls(c))
PopupSpec == PopupInit /\ [][PopupNext]_popupVars

-----------------------------------------------------------------------------
\* A popup that stays visible is over nothing that it was told of: a lock screen
\* that was up when it opened, or anything (a time limit aside) that came up once
\* its watcher subscribed, has closed it as soon as the signal was handled, however
\* the popup was closed and opened meanwhile: by the key, the preferences or the
\* window manager. What comes up between the question and the subscription is
\* missed (before).
PopupYields ==
    (visible /\ NotOpening /\ signals = <<>>) => (on \ {"limit"}) \subseteq before
=============================================================================
