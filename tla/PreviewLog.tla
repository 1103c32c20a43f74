------------------------------ MODULE PreviewLog ------------------------------
(***************************************************************************)
(* `preview' on the command line follows the output of an extension that   *)
(* the app runs for it through one file: the app opens it when a preview   *)
(* begins and removes it when the preview is over, and its removal is the  *)
(* only thing that tells the command that the end has come.  Several such  *)
(* commands may run, and each replaces the preview of the one before.      *)
(***************************************************************************)
EXTENDS Naturals, FiniteSets

CONSTANTS
    Clis,        \* the commands
    NoCli,
    MaxWritten   \* bound: records written to one file

VARIABLES
    appUp,       \* the app owns its bus name
    previewOf,   \* whose preview is active
    log,         \* the file the app writes to, 0 for none
    linked,      \* the file at PREVIEW_LOG_FILE, 0 for none
    logsMade,    \* files opened so far; they are numbered in that order
    written,     \* [file -> records written to it]
    status,      \* [command -> "dependencies", "tailing" or "over"]
    asks,        \* [command -> the D-Bus call it waits for]
    stopped,     \* [command -> stop_requested]
    fd,          \* [command -> PreviewLogTail._file, 0 for none]
    poll,        \* [command -> "between" polls, or its poll has "looked" or "read"]
    sawEnd,      \* [command -> ended: its poll found no link to the file]
    readTo       \* [command -> records it has read]

appSideVars == <<appUp, previewOf, log, linked, logsMade, written>>
tailVars == <<fd, poll, sawEnd, readTo>>
previewVars == <<appSideVars, status, asks, stopped, tailVars>>

(* A file for each preview that begins: every command begins one at most. *)
LogFiles == 1 .. Cardinality(Clis)

PreviewTypeOK ==
    /\ appUp \in BOOLEAN /\ previewOf \in Clis \cup {NoCli}
    /\ {log, linked} \subseteq 0 .. logsMade /\ logsMade \in LogFiles \cup {0} /\ written \in [LogFiles -> 0 .. MaxWritten]
    /\ status \in [Clis -> {"dependencies", "tailing", "over"}]
    /\ asks \in [Clis -> {"none", "preview_ext", "stop_preview"}] /\ stopped \in [Clis -> BOOLEAN]
    /\ fd \in [Clis -> LogFiles \cup {0}] /\ sawEnd \in [Clis -> BOOLEAN]
    /\ poll \in [Clis -> {"between", "looked", "read"}] /\ readTo \in [Clis -> 0 .. MaxWritten]

(***************************************************************************)
(* The app.                                                                *)
(***************************************************************************)
Detached == log' = 0 /\ linked' = IF log = 0 THEN linked ELSE 0

HandlesCall(c, call) ==
    /\ appUp /\ asks[c] = call
    /\ asks' = [asks EXCEPT ![c] = "none"]
    /\ UNCHANGED <<appUp, status, stopped, tailVars>>

(* An earlier preview's file goes; the new one is opened, so it exists. *)
PreviewBegins(c) ==
    /\ HandlesCall(c, "preview_ext")
    /\ previewOf' = c
    /\ logsMade' = logsMade + 1 /\ log' = logsMade + 1 /\ linked' = logsMade + 1
    /\ UNCHANGED written

StopActivePreview ==
    /\ UNCHANGED <<logsMade, written>>
    /\ IF previewOf = NoCli THEN UNCHANGED <<previewOf, log, linked>>
       ELSE previewOf' = NoCli /\ Detached

PreviewStops(c) == HandlesCall(c, "stop_preview") /\ StopActivePreview

(* The previewed process fails, and its exit handler stops the preview. *)
PreviewFails ==
    /\ appUp /\ previewOf # NoCli
    /\ StopActivePreview
    /\ UNCHANGED <<appUp, status, asks, stopped, tailVars>>

WriteRecord ==
    /\ appUp /\ log # 0 /\ written[log] < MaxWritten
    /\ written' = [written EXCEPT ![log] = @ + 1]
    /\ UNCHANGED <<appUp, previewOf, log, linked, logsMade, status, asks, stopped, tailVars>>

(* The app cleans up and quits, or it is killed and leaves the file. *)
AppEnds ==
    /\ appUp /\ appUp' = FALSE /\ previewOf' = NoCli
    /\ Detached \/ (log' = 0 /\ UNCHANGED linked)
    /\ asks' = [c \in Clis |-> "none"]
    /\ UNCHANGED <<logsMade, written, status, stopped, tailVars>>

(***************************************************************************)
(* A command.  A D-Bus call of it blocks until the app has handled it.     *)
(***************************************************************************)
Free(c) == asks[c] = "none" /\ status[c] # "over"
Ask(c, call) == asks' = IF appUp THEN [asks EXCEPT ![c] = call] ELSE asks

StartPreview(c) ==
    /\ status[c] = "dependencies" /\ Free(c)
    /\ status' = [status EXCEPT ![c] = "tailing"]
    /\ linked' = 0
    /\ Ask(c, "preview_ext")
    /\ UNCHANGED <<appUp, previewOf, log, logsMade, written, stopped, tailVars>>

DependenciesFail(c) ==
    /\ status[c] = "dependencies" /\ Free(c)
    /\ status' = [status EXCEPT ![c] = "over"]
    /\ UNCHANGED <<appSideVars, asks, stopped, tailVars>>

OnInterrupt(c) ==
    /\ Free(c)
    /\ IF stopped[c] THEN UNCHANGED <<asks, stopped>>
       ELSE Ask(c, "stop_preview") /\ stopped' = [stopped EXCEPT ![c] = TRUE]
    /\ status' = IF fd[c] # 0 /\ ~stopped[c] THEN status ELSE [status EXCEPT ![c] = "over"]
    /\ UNCHANGED <<appSideVars, tailVars>>

Polls(c) == status[c] = "tailing" /\ Free(c) /\ UNCHANGED <<appSideVars, asks, stopped>>

OpenLog(c) ==
    /\ Polls(c) /\ fd[c] = 0 /\ linked # 0
    /\ fd' = [fd EXCEPT ![c] = linked]
    /\ UNCHANGED <<status, poll, sawEnd, readTo>>

CheckLinks(c) ==
    /\ Polls(c) /\ fd[c] # 0 /\ poll[c] = "between"
    /\ poll' = [poll EXCEPT ![c] = "looked"]
    /\ sawEnd' = [sawEnd EXCEPT ![c] = fd[c] # linked]
    /\ UNCHANGED <<status, fd, readTo>>

ReadLog(c) ==
    /\ Polls(c) /\ poll[c] = "looked"
    /\ poll' = [poll EXCEPT ![c] = "read"]
    /\ readTo' = [readTo EXCEPT ![c] = written[fd[c]]]
    /\ UNCHANGED <<status, fd, sawEnd>>

(* Mutant: the links are counted after the read. *)
EndedAfterRead(c) == fd[c] # linked
Ended(c) == sawEnd[c]

EndPoll(c) ==
    /\ Polls(c) /\ poll[c] = "read"
    /\ poll' = [poll EXCEPT ![c] = "between"]
    /\ status' = IF Ended(c) THEN [status EXCEPT ![c] = "over"] ELSE status
    /\ sawEnd' = [sawEnd EXCEPT ![c] = FALSE]
    /\ UNCHANGED <<fd, readTo>>

(* Once in a while the poll asks whether the app is still there. *)
OnAppVanished(c) ==
    /\ Polls(c) /\ poll[c] = "between" /\ ~appUp
    /\ readTo' = IF fd[c] = 0 THEN readTo ELSE [readTo EXCEPT ![c] = written[fd[c]]]
    /\ status' = [status EXCEPT ![c] = "over"]
    /\ UNCHANGED <<fd, poll, sawEnd>>

PreviewInit ==
    /\ appUp = TRUE /\ previewOf = NoCli /\ log = 0 /\ linked = 0 /\ logsMade = 0
    /\ written = [f \in LogFiles |-> 0]
    /\ status = [c \in Clis |-> "dependencies"] /\ asks = [c \in Clis |-> "none"]
    /\ stopped = [c \in Clis |-> FALSE]
    /\ fd = [c \in Clis |-> 0] /\ readTo = [c \in Clis |-> 0]
    /\ poll = [c \in Clis |-> "between"] /\ sawEnd = [c \in Clis |-> FALSE]

PreviewNext ==
    \/ PreviewFails \/ WriteRecord \/ AppEnds
    \/ \E c \in Clis :
          \/ PreviewBegins(c) \/ PreviewStops(c)
          \/ StartPreview(c) \/ DependenciesFail(c) \/ OnInterrupt(c)
          \/ OpenLog(c) \/ CheckLinks(c) \/ ReadLog(c) \/ EndPoll(c) \/ OnAppVanished(c)

PreviewSpec == PreviewInit /\ [][PreviewNext]_previewVars

(* The app's loop answers the calls it gets.  A command                         *)
(* polls as long as it tails.  One poll in ten asks for the app before it looks *)
(* at the file, so the question comes up again and again between two polls that *)
(* are under way: hence the strong fairness.                                    *)
PreviewFairness ==
    \A c \in Clis :
        /\ WF_previewVars(PreviewBegins(c)) /\ WF_previewVars(PreviewStops(c))
        /\ WF_previewVars(OpenLog(c) \/ CheckLinks(c) \/ ReadLog(c) \/ EndPoll(c))
        /\ SF_previewVars(OnAppVanished(c))

-----------------------------------------------------------------------------
(***************************************************************************)
(* A command that ends by itself has printed every record of its file, and *)
(* the app writes no more to it (PreviewLogTail._read: "Checked before the *)
(* read, so nothing can be appended in between").  It need not be so when  *)
(* another command starts later: that one removes the file the app still   *)
(* writes to.                                                              *)
(***************************************************************************)
StartedLast(c) == \A d \in Clis \ {c} : status[d] = "dependencies" \/ fd[d] \in 1 .. fd[c] - 1

AllPrinted ==
    [][\A c \in Clis :
          status[c] = "tailing" /\ status'[c] = "over" /\ ~OnInterrupt(c) /\ fd[c] # 0 /\ StartedLast(c)
          => fd[c] # log /\ readTo'[c] = written[fd[c]]]_previewVars

(***************************************************************************)
(* It ends by itself once the app is done with its file, whether the       *)
(* preview was stopped, failed or was replaced, and once the app is gone.  *)
(***************************************************************************)
TailEnds ==
    \A c \in Clis :
        status[c] = "tailing" /\ (~appUp \/ fd[c] \notin {0, log}) ~> status[c] = "over"

(* Both together: the command shows its preview to the end. *)
PreviewFollowed == AllPrinted /\ TailEnds

(***************************************************************************)
(* A command is not "left waiting for an end that can no longer come":     *)
(* when its preview is over, so is the command, in the end.                *)
(***************************************************************************)
NotLeftWaiting ==
    \A c \in Clis :
        status[c] = "tailing" /\ asks[c] # "preview_ext" /\ previewOf # c ~> status[c] = "over" \/ previewOf = c
=============================================================================
