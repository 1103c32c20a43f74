---------------------------- MODULE ExtensionSlots ----------------------------
(***************************************************************************)
(* What the extension service promises, whatever calls, previews, crashes  *)
(* and command-line changes overlap: every extension id is a slot for one  *)
(* process and one job.  A process is launched into a free slot that no    *)
(* job holds, is asked to leave at most once, and frees the slot only when *)
(* its exit was handled.  The app changes the installed copy only within a *)
(* job and never under a process that runs from it; the command line asks  *)
(* nobody.                                                                 *)
(***************************************************************************)
EXTENDS Naturals

CONSTANT Exts   \* extension ids

VARIABLES
  phase,        \* what is in each slot
  installed,    \* it runs from the installed copy, not from a preview's directory
  busy,         \* a job holds the slot
  copy,         \* the user's copy is on disk
  outside       \* changes made to copies by the command line

slotVars == <<phase, installed, busy, copy, outside>>

SlotTypeOK ==
  /\ phase \in [Exts -> {"free", "live", "leaving"}]
  /\ installed \in [Exts -> BOOLEAN] /\ busy \in [Exts -> BOOLEAN] /\ copy \in [Exts -> BOOLEAN]
  /\ outside \in Nat

SlotInit ==
  /\ phase = [e \in Exts |-> "free"] /\ installed = [e \in Exts |-> FALSE]
  /\ busy = [e \in Exts |-> FALSE] /\ copy \in [Exts -> BOOLEAN] /\ outside = 0

Launch(e) ==
  /\ phase[e] = "free" /\ ~busy[e]
  /\ phase' = [phase EXCEPT ![e] = "live"]
  /\ \E b \in BOOLEAN : installed' = [installed EXCEPT ![e] = b]
  /\ UNCHANGED <<busy, copy, outside>>

AskToLeave(e) ==
  /\ phase[e] = "live"
  /\ phase' = [phase EXCEPT ![e] = "leaving"]
  /\ UNCHANGED <<installed, busy, copy, outside>>

\* The exit was handled: after the process was asked to leave, or of itself.
Leave(e) ==
  /\ phase[e] # "free"
  /\ phase' = [phase EXCEPT ![e] = "free"]
  /\ installed' = [installed EXCEPT ![e] = FALSE]
  /\ UNCHANGED <<busy, copy, outside>>

BeginJob(e) ==
  /\ ~busy[e]
  /\ busy' = [busy EXCEPT ![e] = TRUE]
  /\ UNCHANGED <<phase, installed, copy, outside>>

EndJob(e) ==
  /\ busy[e]
  /\ busy' = [busy EXCEPT ![e] = FALSE]
  /\ UNCHANGED <<phase, installed, copy, outside>>

ReplaceCopy(e) ==
  /\ busy[e] /\ ~installed[e]
  /\ copy' = [copy EXCEPT ![e] = ~@]
  /\ UNCHANGED <<phase, installed, busy, outside>>

ChangeOutside(e) ==
  /\ \E b \in BOOLEAN : copy' = [copy EXCEPT ![e] = b]
  /\ outside' = outside + 1
  /\ UNCHANGED <<phase, installed, busy>>

SlotNext ==
  \E e \in Exts :
    \/ Launch(e) \/ AskToLeave(e) \/ Leave(e)
    \/ BeginJob(e) \/ EndJob(e) \/ ReplaceCopy(e) \/ ChangeOutside(e)

SlotSpec == SlotInit /\ [][SlotNext]_slotVars
===============================================================================
