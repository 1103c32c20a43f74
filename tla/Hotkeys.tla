------------------------------- MODULE Hotkeys -------------------------------
(* The global shortcut: a custom keybinding in the store of the desktop (GNOME, *)
(* XFCE), a shortcut of Plasma, or a session of the GlobalShortcuts portal that *)
(* lives as long as the process. A change that fails puts the old one back.     *)
EXTENDS Naturals, Sequences, SequencesExt, FiniteSets

CONSTANTS Accels, NoAccel,
          FallbackAccels,     \* DEFAULT_FALLBACK, then what is tried after it
          HotkeyDesktops,
          MaxHotkeyChanges,    \* bound on the changes and restarts
          MaxHotkeyFaults      \* bound on the failing writes of the desktop's store
ASSUME HotkeyAssumption ==
    /\ NoAccel \notin Accels /\ FallbackAccels \in Seq(Accels) /\ Len(FallbackAccels) > 1
    /\ \A i, j \in DOMAIN FallbackAccels : i # j => FallbackAccels[i] # FallbackAccels[j]
    /\ HotkeyDesktops \subseteq {"GNOME", "XFCE", "PLASMA", "PORTAL"}
    /\ MaxHotkeyChanges \in Nat /\ MaxHotkeyFaults \in Nat

VARIABLES desk, store, chosen, hotkeyProcess, client, sessions, toPortal, toClient, asking, hotkeyChanges, hotkeyFaults
hotkeyVars == <<desk, store, chosen, hotkeyProcess, client, sessions, toPortal, toClient, asking, hotkeyChanges, hotkeyFaults>>
desktopVars == <<desk, store, chosen, hotkeyFaults>>
portalVars == <<sessions, toPortal, toClient, asking>>

MaybeAccel == Accels \union {NoAccel}
Ids == 1..(MaxHotkeyChanges + 1)
Store == [binding: MaybeAccel, enabled: BOOLEAN]   \* enabled: listed in custom-keybindings
Client == [accel: MaybeAccel, awaits: {0} \union Ids, handle: {0} \union Ids]
NoPortal == [accel |-> NoAccel, awaits |-> 0, handle |-> 0]
PortalMessage == [kind: {"create", "bind", "close"}, id: Ids, accel: MaybeAccel]

HotkeyTypeOK ==
    /\ desk \in HotkeyDesktops /\ store \in Store
    /\ chosen \in MaybeAccel                       \* settings.hotkey_show_app
    /\ hotkeyProcess \in {"fresh", "running", "stopped"} \* fresh: the first run is still to come
    /\ client \in Client                           \* GlobalShortcutsPortal
    /\ sessions \in [Ids -> MaybeAccel \union {"closed"}]
    /\ toPortal \in Seq(PortalMessage) /\ toClient \in Seq(Ids) /\ asking \in SUBSET PortalMessage
    /\ hotkeyChanges \in 0..MaxHotkeyChanges /\ hotkeyFaults \in 0..MaxHotkeyFaults

HotkeyInit ==
    /\ desk \in HotkeyDesktops /\ store = [binding |-> NoAccel, enabled |-> FALSE]
    /\ chosen = NoAccel /\ hotkeyProcess = "fresh" /\ client = NoPortal
    /\ sessions = [i \in Ids |-> "closed"] /\ toPortal = <<>> /\ toClient = <<>> /\ asking = {}
    /\ hotkeyChanges = 0 /\ hotkeyFaults = 0

-----------------------------------------------------------------------------
\* The stores. GNOME writes the binding, then lists it; XFCE resets the old
\* binding before it creates the new one: each call can fail on the way.
Written(s, accel) == [binding |-> accel, enabled |-> TRUE]
HalfWritten(s, accel) ==
    CASE desk = "GNOME" -> {s, [s EXCEPT !.binding = accel]}
      [] desk = "XFCE" -> {s, [binding |-> NoAccel, enabled |-> FALSE]}
      [] OTHER -> {}
HasStore == desk \in {"GNOME", "XFCE"}

\* shortcut_attempts: the requested one, then the other fallbacks.
Attempts(requested) ==
    LET at == {i \in DOMAIN FallbackAccels : FallbackAccels[i] = requested}
    IN  <<requested>> \o (IF at = {} THEN FallbackAccels ELSE RemoveAt(FallbackAccels, CHOOSE i \in at : TRUE))
Current == IF desk = "GNOME" /\ store.binding # NoAccel THEN store.binding
           ELSE IF chosen # NoAccel THEN chosen ELSE Head(FallbackAccels)

\* setup_default on the first run: attempts until one is written; a grab GNOME
\* already has, and what Plasma has, are kept.
SetupDefault(requested) ==
    IF HasStore /\ (desk = "GNOME" => store.binding = NoAccel)
    THEN \E failed \in 0..Len(Attempts(requested)) :
            /\ hotkeyFaults + failed <= MaxHotkeyFaults /\ hotkeyFaults' = hotkeyFaults + failed
            /\ IF failed < Len(Attempts(requested))
               THEN store' = Written(store, Attempts(requested)[failed + 1])
               ELSE \E s \in HalfWritten(store, Last(Attempts(requested))) : store' = s
    ELSE /\ store' = IF desk = "PLASMA" /\ store.binding = NoAccel
                     THEN Written(store, Head(FallbackAccels)) ELSE store
         /\ UNCHANGED hotkeyFaults

-----------------------------------------------------------------------------
\* The portal session: the old one is closed before the next is asked for; what
\* it was subscribed to is dropped, so the response of a request given up is lost.
Closing(c) == IF c.handle = 0 THEN <<>>
              ELSE <<[kind |-> "close", id |-> c.handle, accel |-> NoAccel]>>
PortalStart(accel, id) ==
    /\ toPortal' = toPortal \o Closing(client) \o <<[kind |-> "create", id |-> id, accel |-> NoAccel]>>
    /\ client' = [accel |-> accel, awaits |-> id, handle |-> 0]
    /\ UNCHANGED <<sessions, toClient, asking>>

\* Startup binds the session's hotkey (its bus may be missing), then the default.
Start ==
    /\ hotkeyProcess # "running"
    /\ hotkeyProcess' = "running"
    /\ LET hotkey == IF chosen = NoAccel THEN Head(FallbackAccels) ELSE chosen IN
       /\ \/ desk = "PORTAL" /\ PortalStart(hotkey, hotkeyChanges + 1)
          \/ UNCHANGED <<client, portalVars>>
       /\ IF hotkeyProcess = "fresh" THEN SetupDefault(hotkey) ELSE UNCHANGED <<store, hotkeyFaults>>
    /\ UNCHANGED <<desk, chosen, hotkeyChanges>>

\* The process ends: the bus drops its portal sessions with the connection.
StopApp ==
    /\ hotkeyProcess = "running" /\ hotkeyChanges < MaxHotkeyChanges
    /\ hotkeyProcess' = "stopped" /\ hotkeyChanges' = hotkeyChanges + 1
    /\ client' = NoPortal /\ sessions' = [i \in Ids |-> "closed"]
    /\ toPortal' = <<>> /\ toClient' = <<>> /\ asking' = {}
    /\ UNCHANGED desktopVars

\* apply_accelerator: the store, the setting, then the portal by the event bus.
AccelApplied(accel) ==
    /\ store' = IF HasStore THEN Written(store, accel) ELSE store
    /\ chosen' = accel /\ UNCHANGED hotkeyFaults
    /\ IF client # NoPortal THEN PortalStart(accel, hotkeyChanges + 2) ELSE UNCHANGED <<client, portalVars>>
\* Mutant: what was shown is not written again.
ApplyFailsHalfWay(accel) ==
    /\ hotkeyFaults < MaxHotkeyFaults /\ hotkeyFaults' = hotkeyFaults + 1
    /\ store' \in HalfWritten(store, accel)
    /\ UNCHANGED <<chosen, client, portalVars>>
\* The restoring write of what was shown may fail as well.
ApplyFails(accel) ==
    /\ hotkeyFaults < MaxHotkeyFaults
    /\ \E half \in HalfWritten(store, accel) :
         \/ store' = Written(half, Current) /\ hotkeyFaults' = hotkeyFaults + 1
         \/ /\ hotkeyFaults + 1 < MaxHotkeyFaults /\ hotkeyFaults' = hotkeyFaults + 2
            /\ store' \in HalfWritten(half, Current)
    /\ UNCHANGED <<chosen, client, portalVars>>
ApplyAccelerator(accel) ==
    /\ hotkeyProcess = "running" /\ desk # "PLASMA"   \* Plasma opens its own dialog instead
    /\ hotkeyChanges < MaxHotkeyChanges /\ hotkeyChanges' = hotkeyChanges + 1
    /\ AccelApplied(accel) \/ ApplyFails(accel)
    /\ UNCHANGED <<desk, hotkeyProcess>>

\* _on_create_session_response: only the last request is subscribed to; the
\* trigger is the accelerator of now.
CreateSessionResponse ==
    /\ toClient # <<>> /\ toClient' = Tail(toClient)
    /\ IF Head(toClient) = client.awaits
       THEN /\ client' = [client EXCEPT !.handle = Head(toClient)]
            /\ toPortal' = Append(toPortal, [kind |-> "bind", id |-> Head(toClient), accel |-> client.accel])
       ELSE UNCHANGED <<client, toPortal>>
    /\ UNCHANGED <<desktopVars, hotkeyProcess, sessions, asking, hotkeyChanges>>

-----------------------------------------------------------------------------
\* The portal: it creates and closes sessions, and asks the user about a bind.
PortalHandles ==
    /\ toPortal # <<>> /\ toPortal' = Tail(toPortal)
    /\ LET message == Head(toPortal) IN
       CASE message.kind = "create" -> /\ sessions' = [sessions EXCEPT ![message.id] = NoAccel]
                                       /\ toClient' = Append(toClient, message.id) /\ UNCHANGED asking
         [] message.kind = "bind" -> /\ asking' = asking \union {message}
                                     /\ UNCHANGED <<sessions, toClient>>
         [] OTHER -> /\ sessions' = [sessions EXCEPT ![message.id] = "closed"]
                     /\ asking' = {m \in asking : m.id # message.id} /\ UNCHANGED toClient
    /\ UNCHANGED <<desktopVars, hotkeyProcess, client, hotkeyChanges>>
UserAnswers(message, accepts) ==
    /\ message \in asking /\ asking' = asking \ {message}
    /\ sessions' = IF accepts THEN [sessions EXCEPT ![message.id] = message.accel] ELSE sessions
    /\ UNCHANGED <<desktopVars, hotkeyProcess, client, toPortal, toClient, hotkeyChanges>>

HotkeyNext ==
    \/ Start \/ StopApp \/ CreateSessionResponse \/ PortalHandles
    \/ \E a \in Accels : ApplyAccelerator(a)
    \/ \E m \in asking, accepts \in BOOLEAN : UserAnswers(m, accepts)
HotkeySpec == HotkeyInit /\ [][HotkeyNext]_hotkeyVars

-----------------------------------------------------------------------------
Grabbed == {sessions[i] : i \in Ids} \ {NoAccel, "closed"}
Quiet == hotkeyProcess = "running" /\ toPortal = <<>> /\ toClient = <<>>

\* The combination the preferences show is the one that opens the launcher: after
\* any number of changes, also one that failed and was taken back, and a restart,
\* a desktop store holds exactly it; the portal never grabs two combinations, and
\* grabs no other one once its messages are handled. (On XFCE the shown one is
\* the first fallback as long as the user never chose one, whichever was bound.)
ShownHotkeyWorks ==
    /\ Cardinality(Grabbed) <= 1
    /\ Quiet => Grabbed \subseteq {Current}
    /\ (Quiet /\ HasStore /\ (desk = "XFCE" => chosen # NoAccel)) => store = Written(store, Current)
=============================================================================
