----------------------------- MODULE TimeLimits -----------------------------
(* Whether the session's time is over: malcontent's estimates, and gnome-shell's *)
(* daily limit, for which today's active time is read off its history file.      *)
EXTENDS Naturals, Sequences, SequencesExt, FiniteSets

CONSTANTS Today,        \* the second at which the local day started
          LastSecond,   \* the latest now
          MaxEntries    \* bound on the history
ASSUME LimitAssumption == Today \in Nat /\ LastSecond \in Nat /\ MaxEntries \in Nat

VARIABLES limitSession, limited
limitVars == <<limitSession, limited>>

\* A history is what gnome-shell writes: a change of state per entry, in order.
Change == [wall : 0..LastSecond, active : BOOLEAN]
Histories == {h \in BoundedSeq(Change, MaxEntries) :
                \A i \in 1..(Len(h) - 1) : h[i].wall <= h[i + 1].wall /\ h[i].active # h[i + 1].active}
\* end: of malcontent's current session, 0 without one; daily: the limit, 0 when
\* it is off; readable: the history file is there and valid.
LimitSession == [now : Today..LastSecond, end : 0..LastSecond, daily : 0..(LastSecond - Today),
                 history : Histories, readable : BOOLEAN]

LimitTypeOK == limitSession \in LimitSession /\ limited \in {"unasked", "reached", "free"}
LimitInit ==
    /\ limitSession \in {s \in LimitSession : s.history = <<>> \/ Last(s.history).wall <= s.now}
    /\ limited = "unasked"

-----------------------------------------------------------------------------
\* wellbeing_active_seconds_today: a walk over today's entries, which are the last.
ActiveIn(sum, change) ==
    IF change.active THEN [sum EXCEPT !.start = change.wall]
    ELSE [sum EXCEPT !.total = @ + (change.wall - sum.start)]
ActiveTo(history) ==
    LET Sum[k \in 0..Len(history)] ==
            IF k = 0 THEN [start |-> Today, total |-> 0]
            ELSE IF history[k].wall < Today THEN Sum[k - 1] ELSE ActiveIn(Sum[k - 1], history[k])
    IN  Sum
\* Mutant: the period that runs is not counted.
ActiveSecondsEnded(now, history) == ActiveTo(history)[Len(history)].total
ActiveSecondsToday(now, history) ==
    LET sum == ActiveTo(history)[Len(history)]
    IN  sum.total + (IF history # <<>> /\ Last(history).active THEN now - sum.start ELSE 0)

MalcontentReached(now, end) == end > 0 /\ now >= end
WellbeingReached(s) ==
    /\ s.daily > 0 /\ s.readable /\ ActiveSecondsToday(s.now, s.history) >= s.daily
LimitsReached(s) == MalcontentReached(s.now, s.end) \/ WellbeingReached(s)

AskLimits == limited = "unasked" /\ limited' = (IF LimitsReached(limitSession) THEN "reached" ELSE "free")
             /\ UNCHANGED limitSession
LimitSpec == LimitInit /\ [][AskLimits]_limitVars

-----------------------------------------------------------------------------
\* What the limit is about: the seconds of today in which the session was active,
\* which it was from before the first change if that one ended it.
ActiveAt(history, second) ==
    LET past == {i \in DOMAIN history : history[i].wall <= second} IN
    IF past # {} THEN history[Max(past)].active ELSE history # <<>> /\ ~Head(history).active
\* The launcher refuses to open exactly when one of the limits is over: seconds of
\* yesterday do not count, a session active since yesterday counts from midnight,
\* and the running period counts up to now.
LimitExact ==
    limited # "unasked" =>
        (limited = "reached" <=>
            \/ (limitSession.end # 0 /\ limitSession.now >= limitSession.end)
            \/ /\ limitSession.daily # 0 /\ limitSession.readable
               /\ Cardinality({t \in Today..(limitSession.now - 1) : ActiveAt(limitSession.history, t)})
                      >= limitSession.daily)
=============================================================================
