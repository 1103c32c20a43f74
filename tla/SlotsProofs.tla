------------------------------ MODULE SlotsProofs ------------------------------
(* The service keeps what ExtensionSlots promises, and every job is accounted    *)
(* for: for any number of extensions, processes, previews and requests.          *)
(*                                                                               *)
(* A job holds its id through exactly one thing that will release it: the        *)
(* download, a callback of the stop in flight, or a call on the stack.  A call   *)
(* hands this on at its end, so what is deeper on the stack stays what it was.   *)
EXTENDS OneProcessProofs

Fetches(e) == fetching[e] # "none"
Stops(e)   == pendingStop[e].cbs # <<>>
Claim(i, e) == i \in DOMAIN calls /\ calls[i].ext = e /\ WillRelease(calls[i])

\* One thing will release the active job of e, and nothing an idle id.
OneHolder(e) ==
  /\ ~(Fetches(e) /\ Stops(e))
  /\ Len(pendingStop[e].cbs) <= 1
  /\ \A i \in DOMAIN calls : Claim(i, e) => ~Fetches(e) /\ ~Stops(e)
  /\ \A i, j \in DOMAIN calls : Claim(i, e) /\ Claim(j, e) => i = j
  /\ jobActive[e] <=> Fetches(e) \/ Stops(e) \/ \E i \in DOMAIN calls : Claim(i, e)
Held == \A e \in Exts : OneHolder(e)

\* The registered process of an id was spawned from the registered record.
Recorded ==
  \A e \in Exts : IF runtime[e] = 0 THEN record[e] = NoRec ELSE procs[runtime[e]].rec = record[e]

\* A process that runs from an installed copy of e.
RunsCopy(p, e) == Unreported(p) /\ procs[p].ext = e /\ procs[p].rec.kind # "preview"

\* Files are replaced by the call on top only, and under no process.
Quiet ==
  \A i \in DOMAIN calls : calls[i].op \in {"swap", "remove"} =>
    i = 1 /\ \A p \in Procs : ~RunsCopy(p, calls[i].ext)

Sound == Held /\ Recorded /\ Quiet

(***************************************************************************)
(* How a step moves the stack                                              *)
(***************************************************************************)
\* The call on top goes on as n calls.
Moves(n) ==
  /\ \A i \in DOMAIN calls' : i > n => i + 1 - n \in DOMAIN calls /\ calls'[i] = calls[i + 1 - n]
  /\ \A i \in DOMAIN calls : i > 1 => i + n - 1 \in DOMAIN calls' /\ calls'[i + n - 1] = calls[i]

LEMMA Positions ==
  ASSUME Typed
  PROVE  /\ DOMAIN calls \subseteq Int /\ \A i \in DOMAIN calls : i >= 1
         /\ calls # <<>> => 1 \in DOMAIN calls /\ calls[1] = Head(calls)
         /\ calls = <<>> => DOMAIN calls = {}
BY Stack, EmptySeq DEF Typed

LEMMA BecomesMoves ==
  ASSUME Typed, calls # <<>>, NEW s \in Seq(GoodFrame), Becomes(s)
  PROVE  /\ Len(s) \in Nat /\ Moves(Len(s))
         /\ \A i \in 1..Len(s) : i \in DOMAIN calls' /\ calls'[i] = s[i]
<1>1. Len(calls) \in Nat /\ DOMAIN calls = 1..Len(calls) /\ Len(calls) >= 1
  BY Stack
<1>2. /\ Len(s) \in Nat
      /\ Len(calls') = Len(s) + Len(calls) - 1 /\ DOMAIN calls' = 1..Len(calls')
      /\ \A i \in 1..Len(s) : calls'[i] = s[i]
      /\ \A i \in (Len(s) + 1)..Len(calls') : calls'[i] = calls[i - Len(s) + 1]
  BY StackBecomes
<1> DEFINE n == Len(s)
<1>3. n \in Nat
  BY <1>2
<1> HIDE DEF n
<1>4. /\ DOMAIN calls' = 1..(n + Len(calls) - 1)
      /\ \A i \in (n + 1)..(n + Len(calls) - 1) : calls'[i] = calls[i - n + 1]
  BY <1>2 DEF n
<1>5. \A i \in DOMAIN calls' : i > n => i + 1 - n \in DOMAIN calls /\ calls'[i] = calls[i + 1 - n]
  <2>1. ASSUME NEW i \in DOMAIN calls', i > n
        PROVE  i + 1 - n \in DOMAIN calls /\ calls'[i] = calls[i + 1 - n]
    <3>1. i \in (n + 1)..(n + Len(calls) - 1) /\ i + 1 - n = i - n + 1 /\ i + 1 - n \in 1..Len(calls)
      BY <1>1, <1>3, <1>4, <2>1
    <3>2. QED
      BY <3>1, <1>1, <1>4
  <2>2. QED
    BY <2>1
<1>6. \A i \in DOMAIN calls : i > 1 => i + n - 1 \in DOMAIN calls' /\ calls'[i + n - 1] = calls[i]
  <2>1. ASSUME NEW i \in DOMAIN calls, i > 1
        PROVE  i + n - 1 \in DOMAIN calls' /\ calls'[i + n - 1] = calls[i]
    <3>1. i + n - 1 \in (n + 1)..(n + Len(calls) - 1) /\ (i + n - 1) - n + 1 = i
          /\ i + n - 1 \in 1..(n + Len(calls) - 1)
      BY <1>1, <1>3, <2>1
    <3>2. QED
      BY <3>1, <1>4
  <2>2. QED
    BY <2>1
<1>7. Moves(n)
  BY <1>5, <1>6 DEF Moves
<1>8. \A i \in 1..Len(s) : i \in DOMAIN calls'
  BY <1>1, <1>2
<1>9. QED
  BY <1>2, <1>7, <1>8 DEF n

\* The cases that occur: the call returns, or goes on as one or two calls.
LEMMA ReturnMoves ==
  ASSUME Typed, calls # <<>>, Return
  PROVE  Moves(0)
<1>1. Len(calls) \in Nat /\ DOMAIN calls = 1..Len(calls) /\ Len(calls) >= 1
  BY Stack
<1>2. /\ DOMAIN calls' = 1..(Len(calls) - 1)
      /\ \A i \in 1..(Len(calls) - 1) : calls'[i] = calls[i + 1]
  BY StackReturn
<1>3. QED
  BY <1>1, <1>2 DEF Moves

LEMMA OneMoves ==
  ASSUME Typed, calls # <<>>, NEW c \in GoodFrame, Becomes(<<c>>)
  PROVE  Moves(1) /\ 1 \in DOMAIN calls' /\ calls'[1] = c
<1> DEFINE s == <<c>>
<1>1. s \in Seq(GoodFrame) /\ Len(s) = 1 /\ s[1] = c /\ Becomes(s)
  OBVIOUS
<1> HIDE DEF s
<1>2. Moves(1) /\ \A i \in 1..1 : i \in DOMAIN calls' /\ calls'[i] = s[i]
  BY <1>1, BecomesMoves
<1>3. QED
  BY <1>1, <1>2

LEMMA TwoMoves ==
  ASSUME Typed, calls # <<>>, NEW c \in GoodFrame, NEW d \in GoodFrame, Becomes(<<c, d>>)
  PROVE  /\ Moves(2) /\ 1 \in DOMAIN calls' /\ 2 \in DOMAIN calls'
         /\ calls'[1] = c /\ calls'[2] = d
<1> DEFINE s == <<c, d>>
<1>1. s \in Seq(GoodFrame) /\ Len(s) = 2 /\ s[1] = c /\ s[2] = d /\ Becomes(s)
  OBVIOUS
<1> HIDE DEF s
<1>2. Moves(2) /\ \A i \in 1..2 : i \in DOMAIN calls' /\ calls'[i] = s[i]
  BY <1>1, BecomesMoves
<1>3. QED
  BY <1>1, <1>2

\* An event of the main loop makes the first calls.
LEMMA EventMoves ==
  ASSUME Typed, Typed', calls = <<>>
  PROVE  Moves(Len(calls')) /\ Len(calls') \in Nat /\ DOMAIN calls' = 1..Len(calls')
<1>1. Len(calls') \in Nat /\ DOMAIN calls' = 1..Len(calls')
  BY LenProperties DEF Typed
<1>2. DOMAIN calls = {}
  BY Positions
<1>3. QED
  BY <1>1, <1>2 DEF Moves

\* The exit handler goes on as two or three calls.
LEMMA ExitMoves ==
  ASSUME Typed, calls # <<>>, NEW e \in Exts, NEW r \in Rec, NEW errored \in BOOLEAN,
         HandleExit(e, r, errored, Tail(calls))
  PROVE  \E m \in {1, 2} : Moves(m) /\
           \A i \in 1..m : i \in DOMAIN calls'
             /\ calls'[i].op \in {"stopPreview", "drainCallbacks", "reconcile"}
<1>1. /\ Tail(calls) \in Seq(GoodFrame) /\ Len(Tail(calls)) = Len(calls) - 1
      /\ \A i \in 1..Len(Tail(calls)) : Tail(calls)[i] = calls[i + 1]
  BY HeadTailProperties DEF Typed
<1>2. Len(calls) \in Nat /\ DOMAIN calls = 1..Len(calls) /\ Len(calls) >= 1
  BY Stack
<1> DEFINE rest == Tail(calls)
<1>3. rest \in Seq(GoodFrame) /\ HandleExit(e, r, errored, rest) /\ Len(rest) = Len(calls) - 1
      /\ \A i \in 1..Len(rest) : rest[i] = calls[i + 1]
  BY <1>1
<1> HIDE DEF rest
<1>4. \E n \in {0, 1}, m \in {1, 2} :
         /\ DOMAIN calls' = 1..(m + Len(rest))
         /\ calls'[n + 1] = Call("drainCallbacks", e)
         /\ n = 1 => calls'[1] = Call("stopPreview", e)
         /\ errored => m = n + 1
         /\ ~errored => n = 0 /\ m = 2 /\ calls'[2] = Call("reconcile", e)
         /\ \A i \in 1..Len(rest) : calls'[m + i] = rest[i]
  BY <1>3, StackExit
<1>5. PICK n \in {0, 1}, m \in {1, 2} :
         /\ DOMAIN calls' = 1..(m + Len(rest))
         /\ calls'[n + 1] = Call("drainCallbacks", e)
         /\ n = 1 => calls'[1] = Call("stopPreview", e)
         /\ errored => m = n + 1
         /\ ~errored => n = 0 /\ m = 2 /\ calls'[2] = Call("reconcile", e)
         /\ \A i \in 1..Len(rest) : calls'[m + i] = rest[i]
  BY <1>4
<1>6. /\ DOMAIN calls' = 1..(m + Len(calls) - 1)
      /\ \A i \in 1..(Len(calls) - 1) : calls'[m + i] = calls[i + 1]
  BY <1>2, <1>3, <1>5
<1>7. \A i \in DOMAIN calls' : i > m => i + 1 - m \in DOMAIN calls /\ calls'[i] = calls[i + 1 - m]
  <2>1. ASSUME NEW i \in DOMAIN calls', i > m
        PROVE  i + 1 - m \in DOMAIN calls /\ calls'[i] = calls[i + 1 - m]
    <3>1. /\ i - m \in 1..(Len(calls) - 1) /\ m + (i - m) = i /\ (i - m) + 1 = i + 1 - m
          /\ i + 1 - m \in 1..Len(calls)
      BY <1>2, <1>6, <2>1
    <3>2. QED
      BY <3>1, <1>2, <1>6
  <2>2. QED
    BY <2>1
<1>8. \A i \in DOMAIN calls : i > 1 => i + m - 1 \in DOMAIN calls' /\ calls'[i + m - 1] = calls[i]
  <2>1. ASSUME NEW i \in DOMAIN calls, i > 1
        PROVE  i + m - 1 \in DOMAIN calls' /\ calls'[i + m - 1] = calls[i]
    <3>1. /\ i - 1 \in 1..(Len(calls) - 1) /\ m + (i - 1) = i + m - 1 /\ (i - 1) + 1 = i
          /\ i + m - 1 \in 1..(m + Len(calls) - 1)
      BY <1>2, <2>1
    <3>2. QED
      BY <3>1, <1>6
  <2>2. QED
    BY <2>1
<1>9. \A i \in 1..m : i \in DOMAIN calls'
        /\ calls'[i].op \in {"stopPreview", "drainCallbacks", "reconcile"}
  <2>1. /\ Call("stopPreview", e).op = "stopPreview" /\ Call("reconcile", e).op = "reconcile"
        /\ Call("drainCallbacks", e).op = "drainCallbacks"
    BY DEF Call
  <2>2. \A i \in 1..m : i \in DOMAIN calls' /\ i \in {1, 2}
    BY <1>2, <1>6
  <2>3. \A i \in 1..m :
          calls'[i] \in {Call("stopPreview", e), Call("drainCallbacks", e), Call("reconcile", e)}
    BY <1>5
  <2>4. QED
    BY <2>1, <2>2, <2>3
<1>10. QED
  BY <1>7, <1>8, <1>9 DEF Moves

(***************************************************************************)
(* Who will release the job                                                *)
(***************************************************************************)
\* Near the top: where a step can take what releases the job from, and put it.
Near(e, top) == Fetches(e) \/ Stops(e) \/ top

\* What is deeper on the stack only moves; near the top, one thing follows on one.
LEMMA HolderStep ==
  ASSUME Typed, Typed', NEW e \in Exts, OneHolder(e), NEW n \in Nat, Moves(n),
         NEW top \in BOOLEAN, top <=> n >= 1 /\ Claim(1, e)',
         \A i \in DOMAIN calls' : i \in 2..n => ~Claim(i, e)',
         Len(pendingStop'[e].cbs) <= 1,
         ~(Fetches(e)' /\ Stops(e)') /\ (top => ~Fetches(e)' /\ ~Stops(e)'),
         IF jobActive[e] /\ ~Near(e, Claim(1, e))
         THEN jobActive'[e] /\ ~(Fetches(e)' \/ Stops(e)' \/ top)
         ELSE jobActive'[e] <=> Fetches(e)' \/ Stops(e)' \/ top
  PROVE  OneHolder(e)'
<1>1. /\ DOMAIN calls \subseteq Int /\ \A i \in DOMAIN calls : i >= 1
      /\ DOMAIN calls' \subseteq Int /\ \A i \in DOMAIN calls' : i >= 1
  <2>1. /\ calls \in Seq(GoodFrame) /\ calls' \in Seq(GoodFrame)
    BY DEF Typed
  <2>2. QED
    BY <2>1, LenProperties
<1>2. \A i \in DOMAIN calls' : i > n /\ Claim(i, e)' => i + 1 - n \in DOMAIN calls /\ Claim(i + 1 - n, e)
  BY DEF Moves, Claim, WillRelease
<1>3. \A i \in DOMAIN calls : i > 1 /\ Claim(i, e) => i + n - 1 \in DOMAIN calls' /\ Claim(i + n - 1, e)'
  BY DEF Moves, Claim, WillRelease
<1>4. \A i \in DOMAIN calls' : Claim(i, e)' /\ ~(i > n) => i = 1 /\ top
  <2>1. ASSUME NEW i \in DOMAIN calls', Claim(i, e)', ~(i > n)
        PROVE  i = 1 /\ top
    <3>1. i = 1 \/ i \in 2..n
      BY <1>1, <2>1
    <3>2. i = 1
      BY <2>1, <3>1
    <3>3. n >= 1
      BY <2>1, <3>2
    <3>4. QED
      BY <2>1, <3>2, <3>3
  <2>2. QED
    BY <2>1
<1>5. CASE jobActive[e] /\ ~Near(e, Claim(1, e))
  <2>1. ~Fetches(e)' /\ ~Stops(e)' /\ ~top /\ jobActive'[e]
    BY <1>5
  <2>2. PICK i \in DOMAIN calls : Claim(i, e)
    BY <1>5 DEF OneHolder, Near
  <2>3. i > 1
    BY <1>1, <1>5, <2>2 DEF Near
  <2>4. i + n - 1 \in DOMAIN calls' /\ Claim(i + n - 1, e)'
    BY <1>3, <2>2, <2>3
  <2>5. ASSUME NEW j \in DOMAIN calls', Claim(j, e)'
        PROVE  j = i + n - 1
    <3>1. j > n /\ j + 1 - n \in DOMAIN calls /\ Claim(j + 1 - n, e)
      BY <1>2, <1>4, <2>1, <2>5
    <3>2. j + 1 - n = i
      BY <2>2, <3>1 DEF OneHolder
    <3>3. j \in Int /\ i \in Int
      BY <1>1
    <3>4. QED
      BY <3>2, <3>3
  <2>6. QED
    BY <2>1, <2>4, <2>5 DEF OneHolder
<1>6. CASE ~(jobActive[e] /\ ~Near(e, Claim(1, e)))
  <2>1. \A i \in DOMAIN calls : i > 1 => ~Claim(i, e)
    <3>1. ASSUME NEW i \in DOMAIN calls, i > 1, Claim(i, e)
          PROVE  FALSE
      <4>1. jobActive[e] /\ ~Fetches(e) /\ ~Stops(e)
        BY <3>1 DEF OneHolder
      <4>2. Claim(1, e)
        BY <1>6, <4>1 DEF Near
      <4>3. 1 \in DOMAIN calls
        BY <4>2 DEF Claim
      <4>4. i = 1
        BY <3>1, <4>2, <4>3 DEF OneHolder
      <4>5. QED
        BY <3>1, <4>4
    <3>2. QED
      BY <3>1
  <2>2. \A i \in DOMAIN calls' : Claim(i, e)' => i = 1 /\ top
    <3>1. ASSUME NEW i \in DOMAIN calls', Claim(i, e)', i > n
          PROVE  FALSE
      <4>1. i + 1 - n \in DOMAIN calls /\ Claim(i + 1 - n, e) /\ i + 1 - n > 1
        BY <1>1, <1>2, <3>1
      <4>2. QED
        BY <2>1, <4>1
    <3>2. QED
      BY <1>4, <3>1
  <2>3. top => 1 \in DOMAIN calls' /\ Claim(1, e)'
    BY DEF Claim
  <2>4. jobActive'[e] <=> Fetches(e)' \/ Stops(e)' \/ top
    BY <1>6
  <2>5. jobActive'[e] <=> Fetches(e)' \/ Stops(e)' \/ \E i \in DOMAIN calls' : Claim(i, e)'
    BY <2>2, <2>3, <2>4
  <2>6. QED
    BY <2>2, <2>5 DEF OneHolder
<1>7. QED
  BY <1>5, <1>6

\* An id whose job the step does not touch.
LEMMA HolderRests ==
  ASSUME Typed, Typed', NEW e \in Exts, OneHolder(e), NEW n \in Nat, Moves(n),
         fetching'[e] = fetching[e], pendingStop'[e] = pendingStop[e], jobActive'[e] = jobActive[e],
         ~Claim(1, e),
         \A i \in DOMAIN calls' : i \in 1..n => ~Claim(i, e)'
  PROVE  OneHolder(e)'
<1>1. \A i \in DOMAIN calls' : i \in 2..n => ~Claim(i, e)'
  BY DEF Claim
<1>2. ~(n >= 1 /\ Claim(1, e)')
  <2>1. n >= 1 => 1 \in 1..n
    OBVIOUS
  <2>2. QED
    BY <2>1 DEF Claim
<1>3. (Fetches(e)' <=> Fetches(e)) /\ (Stops(e)' <=> Stops(e))
  BY DEF Fetches, Stops
<1>4. ~(Fetches(e)' /\ Stops(e)') /\ Len(pendingStop'[e].cbs) <= 1
  BY <1>3 DEF OneHolder
<1>5. jobActive[e] /\ ~Near(e, Claim(1, e)) => jobActive'[e] /\ ~(Fetches(e)' \/ Stops(e)' \/ FALSE)
  BY <1>3 DEF Near
<1>6. ~(jobActive[e] /\ ~Near(e, Claim(1, e))) => (jobActive'[e] <=> Fetches(e)' \/ Stops(e)' \/ FALSE)
  BY <1>3 DEF Near, OneHolder
<1> DEFINE top == FALSE
<1>7. /\ top \in BOOLEAN /\ (top <=> n >= 1 /\ Claim(1, e)')
      /\ top => ~Fetches(e)' /\ ~Stops(e)'
      /\ IF jobActive[e] /\ ~Near(e, Claim(1, e))
         THEN jobActive'[e] /\ ~(Fetches(e)' \/ Stops(e)' \/ top)
         ELSE jobActive'[e] <=> Fetches(e)' \/ Stops(e)' \/ top
  BY <1>2, <1>5, <1>6
<1> HIDE DEF top
<1>8. QED
  BY <1>1, <1>4, <1>7, HolderStep

\* A step that hands no job on.
LEMMA NoClaims ==
  ASSUME Typed, Typed', Held, UNCHANGED <<fetching, pendingStop, jobActive>>,
         NEW n \in Nat, Moves(n), calls # <<>> => ~WillRelease(Head(calls)),
         \A i \in DOMAIN calls' : i \in 1..n => ~WillRelease(calls'[i])
  PROVE  Held'
<1>1. SUFFICES ASSUME NEW e \in Exts PROVE OneHolder(e)'
  BY DEF Held
<1>2. OneHolder(e)
  BY DEF Held
<1>3. ~Claim(1, e)
  BY Positions DEF Claim
<1>4. \A i \in DOMAIN calls' : i \in 1..n => ~Claim(i, e)'
  BY DEF Claim, WillRelease
<1>5. QED
  BY <1>2, <1>3, <1>4, HolderRests

\* A step that hands on the job of one id.
LEMMA HandedOn ==
  ASSUME Typed, Typed', Held, NEW e \in Exts, NEW n \in Nat, Moves(n),
         calls # <<>> => Head(calls).ext = e,
         \A f \in Exts \ {e} : /\ fetching'[f] = fetching[f] /\ pendingStop'[f] = pendingStop[f]
                               /\ jobActive'[f] = jobActive[f],
         \A i \in DOMAIN calls' : i \in 1..n => calls'[i].ext = e,
         OneHolder(e)'
  PROVE  Held'
<1>1. SUFFICES ASSUME NEW f \in Exts, f # e PROVE OneHolder(f)'
  BY DEF Held
<1>2. OneHolder(f)
  BY DEF Held
<1>3. ~Claim(1, f)
  BY <1>1, Positions DEF Claim
<1>4. \A i \in DOMAIN calls' : i \in 1..n => ~Claim(i, f)'
  BY <1>1 DEF Claim
<1>5. QED
  BY <1>1, <1>2, <1>3, <1>4, HolderRests

\* A step changes the jobs of e only.
Only(e) ==
  \A f \in Exts \ {e} : /\ fetching'[f] = fetching[f] /\ pendingStop'[f] = pendingStop[f]
                        /\ jobActive'[f] = jobActive[f]

TopClaims == calls # <<>> /\ WillRelease(Head(calls))

\* One thing near the top is followed by one, of which a call made is one.
Follows(e, made) ==
  /\ Len(pendingStop'[e].cbs) <= 1
  /\ ~(Fetches(e)' /\ Stops(e)') /\ (made => ~Fetches(e)' /\ ~Stops(e)')
  /\ IF jobActive[e] /\ ~Near(e, TopClaims)
     THEN jobActive'[e] /\ ~(Fetches(e)' \/ Stops(e)' \/ made)
     ELSE jobActive'[e] <=> Fetches(e)' \/ Stops(e)' \/ made

\* The call on top, or an event, goes on as n calls for e, the first of which may
\* be the one to release its job.
LEMMA HandOn ==
  ASSUME Typed, Typed', Held, NEW e \in Exts, Only(e), NEW n \in {0, 1, 2}, Moves(n),
         calls # <<>> => Head(calls).ext = e,
         n >= 1 => 1 \in DOMAIN calls' /\ calls'[1].ext = e,
         n = 2 => 2 \in DOMAIN calls' /\ calls'[2].ext = e /\ ~WillRelease(calls'[2]),
         NEW made \in BOOLEAN, made <=> n >= 1 /\ WillRelease(calls'[1]), Follows(e, made)
  PROVE  Held'
<1>1. n \in Nat
  OBVIOUS
<1>2. TopClaims <=> Claim(1, e)
  BY Positions DEF Claim, TopClaims
<1>3. Near(e, TopClaims) <=> Near(e, Claim(1, e))
  BY <1>2 DEF Near
<1>4. made <=> n >= 1 /\ Claim(1, e)'
  BY DEF Claim, WillRelease
<1>5. \A i \in DOMAIN calls' : i \in 2..n => ~Claim(i, e)'
  <2>1. \A i \in 2..n : i = 2 /\ n = 2
    OBVIOUS
  <2>2. QED
    BY <2>1 DEF Claim, WillRelease
<1>6. OneHolder(e)
  BY DEF Held
<1>7. /\ Len(pendingStop'[e].cbs) <= 1
      /\ ~(Fetches(e)' /\ Stops(e)') /\ (made => ~Fetches(e)' /\ ~Stops(e)')
      /\ IF jobActive[e] /\ ~Near(e, Claim(1, e))
         THEN jobActive'[e] /\ ~(Fetches(e)' \/ Stops(e)' \/ made)
         ELSE jobActive'[e] <=> Fetches(e)' \/ Stops(e)' \/ made
  BY <1>3 DEF Follows
<1>8. OneHolder(e)'
  BY <1>1, <1>4, <1>5, <1>6, <1>7, HolderStep
<1>9. \A i \in DOMAIN calls' : i \in 1..n => calls'[i].ext = e
  <2>1. \A i \in 1..n : (i = 1 /\ n >= 1) \/ (i = 2 /\ n = 2)
    OBVIOUS
  <2>2. QED
    BY <2>1
<1>10. \A f \in Exts \ {e} : /\ fetching'[f] = fetching[f] /\ pendingStop'[f] = pendingStop[f]
                             /\ jobActive'[f] = jobActive[f]
  BY DEF Only
<1>11. QED
  BY <1>1, <1>8, <1>9, <1>10, HandedOn

LEMMA HandsBack ==
  ASSUME Typed, Typed', Held, NEW e \in Exts, Only(e), Moves(0),
         calls # <<>> => Head(calls).ext = e, Follows(e, FALSE)
  PROVE  Held'
<1> DEFINE n == 0
           made == FALSE
<1>1. n \in {0, 1, 2} /\ Moves(n) /\ ~(n >= 1) /\ n # 2
  OBVIOUS
<1>2. made \in BOOLEAN /\ ~made /\ Follows(e, made)
  OBVIOUS
<1> HIDE DEF n, made
<1>3. QED
  BY <1>1, <1>2, HandOn

LEMMA HandsToOne ==
  ASSUME Typed, Typed', Held, NEW e \in Exts, Only(e), Moves(1),
         calls # <<>> => Head(calls).ext = e, 1 \in DOMAIN calls', calls'[1].ext = e,
         NEW made \in BOOLEAN, made <=> WillRelease(calls'[1]), Follows(e, made)
  PROVE  Held'
<1> DEFINE n == 1
<1>1. n \in {0, 1, 2} /\ Moves(n) /\ n >= 1 /\ n # 2
  OBVIOUS
<1> HIDE DEF n
<1>2. QED
  BY <1>1, HandOn

\* What is known of an id whose job the call on top holds, or nothing near does.
LEMMA TopHolds ==
  ASSUME Typed, Held, calls # <<>>, WillRelease(Head(calls)), NEW e \in Exts, Head(calls).ext = e
  PROVE  jobActive[e] /\ ~Fetches(e) /\ ~Stops(e)
BY Positions DEF Held, OneHolder, Claim

LEMMA CallClaims ==
  ASSUME NEW e
  PROVE  /\ \A op \in Callback : WillRelease(Call(op, e)) /\ Call(op, e).ext = e /\ Call(op, e).op = op
         /\ \A cb \in Callback : /\ WillRelease(CallWith("stop", e, cb)) /\ CallWith("stop", e, cb).ext = e
                                 /\ CallWith("stop", e, cb).op = "stop"
         /\ \A k \in JobKind : WillRelease(CallWith("job", e, k)) /\ CallWith("job", e, k).ext = e
         /\ \A k : ~WillRelease(CallWith("enqueue", e, k))
         /\ \A op \in Op \ (Callback \cup {"job"}) : ~WillRelease(Call(op, e)) /\ Call(op, e).ext = e
         /\ \A op \in {"start", "boot"} : \A r : ~WillRelease(CallRec(op, e, r))
         /\ \A p : ~WillRelease(CallProc("pollExit", e, p)) /\ CallProc("pollExit", e, p).ext = e
BY DEF WillRelease, Call, CallWith, CallRec, CallProc, Callback, JobKind, Op

LEMMA DrainCallbacksHeld == Typed /\ Typed' /\ Orderly /\ Held /\ DrainCallbacks => Held'
<1> SUFFICES ASSUME Typed, Typed', Orderly, Held, DrainCallbacks PROVE Held'
  OBVIOUS
<1>1. PICK e \in Exts : e = Head(calls).ext /\ calls # <<>> /\ Head(calls).op = "drainCallbacks"
  BY TopTyped DEF DrainCallbacks, Running
<1>2. /\ UNCHANGED <<fetching, jobActive>> /\ pendingStop' = [pendingStop EXCEPT ![e] = NoStop]
      /\ Becomes([i \in DOMAIN pendingStop[e].cbs |-> Call(pendingStop[e].cbs[i], e)])
  BY <1>1 DEF DrainCallbacks, jobVars
<1>3. PICK cbs \in Seq(Callback) : cbs = pendingStop[e].cbs /\ Len(cbs) <= 1
  BY DEF Held, OneHolder, Typed, TypeOK
<1>4. Only(e) /\ pendingStop'[e].cbs = <<>>
  BY <1>2 DEF Only, Typed, TypeOK, NoStop
<1>5. /\ ~Stops(e)' /\ (Fetches(e)' <=> Fetches(e)) /\ Len(pendingStop'[e].cbs) <= 1
      /\ jobActive'[e] = jobActive[e]
  BY <1>2, <1>4, EmptySeq DEF Stops, Fetches
<1>6. ~TopClaims
  BY <1>1 DEF TopClaims, WillRelease, Callback
<1>7. CASE cbs = <<>>
  <2>1. Becomes(<<>>)
    BY <1>2, <1>3, <1>7
  <2>2. Moves(0)
    <3>1. <<>> \in Seq(GoodFrame) /\ Len(<<>>) = 0
      BY EmptySeq
    <3>2. QED
      BY <1>1, <2>1, <3>1, BecomesMoves
  <2>3. ~Stops(e)
    BY <1>3, <1>7 DEF Stops
  <2>4. Follows(e, FALSE)
    BY <1>5, <1>6, <2>3 DEF Follows, Near, Held, OneHolder
  <2> QED
    BY <1>1, <1>4, <2>2, <2>4, HandsBack
<1>8. CASE cbs # <<>>
  <2>1. PICK cb \in Callback : cbs = <<cb>>
    BY <1>3, <1>8
  <2>2. Becomes(<<Call(cb, e)>>)
    BY <1>2, <1>3, <2>1
  <2>3. Call(cb, e) \in GoodFrame
    BY CallGood DEF Op, Callback
  <2>4. Moves(1) /\ 1 \in DOMAIN calls' /\ calls'[1] = Call(cb, e)
    BY <1>1, <2>2, <2>3, OneMoves
  <2>5. WillRelease(calls'[1]) /\ calls'[1].ext = e
    <3>1. WillRelease(Call(cb, e)) /\ Call(cb, e).ext = e
      BY CallClaims
    <3>2. QED
      BY <2>4, <3>1
  <2>6. Stops(e) /\ ~Fetches(e) /\ jobActive[e]
    BY <1>3, <1>8 DEF Held, OneHolder, Stops
  <2>7. Follows(e, TRUE)
    BY <1>5, <2>6 DEF Follows, Near
  <2>8. TRUE <=> WillRelease(calls'[1])
    BY <2>5
  <2> QED
    BY <1>1, <1>4, <2>4, <2>5, <2>7, <2>8, HandsToOne
<1> QED
  BY <1>7, <1>8

\* Operations whose call holds no job, and that go on as calls that hold none.
LEMMA PassesHeld ==
  ASSUME Typed, Typed', Held, UNCHANGED <<fetching, pendingStop, jobActive>>,
         calls # <<>>, ~WillRelease(Head(calls)),
         Return \/ \E c \in GoodFrame : Becomes(<<c>>) /\ ~WillRelease(c)
  PROVE  Held'
<1>1. CASE Return
  <2> DEFINE n == 0
  <2>1. n \in Nat /\ Moves(n) /\ \A i \in DOMAIN calls' : i \in 1..n => ~WillRelease(calls'[i])
    BY <1>1, ReturnMoves
  <2> HIDE DEF n
  <2>2. QED
    BY <2>1, NoClaims
<1>2. CASE \E c \in GoodFrame : Becomes(<<c>>) /\ ~WillRelease(c)
  <2>1. PICK c \in GoodFrame : Becomes(<<c>>) /\ ~WillRelease(c)
    BY <1>2
  <2> DEFINE n == 1
  <2>2. n \in Nat /\ Moves(n) /\ calls'[1] = c /\ \A i \in 1..n : i = 1
    BY <2>1, OneMoves
  <2> HIDE DEF n
  <2>3. \A i \in DOMAIN calls' : i \in 1..n => ~WillRelease(calls'[i])
    BY <2>1, <2>2
  <2>4. QED
    BY <2>2, <2>3, NoClaims
<1> QED
  BY <1>1, <1>2

LEMMA ReconcileHeld == Typed /\ Typed' /\ Held /\ Reconcile => Held'
<1> SUFFICES ASSUME Typed, Typed', Held, Reconcile PROVE Held'
  OBVIOUS
<1>1. PICK e \in Exts : e = Head(calls).ext /\ calls # <<>> /\ Head(calls).op = "reconcile"
  BY TopTyped DEF Reconcile, Running
<1>2. UNCHANGED <<fetching, pendingStop, jobActive>>
  BY DEF Reconcile, lifeVars, jobVars
<1>3. ~WillRelease(Head(calls))
  BY <1>1 DEF WillRelease, Callback
<1>4. PICK r \in Rec : r = Get(e)
  BY RegistryTyped
<1>5. Return \/ Becomes(<<CallRec("start", e, r)>>) \/ Becomes(<<Call("stop", e)>>)
  BY <1>1, <1>4 DEF Reconcile
<1>6. /\ CallRec("start", e, r) \in GoodFrame /\ ~WillRelease(CallRec("start", e, r))
      /\ Call("stop", e) \in GoodFrame /\ ~WillRelease(Call("stop", e))
  <2>1. "stop" \in Op \ (Callback \cup {"job"}) /\ "stop" \in Op \ {"enqueue", "job", "pollExit"}
    BY DEF Op, Callback
  <2>2. QED
    BY <2>1, CallGood, CallRecGood, CallClaims
<1>7. QED
  BY <1>1, <1>2, <1>3, <1>5, <1>6, PassesHeld

LEMMA EnqueueHeld == Typed /\ Typed' /\ Held /\ Enqueue => Held'
<1> SUFFICES ASSUME Typed, Typed', Held, Enqueue PROVE Held'
  OBVIOUS
<1>1. PICK e \in Exts : e = Head(calls).ext /\ calls # <<>> /\ Head(calls).op = "enqueue"
  BY TopTyped DEF Enqueue, Running
<1>2. UNCHANGED <<fetching, pendingStop, jobActive>> /\ Becomes(<<Call("runNext", e)>>)
  BY <1>1 DEF Enqueue, lifeVars
<1>3. ~WillRelease(Head(calls))
  BY <1>1 DEF WillRelease, Callback
<1>4. Call("runNext", e) \in GoodFrame /\ ~WillRelease(Call("runNext", e))
  BY CallGood, CallClaims DEF Op, Callback
<1>5. QED
  BY <1>1, <1>2, <1>3, <1>4, PassesHeld

LEMMA RunNextHeld == Typed /\ Typed' /\ Held /\ RunNext => Held'
<1> SUFFICES ASSUME Typed, Typed', Held, RunNext PROVE Held'
  OBVIOUS
<1>1. PICK e \in Exts : e = Head(calls).ext /\ calls # <<>> /\ Head(calls).op = "runNext"
  BY TopTyped DEF RunNext, Running
<1>2. UNCHANGED <<fetching, pendingStop, jobActive>> /\ (Return \/ Becomes(<<Call("drain", e)>>))
  BY <1>1 DEF RunNext, lifeVars
<1>3. ~WillRelease(Head(calls))
  BY <1>1 DEF WillRelease, Callback
<1>4. Call("drain", e) \in GoodFrame /\ ~WillRelease(Call("drain", e))
  BY CallGood, CallClaims DEF Op, Callback
<1>5. QED
  BY <1>1, <1>2, <1>3, <1>4, PassesHeld

LEMMA StopPreviewHeld == Typed /\ Typed' /\ Held /\ StopPreview => Held'
<1> SUFFICES ASSUME Typed, Typed', Held, StopPreview PROVE Held'
  OBVIOUS
<1>1. calls # <<>> /\ Head(calls).op = "stopPreview"
  BY DEF StopPreview, Running
<1>2. /\ UNCHANGED <<fetching, pendingStop, jobActive>>
      /\ Return \/ (preview # NoPreview /\ Becomes(<<CallWith("enqueue", preview.ext, "restart")>>))
  BY DEF StopPreview, lifeVars, jobVars
<1>3. ~WillRelease(Head(calls))
  BY <1>1 DEF WillRelease, Callback
<1>4. preview # NoPreview =>
        /\ CallWith("enqueue", preview.ext, "restart") \in GoodFrame
        /\ ~WillRelease(CallWith("enqueue", preview.ext, "restart"))
  BY CallWithGood, CallClaims DEF Typed, Op, JobKind
<1>5. QED
  BY <1>1, <1>2, <1>3, <1>4, PassesHeld

LEMMA BootHeld == Typed /\ Typed' /\ Held /\ Boot => Held'
<1> SUFFICES ASSUME Typed, Typed', Held, Boot PROVE Held'
  OBVIOUS
<1>1. PICK e \in Exts : e = Head(calls).ext /\ calls # <<>> /\ Head(calls).op = "boot"
  BY TopTyped DEF Boot, Running
<1>2. PICK r \in Rec : r = Head(calls).rec
  BY <1>1, TopTyped DEF GoodFrame, Frame
<1>3. UNCHANGED <<fetching, pendingStop, jobActive>> /\ (Return \/ Becomes(<<CallRec("start", e, r)>>))
  BY <1>1, <1>2 DEF Boot, lifeVars, jobVars
<1>4. ~WillRelease(Head(calls))
  BY <1>1 DEF WillRelease, Callback
<1>5. CallRec("start", e, r) \in GoodFrame /\ ~WillRelease(CallRec("start", e, r))
  BY CallRecGood, CallClaims
<1>6. QED
  BY <1>1, <1>3, <1>4, <1>5, PassesHeld

\* The exit handler's calls hold no job.
LEMMA ExitHeld ==
  ASSUME Typed, Typed', Held, calls # <<>>, ~WillRelease(Head(calls)),
         UNCHANGED <<fetching, pendingStop, jobActive>>,
         NEW e \in Exts, NEW r \in Rec, NEW errored \in BOOLEAN, HandleExit(e, r, errored, Tail(calls))
  PROVE  Held'
<1>1. PICK m \in {1, 2} : Moves(m) /\
        \A i \in 1..m : i \in DOMAIN calls' /\ calls'[i].op \in {"stopPreview", "drainCallbacks", "reconcile"}
  BY ExitMoves
<1>2. \A i \in DOMAIN calls' : i \in 1..m => ~WillRelease(calls'[i])
  BY <1>1 DEF WillRelease, Callback
<1>3. m \in Nat
  OBVIOUS
<1>4. QED
  BY <1>1, <1>2, <1>3, NoClaims

LEMMA StartHeld == Typed /\ Typed' /\ Held /\ Start => Held'
<1> SUFFICES ASSUME Typed, Typed', Held, Start PROVE Held'
  OBVIOUS
<1>1. PICK e \in Exts : e = Head(calls).ext /\ calls # <<>> /\ Head(calls).op = "start"
  BY TopTyped DEF Start, Running
<1>2. PICK r \in Rec : r = Head(calls).rec
  BY <1>1, TopTyped DEF GoodFrame, Frame
<1>3. UNCHANGED <<fetching, pendingStop, jobActive>> /\ (Return \/ HandleExit(e, r, TRUE, Tail(calls)))
  BY <1>1, <1>2 DEF Start, jobVars
<1>4. ~WillRelease(Head(calls))
  BY <1>1 DEF WillRelease, Callback
<1>5. QED
  BY <1>1, <1>3, <1>4, PassesHeld, ExitHeld

LEMMA PollExitHeld == Typed /\ Typed' /\ Held /\ PollExit => Held'
<1> SUFFICES ASSUME Typed, Typed', Held, PollExit PROVE Held'
  OBVIOUS
<1>1. calls # <<>> /\ Head(calls).op = "pollExit" /\ Head(calls).proc \in Procs
  BY TopTyped DEF PollExit, Running, GoodFrame
<1>2. PICK p \in Procs : p = Head(calls).proc
  BY <1>1
<1>3. UNCHANGED <<fetching, pendingStop, jobActive>> /\ (Return \/ ExitOf(p, Tail(calls)))
  BY <1>2 DEF PollExit, jobVars
<1>4. ~WillRelease(Head(calls))
  BY <1>1 DEF WillRelease, Callback
<1>5. CASE ExitOf(p, Tail(calls))
  <2>1. /\ procs[p].ext \in Exts /\ procs[p].rec \in Rec
        /\ HandleExit(procs[p].ext, procs[p].rec, ~procs[p].aborted, Tail(calls))
    BY <1>5 DEF ExitOf, Typed, TypeOK, Proc
  <2>2. PICK f \in Exts, r \in Rec, errored \in BOOLEAN : HandleExit(f, r, errored, Tail(calls))
    <3>1. (~procs[p].aborted) \in BOOLEAN
      OBVIOUS
    <3>2. QED
      BY <2>1, <3>1
  <2>3. QED
    BY <1>1, <1>3, <1>4, <2>2, ExitHeld
<1>6. QED
  BY <1>1, <1>3, <1>4, <1>5, PassesHeld

\* A registered process is not being stopped: nothing waits for its exit.
LEMMA StopHeld == Typed /\ Typed' /\ Orderly /\ Held /\ Stop => Held'
<1> SUFFICES ASSUME Typed, Typed', Orderly, Held, Stop PROVE Held'
  OBVIOUS
<1>1. PICK e \in Exts : e = Head(calls).ext /\ calls # <<>> /\ Head(calls).op = "stop"
  BY TopTyped DEF Stop, Running
<1>2. PICK a \in Callback \cup {"none"} : a = Head(calls).arg
  BY <1>1, TopTyped DEF GoodFrame
<1>3. PICK cbs \in Seq(Callback) : cbs = IF a = "none" THEN <<>> ELSE <<a>>
  <2>1. <<>> \in Seq(Callback)
    BY EmptySeq
  <2>2. a # "none" => a \in Callback /\ <<a>> \in Seq(Callback)
    OBVIOUS
  <2>3. QED
    BY <2>1, <2>2
<1>4. /\ (a = "none" <=> cbs = <<>>) /\ Len(cbs) <= 1
      /\ (a # "none" => a \in Callback /\ cbs = <<a>>)
  BY <1>3
<1>5. TopClaims <=> cbs # <<>>
  BY <1>1, <1>2, <1>4 DEF TopClaims, WillRelease, Callback
<1>6. TopClaims => jobActive[e] /\ ~Fetches(e) /\ ~Stops(e)
  BY <1>1, TopHolds DEF TopClaims
<1>7. /\ UNCHANGED <<fetching, jobActive>> /\ (Fetches(e)' <=> Fetches(e))
      /\ pendingStop \in [Exts -> [on: BOOLEAN, cbs: Seq(Callback)]]
  BY DEF Stop, jobVars, Fetches, Typed, TypeOK
<1>8. Stops(e) \/ Fetches(e) => jobActive[e]
  BY DEF Held, OneHolder
<1>9. ~(Fetches(e) /\ Stops(e)) /\ Len(pendingStop[e].cbs) <= 1
  BY DEF Held, OneHolder
<1>10. CASE runtime[e] # 0 \/ pendingStop[e].on
  <2>1. /\ \/ Return \/ (runtime[e] # 0 /\ Becomes(<<CallProc("pollExit", e, runtime[e])>>))
        /\ pendingStop' = IF runtime[e] # 0 THEN [pendingStop EXCEPT ![e] = [on |-> TRUE, cbs |-> cbs]]
                          ELSE [pendingStop EXCEPT ![e].cbs = @ \o cbs]
    BY <1>1, <1>2, <1>3, <1>10 DEF Stop
  <2>2. Only(e)
    BY <1>7, <2>1 DEF Only
  <2>3. IF TopClaims \/ runtime[e] # 0 THEN pendingStop'[e].cbs = cbs
        ELSE pendingStop'[e].cbs = pendingStop[e].cbs
    <3>1. CASE runtime[e] # 0
      BY <1>7, <2>1, <3>1
    <3>2. CASE runtime[e] = 0 /\ TopClaims
      <4>1. pendingStop[e].cbs = <<>>
        BY <1>6, <3>2 DEF Stops
      <4>2. <<>> \o cbs = cbs
        BY ConcatEmptySeq
      <4>3. pendingStop'[e].cbs = pendingStop[e].cbs \o cbs
        BY <1>7, <2>1, <3>2
      <4>4. QED
        BY <3>2, <4>1, <4>2, <4>3
    <3>3. CASE runtime[e] = 0 /\ ~TopClaims
      <4>1. cbs = <<>>
        BY <1>5, <3>3
      <4>2. PICK old \in Seq(Callback) : old = pendingStop[e].cbs
        BY <1>7
      <4>3. old \o <<>> = old
        BY ConcatEmptySeq
      <4>4. pendingStop'[e].cbs = old \o cbs
        BY <1>7, <2>1, <3>3, <4>2
      <4>5. QED
        BY <3>3, <4>1, <4>2, <4>3, <4>4
    <3> QED
      BY <3>1, <3>2, <3>3
  <2>4. runtime[e] # 0 => ~Stops(e)
    BY DEF Orderly, Owned, Stops
  <2>5. /\ Len(pendingStop'[e].cbs) <= 1
        /\ Stops(e)' <=> TopClaims \/ Stops(e)
    BY <1>4, <1>5, <1>6, <1>9, <2>3, <2>4 DEF Stops
  <2>6. Follows(e, FALSE)
    BY <1>6, <1>7, <1>8, <1>9, <2>5 DEF Follows, Near
  <2>7. CASE Return
    BY <1>1, <2>2, <2>6, <2>7, ReturnMoves, HandsBack
  <2>8. CASE runtime[e] # 0 /\ Becomes(<<CallProc("pollExit", e, runtime[e])>>)
    <3>1. PICK p \in Procs : p = runtime[e]
      BY <2>8, BoundsAssumption DEF Typed, TypeOK, Procs
    <3>2. CallProc("pollExit", e, p) \in GoodFrame
      BY CallProcGood
    <3>3. Moves(1) /\ 1 \in DOMAIN calls' /\ calls'[1] = CallProc("pollExit", e, p)
      BY <1>1, <2>8, <3>1, <3>2, OneMoves
    <3>4. ~WillRelease(CallProc("pollExit", e, p)) /\ CallProc("pollExit", e, p).ext = e
      BY CallClaims
    <3>5. FALSE <=> WillRelease(calls'[1])
      BY <3>3, <3>4
    <3>6. calls'[1].ext = e
      BY <3>3, <3>4
    <3> QED
      BY <1>1, <2>2, <2>6, <3>3, <3>5, <3>6, HandsToOne
  <2> QED
    BY <2>1, <2>7, <2>8
<1>11. CASE runtime[e] = 0 /\ ~pendingStop[e].on
  <2>1. UNCHANGED pendingStop /\ Becomes([i \in DOMAIN cbs |-> Call(cbs[i], e)])
    BY <1>1, <1>2, <1>3, <1>11 DEF Stop
  <2>2. Only(e) /\ (Stops(e)' <=> Stops(e)) /\ Len(pendingStop'[e].cbs) <= 1
    BY <1>7, <1>9, <2>1 DEF Only, Stops
  <2>3. ~Stops(e)
    BY <1>11 DEF Orderly, Owned, Stops
  <2>4. CASE a = "none"
    <3>1. Becomes(<<>>)
      BY <1>4, <2>1, <2>4
    <3>2. <<>> \in Seq(GoodFrame) /\ Len(<<>>) = 0
      BY EmptySeq
    <3>3. Moves(0)
      BY <1>1, <3>1, <3>2, BecomesMoves
    <3>4. Follows(e, FALSE)
      BY <1>4, <1>5, <1>7, <1>8, <1>9, <2>2, <2>4 DEF Follows, Near
    <3> QED
      BY <1>1, <2>2, <3>3, <3>4, HandsBack
  <2>5. CASE a # "none"
    <3>1. a \in Callback /\ Becomes(<<Call(a, e)>>)
      BY <1>4, <2>1, <2>5
    <3>2. Call(a, e) \in GoodFrame
      BY <3>1, CallGood DEF Op, Callback
    <3>3. Moves(1) /\ 1 \in DOMAIN calls' /\ calls'[1] = Call(a, e)
      BY <1>1, <3>1, <3>2, OneMoves
    <3>4. WillRelease(Call(a, e)) /\ Call(a, e).ext = e
      BY <3>1, CallClaims
    <3>5. TRUE <=> WillRelease(calls'[1])
      BY <3>3, <3>4
    <3>6. calls'[1].ext = e
      BY <3>3, <3>4
    <3>7. Follows(e, TRUE)
      BY <1>4, <1>5, <1>6, <1>7, <2>2, <2>5 DEF Follows, Near
    <3> QED
      BY <1>1, <2>2, <3>3, <3>5, <3>6, <3>7, HandsToOne
  <2> QED
    BY <2>4, <2>5
<1> QED
  BY <1>10, <1>11

\* The loop takes a job, which holds the id until its call goes on.
LEMMA DrainHeld == Typed /\ Typed' /\ Held /\ Drain => Held'
<1> SUFFICES ASSUME Typed, Typed', Held, Drain PROVE Held'
  OBVIOUS
<1>1. PICK e \in Exts : e = Head(calls).ext /\ calls # <<>> /\ Head(calls).op = "drain"
  BY TopTyped DEF Drain, Running
<1>2. UNCHANGED <<fetching, pendingStop>>
  BY DEF Drain, lifeVars
<1>3. ~WillRelease(Head(calls)) /\ ~TopClaims
  BY <1>1 DEF TopClaims, WillRelease, Callback
<1>4. CASE ~jobActive[e] /\ jobs[e] # <<>>
  <2>1. PICK k \in JobKind : k = Head(jobs[e])
    <3>1. jobs[e] \in Seq(JobKind)
      BY DEF Typed, TypeOK
    <3>2. QED
      BY <1>4, <3>1, HeadTailProperties
  <2>2. /\ jobActive' = [jobActive EXCEPT ![e] = TRUE]
        /\ Becomes(<<CallWith("job", e, k), Call("drain", e)>>)
    BY <1>1, <1>4, <2>1 DEF Drain
  <2>3. /\ CallWith("job", e, k) \in GoodFrame /\ WillRelease(CallWith("job", e, k))
        /\ CallWith("job", e, k).ext = e
    <3>1. "job" \in Op /\ "job" # "stop" /\ "job" # "pollExit"
      BY DEF Op
    <3>2. QED
      BY <3>1, CallWithGood, CallClaims
  <2>4. Call("drain", e) \in GoodFrame /\ ~WillRelease(Call("drain", e)) /\ Call("drain", e).ext = e
    <3>1. "drain" \in Op \ {"enqueue", "job", "pollExit"} /\ "drain" \in Op \ (Callback \cup {"job"})
      BY DEF Op, Callback
    <3>2. QED
      BY <3>1, CallGood, CallClaims
  <2>5. /\ Moves(2) /\ 1 \in DOMAIN calls' /\ 2 \in DOMAIN calls'
        /\ calls'[1] = CallWith("job", e, k) /\ calls'[2] = Call("drain", e)
    BY <1>1, <2>2, <2>3, <2>4, TwoMoves
  <2>6. /\ calls'[1].ext = e /\ calls'[2].ext = e /\ ~WillRelease(calls'[2]) /\ WillRelease(calls'[1])
    BY <2>3, <2>4, <2>5
  <2>7. Only(e) /\ jobActive'[e]
    BY <1>2, <2>2 DEF Only, Typed, TypeOK
  <2>8. /\ ~Stops(e) /\ ~Fetches(e) /\ Len(pendingStop[e].cbs) <= 1
    BY <1>4 DEF Held, OneHolder
  <2>9. ~Stops(e)' /\ ~Fetches(e)' /\ Len(pendingStop'[e].cbs) <= 1
    BY <1>2, <2>8 DEF Stops, Fetches
  <2> DEFINE n == 2
             made == TRUE
  <2>10. n \in {0, 1, 2} /\ Moves(n) /\ n >= 1
    BY <2>5
  <2>11. made \in BOOLEAN /\ made /\ Follows(e, made)
    BY <1>4, <2>7, <2>9 DEF Follows
  <2> HIDE DEF n, made
  <2>12. made <=> n >= 1 /\ WillRelease(calls'[1])
    BY <2>6, <2>10, <2>11
  <2> QED
    BY <1>1, <2>5, <2>6, <2>7, <2>10, <2>11, <2>12, HandOn
<1>5. CASE jobActive[e] \/ jobs[e] = <<>>
  <2>1. UNCHANGED jobActive /\ (Return \/ Becomes(<<Call("reconcile", e)>>))
    BY <1>1, <1>5 DEF Drain
  <2>2. Call("reconcile", e) \in GoodFrame /\ ~WillRelease(Call("reconcile", e))
    <3>1. "reconcile" \in Op \ {"enqueue", "job", "pollExit"} /\ "reconcile" \in Op \ (Callback \cup {"job"})
      BY DEF Op, Callback
    <3>2. QED
      BY <3>1, CallGood, CallClaims
  <2>3. QED
    BY <1>1, <1>2, <1>3, <2>1, <2>2, PassesHeld
<1> QED
  BY <1>4, <1>5

\* One call that claims takes over from one near the top.
LEMMA Relays ==
  ASSUME Typed, Typed', Held, NEW e \in Exts, calls # <<>> => Head(calls).ext = e,
         UNCHANGED <<pendingStop, jobActive>>, Only(e), jobActive[e], ~Stops(e),
         Near(e, TopClaims), ~Fetches(e)',
         Moves(1), 1 \in DOMAIN calls', calls'[1].ext = e, WillRelease(calls'[1])
  PROVE  Held'
<1>1. ~Stops(e)' /\ jobActive'[e] /\ Len(pendingStop'[e].cbs) <= 1
  BY DEF Stops, Held, OneHolder
<1> DEFINE made == TRUE
<1>2. made \in BOOLEAN /\ (made <=> WillRelease(calls'[1])) /\ Follows(e, made)
  BY <1>1 DEF Follows
<1> HIDE DEF made
<1>3. QED
  BY <1>2, HandsToOne

LEMMA JobHeld == Typed /\ Typed' /\ Held /\ Job => Held'
<1> SUFFICES ASSUME Typed, Typed', Held, Job PROVE Held'
  OBVIOUS
<1>1. PICK e \in Exts : e = Head(calls).ext /\ calls # <<>> /\ Head(calls).op = "job"
  BY TopTyped DEF Job, Running
<1>2. UNCHANGED <<pendingStop, jobActive>>
  BY DEF Job, lifeVars
<1>3. WillRelease(Head(calls)) /\ TopClaims /\ Near(e, TopClaims)
  BY <1>1 DEF TopClaims, WillRelease, Near
<1>4. jobActive[e] /\ ~Fetches(e) /\ ~Stops(e)
  BY <1>1, <1>3, TopHolds
<1>5. PICK k : k = Locate(e).kind /\ k \in Kinds
  BY RegistryTyped DEF Rec
<1>6. \/ /\ \E x \in Kinds \cup {"user"} : fetching' = [fetching EXCEPT ![e] = x] /\ x # "none"
         /\ Return
      \/ UNCHANGED fetching /\ Becomes(<<Call("release", e)>>)
      \/ UNCHANGED fetching /\ Becomes(<<Call("remove", e)>>)
      \/ UNCHANGED fetching /\ Becomes(<<CallWith("stop", e, "release")>>)
      \/ UNCHANGED fetching /\ Becomes(<<CallWith("stop", e, "remove")>>)
  <2>1. k # "none" \/ Locate(e) = NoRec
    BY <1>5 DEF Locate, NoRec
  <2>2. QED
    BY <1>1, <1>5, <2>1 DEF Job, StopExtension
<1>7. CASE \E x \in Kinds \cup {"user"} : fetching' = [fetching EXCEPT ![e] = x] /\ x # "none" /\ Return
  <2>1. Fetches(e)' /\ Only(e)
    BY <1>2, <1>7 DEF Fetches, Only, Typed, TypeOK
  <2>2. ~Stops(e)' /\ jobActive'[e] /\ Len(pendingStop'[e].cbs) <= 1
    BY <1>2, <1>4 DEF Stops, Held, OneHolder
  <2>3. Follows(e, FALSE)
    BY <1>3, <2>1, <2>2 DEF Follows
  <2>4. Moves(0)
    BY <1>1, <1>7, ReturnMoves
  <2> QED
    BY <1>1, <2>1, <2>3, <2>4, HandsBack
<1>8. CASE UNCHANGED fetching /\ \E c \in GoodFrame : Becomes(<<c>>) /\ WillRelease(c) /\ c.ext = e
  <2>1. PICK c \in GoodFrame : Becomes(<<c>>) /\ WillRelease(c) /\ c.ext = e
    BY <1>8
  <2>2. Moves(1) /\ 1 \in DOMAIN calls' /\ calls'[1] = c
    BY <1>1, <2>1, OneMoves
  <2>3. calls'[1].ext = e /\ WillRelease(calls'[1])
    BY <2>1, <2>2
  <2>4. Only(e) /\ ~Fetches(e)'
    BY <1>2, <1>4, <1>8 DEF Only, Fetches
  <2> QED
    BY <1>1, <1>2, <1>3, <1>4, <2>2, <2>3, <2>4, Relays
<1>9. \A cb \in Callback : /\ Call(cb, e) \in GoodFrame /\ WillRelease(Call(cb, e)) /\ Call(cb, e).ext = e
                           /\ CallWith("stop", e, cb) \in GoodFrame /\ WillRelease(CallWith("stop", e, cb))
                           /\ CallWith("stop", e, cb).ext = e
  <2>1. \A cb \in Callback : cb \in Op \ {"enqueue", "job", "pollExit"}
    BY DEF Callback, Op
  <2>2. \A cb \in Callback : Call(cb, e) \in GoodFrame
    BY <2>1, CallGood
  <2>3. QED
    BY <2>2, CallClaims, StopCalls
<1>10. "release" \in Callback /\ "remove" \in Callback
  BY DEF Callback
<1> QED
  BY <1>6, <1>7, <1>8, <1>9, <1>10

\* The release of the active job leaves nothing that would release it again.
LEMMA ReleaseHeld == Typed /\ Typed' /\ Held /\ Release => Held'
<1> SUFFICES ASSUME Typed, Typed', Held, Release PROVE Held'
  OBVIOUS
<1>1. PICK e \in Exts : e = Head(calls).ext /\ calls # <<>> /\ Head(calls).op = "release"
  BY TopTyped DEF Release, Running
<1>2. /\ UNCHANGED <<pendingStop, fetching>> /\ jobActive' = [jobActive EXCEPT ![e] = FALSE]
      /\ Becomes(<<Call("runNext", e)>>)
  BY <1>1 DEF Release, lifeVars
<1>3. WillRelease(Head(calls)) /\ TopClaims /\ Near(e, TopClaims)
  BY <1>1 DEF TopClaims, WillRelease, Near, Callback
<1>4. jobActive[e] /\ ~Fetches(e) /\ ~Stops(e)
  BY <1>1, <1>3, TopHolds
<1>5. Only(e) /\ ~jobActive'[e]
  BY <1>2 DEF Only, Typed, TypeOK
<1>6. ~Fetches(e)' /\ ~Stops(e)' /\ Len(pendingStop'[e].cbs) <= 1
  BY <1>2, <1>4 DEF Stops, Fetches, Held, OneHolder
<1>7. Follows(e, FALSE)
  BY <1>3, <1>5, <1>6 DEF Follows
<1>8. /\ Call("runNext", e) \in GoodFrame /\ ~WillRelease(Call("runNext", e)) /\ Call("runNext", e).ext = e
  <2>1. "runNext" \in Op \ {"enqueue", "job", "pollExit"} /\ "runNext" \in Op \ (Callback \cup {"job"})
    BY DEF Op, Callback
  <2>2. QED
    BY <2>1, CallGood, CallClaims
<1>9. Moves(1) /\ 1 \in DOMAIN calls' /\ calls'[1] = Call("runNext", e)
  BY <1>1, <1>2, <1>8, OneMoves
<1>10. calls'[1].ext = e /\ (FALSE <=> WillRelease(calls'[1]))
  BY <1>8, <1>9
<1> QED
  BY <1>1, <1>5, <1>7, <1>9, <1>10, HandsToOne

\* The files are replaced or not; either way the job is released next.
LEMMA FilesHeld == Typed /\ Typed' /\ Held /\ (Swap \/ Remove) => Held'
<1> SUFFICES ASSUME Typed, Typed', Held, Swap \/ Remove PROVE Held'
  OBVIOUS
<1>1. PICK e \in Exts : e = Head(calls).ext /\ calls # <<>> /\ Head(calls).op \in {"swap", "remove"}
  BY TopTyped DEF Swap, Remove, Running
<1>2. UNCHANGED <<pendingStop, jobActive, fetching>> /\ Becomes(<<Call("release", e)>>)
  BY <1>1 DEF Swap, Remove, lifeVars, jobVars
<1>3. WillRelease(Head(calls)) /\ TopClaims /\ Near(e, TopClaims)
  BY <1>1 DEF TopClaims, WillRelease, Near, Callback
<1>4. jobActive[e] /\ ~Fetches(e) /\ ~Stops(e)
  BY <1>1, <1>3, TopHolds
<1>5. Only(e) /\ ~Fetches(e)'
  BY <1>2, <1>4 DEF Only, Fetches
<1>6. /\ Call("release", e) \in GoodFrame /\ WillRelease(Call("release", e)) /\ Call("release", e).ext = e
  <2>1. "release" \in Op \ {"enqueue", "job", "pollExit"} /\ "release" \in Callback
    BY DEF Op, Callback
  <2>2. QED
    BY <2>1, CallGood, CallClaims
<1>7. Moves(1) /\ 1 \in DOMAIN calls' /\ calls'[1] = Call("release", e)
  BY <1>1, <1>2, <1>6, OneMoves
<1>8. calls'[1].ext = e /\ WillRelease(calls'[1])
  BY <1>6, <1>7
<1> QED
  BY <1>1, <1>2, <1>3, <1>4, <1>5, <1>7, <1>8, Relays

\* The calls that events other than the end of a download make.
Opening == {"boot", "reconcile", "enqueue", "stopPreview", "drainCallbacks"}

LEMMA PreviewCalls ==
  ASSUME Typed, NEW e \in Exts, NEW k \in 1..MaxPreviews, PreviewExt(e, k)
  PROVE  \A i \in DOMAIN calls' : calls'[i].op \in Opening
<1>1. calls' = (IF preview # NoPreview /\ preview.ext # e
                THEN <<CallWith("enqueue", preview.ext, "restart")>> ELSE <<>>)
               \o <<CallWith("enqueue", e, "restart")>>
  BY DEF PreviewExt
<1> DEFINE a == CallWith("enqueue", preview.ext, "restart")
           b == CallWith("enqueue", e, "restart")
<1>2. a.op = "enqueue" /\ b.op = "enqueue" /\ b \in GoodFrame
  <2>1. b \in GoodFrame
    BY CallWithGood DEF Op, JobKind
  <2>2. QED
    BY <2>1 DEF CallWith, Call
<1>3. preview # NoPreview => a \in GoodFrame
  BY CallWithGood DEF Typed, Op, JobKind
<1> HIDE DEF a, b
<1>4. calls' = <<a, b>> \/ calls' = <<b>>
  <2>1. CASE preview # NoPreview /\ preview.ext # e
    <3>1. calls' = <<a>> \o <<b>>
      BY <1>1, <2>1 DEF a, b
    <3>2. QED
      BY <1>2, <1>3, <2>1, <3>1, TwoCalls
  <2>2. CASE ~(preview # NoPreview /\ preview.ext # e)
    <3>1. calls' = <<>> \o <<b>>
      BY <1>1, <2>2 DEF b
    <3>2. <<b>> \in Seq(GoodFrame)
      BY <1>2
    <3>3. QED
      BY <3>1, <3>2, ConcatEmptySeq
  <2>3. QED
    BY <2>1, <2>2
<1>5. QED
  BY <1>2, <1>4 DEF Opening

LEMMA ExitCalls ==
  ASSUME Typed, NEW e \in Exts, NEW r \in Rec, NEW errored \in BOOLEAN, HandleExit(e, r, errored, <<>>)
  PROVE  \A i \in DOMAIN calls' : calls'[i].op \in Opening
<1> DEFINE rest == <<>>
<1>1. rest \in Seq(GoodFrame) /\ HandleExit(e, r, errored, rest)
  BY EmptySeq
<1>0. Len(rest) = 0
  BY EmptySeq
<1> HIDE DEF rest
<1>2. \E n \in {0, 1}, m \in {1, 2} :
         /\ DOMAIN calls' = 1..(m + Len(rest))
         /\ calls'[n + 1] = Call("drainCallbacks", e)
         /\ n = 1 => calls'[1] = Call("stopPreview", e)
         /\ errored => m = n + 1
         /\ ~errored => n = 0 /\ m = 2 /\ calls'[2] = Call("reconcile", e)
         /\ \A i \in 1..Len(rest) : calls'[m + i] = rest[i]
  BY <1>1, StackExit
<1>3. PICK n \in {0, 1}, m \in {1, 2} :
         /\ DOMAIN calls' = 1..(m + Len(rest))
         /\ calls'[n + 1] = Call("drainCallbacks", e)
         /\ n = 1 => calls'[1] = Call("stopPreview", e)
         /\ errored => m = n + 1
         /\ ~errored => n = 0 /\ m = 2 /\ calls'[2] = Call("reconcile", e)
  BY <1>2
<1>4. \A i \in DOMAIN calls' : (i = 1 \/ i = 2) /\ (i = 2 => m = 2)
  BY <1>0, <1>3
<1>5. \A i \in DOMAIN calls' :
        calls'[i] \in {Call("stopPreview", e), Call("drainCallbacks", e), Call("reconcile", e)}
  BY <1>3, <1>4
<1>6. /\ Call("stopPreview", e).op = "stopPreview" /\ Call("reconcile", e).op = "reconcile"
      /\ Call("drainCallbacks", e).op = "drainCallbacks"
  BY DEF Call
<1>7. QED
  BY <1>5, <1>6 DEF Opening

LEMMA EventCalls ==
  ASSUME Typed, Event
  PROVE  /\ calls = <<>> /\ UNCHANGED <<pendingStop, jobs, jobActive>>
         /\ \/ \E e \in Exts : FetchDone(e)
            \/ UNCHANGED fetching /\ \A i \in DOMAIN calls' : calls'[i].op \in Opening
<1>1. CASE \E p \in Procs : ReportExit(p)
  <2>1. PICK p \in Procs : ReportExit(p)
    BY <1>1
  <2>2. calls = <<>> /\ ExitOf(p, <<>>) /\ UNCHANGED <<pendingStop, jobs, jobActive, fetching>>
    BY <2>1 DEF ReportExit, Idle, jobVars
  <2>3. procs[p].ext \in Exts /\ procs[p].rec \in Rec /\ (~procs[p].aborted) \in BOOLEAN
    BY <2>2 DEF ExitOf, Typed, TypeOK, Proc
  <2>4. HandleExit(procs[p].ext, procs[p].rec, ~procs[p].aborted, <<>>)
    BY <2>2 DEF ExitOf
  <2>5. PICK f \in Exts, r \in Rec, errored \in BOOLEAN : HandleExit(f, r, errored, <<>>)
    BY <2>3, <2>4
  <2>6. \A i \in DOMAIN calls' : calls'[i].op \in Opening
    BY <2>5, ExitCalls
  <2>7. QED
    BY <2>2, <2>6
<1>2. CASE StartExtensions
  <2>1. \A f, r : CallRec("boot", f, r).op = "boot"
    BY DEF CallRec, Call
  <2>2. \A i \in DOMAIN calls' : calls'[i].op = "boot"
    BY <1>2, <2>1 DEF StartExtensions
  <2>3. QED
    BY <1>2, <2>2 DEF StartExtensions, Idle, lifeVars, jobVars, Opening
<1>3. CASE \E e \in Exts :
             \/ \E enabled \in BOOLEAN : ToggleEnabled(e, enabled)
             \/ \E k \in {"install", "update", "uninstall"} : RequestJob(e, k)
             \/ Reload(e)
  <2>1. calls = <<>> /\ UNCHANGED <<pendingStop, jobs, jobActive, fetching>>
    BY <1>3 DEF ToggleEnabled, RequestJob, Reload, Request, Idle, lifeVars, jobVars
  <2>2. \A f, k : Call("reconcile", f).op = "reconcile" /\ CallWith("enqueue", f, k).op = "enqueue"
    BY DEF CallWith, Call
  <2>3. \/ \E f : calls' = <<Call("reconcile", f)>>
        \/ \E f, k : calls' = <<CallWith("enqueue", f, k)>>
    BY <1>3 DEF ToggleEnabled, RequestJob, Reload
  <2>4. \E c : calls' = <<c>> /\ c.op \in {"reconcile", "enqueue"}
    BY <2>2, <2>3
  <2>5. \A i \in DOMAIN calls' : calls'[i].op \in {"reconcile", "enqueue"}
    BY <2>4
  <2>6. QED
    BY <2>1, <2>5 DEF Opening
<1>4. CASE \E e \in Exts, k \in 1..MaxPreviews : PreviewExt(e, k)
  <2>1. calls = <<>> /\ UNCHANGED <<pendingStop, jobs, jobActive, fetching>>
    BY <1>4 DEF PreviewExt, Request, Idle, lifeVars, jobVars
  <2>2. QED
    BY <1>4, <2>1, PreviewCalls
<1>5. CASE RequestStopPreview
  <2>1. \A f : Call("stopPreview", f).op = "stopPreview"
    BY DEF Call
  <2>2. \A i \in DOMAIN calls' : calls'[i].op = "stopPreview"
    BY <1>5, <2>1 DEF RequestStopPreview
  <2>3. QED
    BY <1>5, <2>2 DEF RequestStopPreview, Request, Idle, lifeVars, jobVars, Opening
<1>6. CASE \E e \in Exts : FetchDone(e)
  BY <1>6 DEF FetchDone, Idle, lifeVars
<1>7. QED
  BY <1>1, <1>2, <1>3, <1>4, <1>5, <1>6 DEF Event

\* The end of a download makes the one call that will end its job.
LEMMA FetchCalls ==
  ASSUME Typed, Typed', NEW e \in Exts, FetchDone(e)
  PROVE  /\ Moves(1) /\ 1 \in DOMAIN calls' /\ DOMAIN calls' = {1}
         /\ calls'[1].ext = e /\ WillRelease(calls'[1])
         /\ \/ calls'[1].op \notin {"swap", "remove"}
            \/ calls'[1].op = "swap" /\ record[e].kind = "preview"
<1>1. \E c : calls' = <<c>> /\ \/ \E cb \in {"swap", "release"} : c = CallWith("stop", e, cb)
                               \/ record[e].kind = "preview" /\ c = Call("swap", e)
                               \/ c = Call("release", e)
  BY DEF FetchDone, StopExtension
<1>2. PICK c : calls' = <<c>> /\ \/ \E cb \in {"swap", "release"} : c = CallWith("stop", e, cb)
                                 \/ record[e].kind = "preview" /\ c = Call("swap", e)
                                 \/ c = Call("release", e)
  BY <1>1
<1>3. DOMAIN calls' = {1} /\ calls'[1] = c
  BY <1>2
<1>4. {"swap", "release"} \subseteq Callback /\ "release" \in Callback /\ "swap" \in Callback
  BY DEF Callback
<1>5. /\ c.ext = e /\ WillRelease(c)
      /\ c.op \notin {"swap", "remove"} \/ (c.op = "swap" /\ record[e].kind = "preview")
  BY <1>2, <1>4, CallClaims
<1>6. calls = <<>>
  BY DEF FetchDone, Idle
<1> DEFINE n == Len(calls')
<1>7. Moves(n) /\ n \in Nat /\ DOMAIN calls' = 1..n
  BY <1>6, EventMoves
<1> HIDE DEF n
<1>8. n = 1
  BY <1>3, <1>7
<1>9. Moves(1)
  BY <1>7, <1>8
<1>10. QED
  BY <1>3, <1>5, <1>9

LEMMA EventHeld == Typed /\ Typed' /\ Held /\ Event => Held'
<1> SUFFICES ASSUME Typed, Typed', Held, Event PROVE Held'
  OBVIOUS
<1>1. calls = <<>> /\ UNCHANGED <<pendingStop, jobActive>>
  BY EventCalls
<1>2. CASE \E e \in Exts : FetchDone(e)
  <2>1. PICK e \in Exts : FetchDone(e)
    BY <1>2
  <2>2. fetching[e] # "none" /\ fetching' = [fetching EXCEPT ![e] = "none"]
    BY <2>1 DEF FetchDone
  <2>3. Fetches(e) /\ ~Fetches(e)' /\ Only(e)
    BY <1>1, <2>2 DEF Fetches, Only, Typed, TypeOK
  <2>4. jobActive[e] /\ ~Stops(e) /\ Near(e, TopClaims)
    BY <2>3 DEF Held, OneHolder, Near
  <2>5. /\ Moves(1) /\ 1 \in DOMAIN calls' /\ calls'[1].ext = e /\ WillRelease(calls'[1])
    BY <2>1, FetchCalls
  <2>6. QED
    BY <1>1, <2>3, <2>4, <2>5, Relays
<1>3. CASE UNCHANGED fetching /\ \A i \in DOMAIN calls' : calls'[i].op \in Opening
  <2> DEFINE n == Len(calls')
  <2>1. Moves(n) /\ n \in Nat
    BY <1>1, EventMoves
  <2> HIDE DEF n
  <2>2. \A i \in DOMAIN calls' : i \in 1..n => ~WillRelease(calls'[i])
    BY <1>3 DEF Opening, WillRelease, Callback
  <2>3. QED
    BY <1>1, <1>3, <2>1, <2>2, NoClaims
<1> QED
  BY <1>2, <1>3, EventCalls

\* What does not touch the jobs and the stack.
LEMMA HeldRests == Held /\ UNCHANGED <<fetching, pendingStop, jobActive, calls>> => Held'
BY DEF Held, OneHolder, Fetches, Stops, Claim, WillRelease

LEMMA EnvironmentHeld == Held /\ Environment => Held'
BY HeldRests DEF Environment, Die, CliInstall, CliUninstall, Cli, lifeVars, jobVars

LEMMA InitHeld == Init => Held
<1> SUFFICES ASSUME Init PROVE Held
  OBVIOUS
<1>1. calls = <<>> /\ DOMAIN calls = {}
  BY EmptySeq DEF Init
<1>2. \A e \in Exts : fetching[e] = "none" /\ pendingStop[e].cbs = <<>> /\ ~jobActive[e]
  BY DEF Init, NoStop
<1>3. QED
  BY <1>1, <1>2, EmptySeq DEF Held, OneHolder, Fetches, Stops, Claim

LEMMA StepHeld == Typed /\ Typed' /\ Orderly /\ Held /\ Step => Held'
BY DrainCallbacksHeld, ReconcileHeld, StartHeld, StopHeld, PollExitHeld, EnqueueHeld, RunNextHeld,
   DrainHeld, JobHeld, ReleaseHeld, FilesHeld, StopPreviewHeld, BootHeld DEF Step

(***************************************************************************)
(* The record of the registered process                                    *)
(***************************************************************************)
SameRecs == \A p \in Procs : procs'[p].rec = procs[p].rec

LEMMA RecordedKept ==
  ASSUME Typed, Recorded, SameRecs, UNCHANGED <<runtime, record>>
  PROVE  Recorded'
<1>1. \A e \in Exts : runtime[e] # 0 => runtime[e] \in Procs
  BY DEF Typed, TypeOK, Procs
<1>2. QED
  BY <1>1 DEF Recorded, SameRecs

\* One id is not registered any more.
LEMMA RecordedDropped ==
  ASSUME Typed, Recorded, SameRecs, NEW e \in Exts,
         runtime' = [runtime EXCEPT ![e] = 0], record' = [record EXCEPT ![e] = NoRec]
  PROVE  Recorded'
<1>1. \A f \in Exts : runtime[f] # 0 => runtime[f] \in Procs
  BY DEF Typed, TypeOK, Procs
<1>2. \A f \in Exts : f # e => runtime'[f] = runtime[f] /\ record'[f] = record[f]
  BY DEF Typed, TypeOK
<1>3. runtime'[e] = 0 /\ record'[e] = NoRec
  BY DEF Typed, TypeOK
<1>4. QED
  BY <1>1, <1>2, <1>3 DEF Recorded, SameRecs

\* No field of a process but these is ever set after it was spawned.
LEMMA SetField ==
  ASSUME Typed, NEW p \in Procs,
         \/ \E s \in {"dead", "gone"} : procs' = [procs EXCEPT ![p].st = s]
         \/ procs' = [procs EXCEPT ![p].aborted = TRUE]
  PROVE  SameRecs
<1>1. procs \in [Procs -> Proc]
  BY DEF Typed, TypeOK
<1>2. \A q \in Proc : /\ [q EXCEPT !.st = "dead"].rec = q.rec /\ [q EXCEPT !.st = "gone"].rec = q.rec
                      /\ [q EXCEPT !.aborted = TRUE].rec = q.rec
  BY DEF Proc
<1>3. \A q \in Procs : q # p => procs'[q] = procs[q]
  BY <1>1
<1>4. \/ procs'[p] = [procs[p] EXCEPT !.st = "dead"] \/ procs'[p] = [procs[p] EXCEPT !.st = "gone"]
      \/ procs'[p] = [procs[p] EXCEPT !.aborted = TRUE]
  BY <1>1
<1>5. procs'[p].rec = procs[p].rec
  <2>1. PICK q \in Proc : q = procs[p]
    BY <1>1
  <2>2. QED
    BY <1>2, <1>4, <2>1
<1>6. QED
  BY <1>3, <1>5 DEF SameRecs

LEMMA StaleRecs == ASSUME Typed, NEW e, NEW kinds, procs' = MarkStale(e, kinds) PROVE SameRecs
<1>1. \A q \in Proc : [q EXCEPT !.stale = TRUE].rec = q.rec
  BY DEF Proc
<1>2. \A p \in Procs : procs[p] \in Proc
  BY DEF Typed, TypeOK
<1>3. QED
  BY <1>1, <1>2 DEF SameRecs, MarkStale

LEMMA SameRecsUnchanged == ASSUME UNCHANGED procs PROVE SameRecs
BY DEF SameRecs

LEMMA ExitRecorded ==
  ASSUME Typed, Recorded, SameRecs, NEW e \in Exts, NEW r, NEW errored \in BOOLEAN, NEW rest,
         HandleExit(e, r, errored, rest)
  PROVE  Recorded'
<1>1. CASE errored
  BY <1>1, RecordedDropped DEF HandleExit
<1>2. CASE ~errored
  BY <1>2, RecordedKept DEF HandleExit
<1>3. QED
  BY <1>1, <1>2

LEMMA ExitOfRecorded ==
  ASSUME Typed, Recorded, NEW p \in Procs, NEW rest, ExitOf(p, rest)
  PROVE  Recorded'
<1>1. procs[p].ext \in Exts /\ procs[p].rec \in Rec /\ (~procs[p].aborted) \in BOOLEAN
  BY DEF ExitOf, Typed, TypeOK, Proc
<1>2. SameRecs
  BY SetField DEF ExitOf
<1>3. HandleExit(procs[p].ext, procs[p].rec, ~procs[p].aborted, rest)
  BY DEF ExitOf
<1>4. PICK e \in Exts, r \in Rec, errored \in BOOLEAN : HandleExit(e, r, errored, rest)
  BY <1>1, <1>3
<1>5. QED
  BY <1>2, <1>4, ExitRecorded

LEMMA SpawnRecorded ==
  ASSUME Typed, Orderly, Recorded, NEW e \in Exts, NEW r \in Rec, runtime[e] = 0, Spawn(e, r)
  PROVE  Recorded'
<1> DEFINE new == [st |-> "alive", ext |-> e, rec |-> r, aborted |-> FALSE, stale |-> FALSE]
<1>1. PICK p \in Procs : /\ procs[p].st = "unused" /\ procs' = [procs EXCEPT ![p] = new]
                         /\ runtime' = [runtime EXCEPT ![e] = p]
  BY DEF Spawn
<1>2. new.rec = r /\ record' = [record EXCEPT ![e] = r]
  BY DEF Spawn
<1> HIDE DEF new
<1>3. /\ procs'[p] = new /\ \A q \in Procs : q # p => procs'[q] = procs[q]
      /\ runtime'[e] = p /\ \A f \in Exts : f # e => runtime'[f] = runtime[f]
      /\ record'[e] = r /\ \A f \in Exts : f # e => record'[f] = record[f]
  BY <1>1, <1>2 DEF Typed, TypeOK
<1>4. p # 0
  BY DEF Procs
<1>5. \A f \in Exts : runtime[f] # 0 => runtime[f] \in Procs /\ runtime[f] # p
  <2>1. \A f \in Exts : runtime[f] # 0 => runtime[f] \in Procs /\ Unreported(runtime[f])
    BY DEF Typed, TypeOK, Procs, Orderly, Owned
  <2>2. ~Unreported(p)
    BY <1>1 DEF Unreported
  <2>3. QED
    BY <2>1, <2>2
<1>6. QED
  BY <1>2, <1>3, <1>4, <1>5 DEF Recorded

LEMMA StartRecorded == Typed /\ Orderly /\ Recorded /\ Start => Recorded'
<1> SUFFICES ASSUME Typed, Orderly, Recorded, Start PROVE Recorded'
  OBVIOUS
<1>1. PICK e \in Exts, r \in Rec : e = Head(calls).ext /\ r = Head(calls).rec
  BY TopTyped DEF Start, Running
<1>2. \/ UNCHANGED <<runtime, record, procs>>
      \/ runtime[e] = 0 /\ Spawn(e, r)
      \/ HandleExit(e, r, TRUE, Tail(calls)) /\ UNCHANGED procs
  BY <1>1 DEF Start
<1>3. QED
  BY <1>2, SameRecsUnchanged, RecordedKept, SpawnRecorded, ExitRecorded

LEMMA StopRecorded == Typed /\ Recorded /\ Stop => Recorded'
<1> SUFFICES ASSUME Typed, Recorded, Stop PROVE Recorded'
  OBVIOUS
<1>1. PICK e \in Exts : e = Head(calls).ext
  BY TopTyped DEF Stop, Running
<1>2. CASE runtime[e] # 0
  <2>1. PICK p \in Procs : p = runtime[e]
    BY <1>2 DEF Typed, TypeOK, Procs
  <2>2. procs' = [procs EXCEPT ![p].aborted = TRUE] \/ UNCHANGED procs
    BY <1>1, <1>2, <2>1 DEF Stop
  <2>3. runtime' = [runtime EXCEPT ![e] = 0] /\ record' = [record EXCEPT ![e] = NoRec]
    BY <1>1, <1>2 DEF Stop
  <2>4. QED
    BY <2>2, <2>3, SetField, SameRecsUnchanged, RecordedDropped
<1>3. CASE runtime[e] = 0
  <2>1. UNCHANGED <<runtime, record, procs>>
    BY <1>1, <1>3 DEF Stop
  <2>2. QED
    BY <2>1, SameRecsUnchanged, RecordedKept
<1>4. QED
  BY <1>2, <1>3

LEMMA StepRecorded == Typed /\ Orderly /\ Recorded /\ Step => Recorded'
<1> SUFFICES ASSUME Typed, Orderly, Recorded, Step PROVE Recorded'
  OBVIOUS
<1>1. CASE Start
  BY <1>1, StartRecorded
<1>2. CASE Stop
  BY <1>2, StopRecorded
<1>3. CASE PollExit
  <2>1. PICK p \in Procs : p = Head(calls).proc
    BY <1>3, TopTyped DEF PollExit, Running, GoodFrame
  <2>2. ExitOf(p, Tail(calls)) \/ UNCHANGED <<runtime, record, procs>>
    BY <1>3, <2>1 DEF PollExit
  <2>3. QED
    BY <2>2, ExitOfRecorded, SameRecsUnchanged, RecordedKept
<1>4. CASE Swap \/ Remove
  <2>1. UNCHANGED <<runtime, record>> /\ (UNCHANGED procs \/ \E f, kinds : procs' = MarkStale(f, kinds))
    BY <1>4 DEF Swap, Remove, lifeVars
  <2>2. QED
    BY <2>1, SameRecsUnchanged, StaleRecs, RecordedKept
<1>5. CASE \/ DrainCallbacks \/ Reconcile \/ Enqueue \/ RunNext \/ Drain \/ Job \/ Release
           \/ StopPreview \/ Boot
  <2>1. UNCHANGED <<runtime, record, procs>>
    BY <1>5 DEF DrainCallbacks, Reconcile, Enqueue, RunNext, Drain, Job, Release, StopPreview, Boot, lifeVars
  <2>2. QED
    BY <2>1, SameRecsUnchanged, RecordedKept
<1>6. QED
  BY <1>1, <1>2, <1>3, <1>4, <1>5 DEF Step

LEMMA EventRecorded == Typed /\ Recorded /\ Event => Recorded'
<1> SUFFICES ASSUME Typed, Recorded, Event PROVE Recorded'
  OBVIOUS
<1>1. CASE \E p \in Procs : ReportExit(p)
  BY <1>1, ExitOfRecorded DEF ReportExit
<1>2. CASE ~ \E p \in Procs : ReportExit(p)
  <2>1. UNCHANGED <<runtime, record, procs>>
    BY <1>2 DEF Event, StartExtensions, RequestStopPreview, ToggleEnabled, RequestJob, Reload,
                FetchDone, PreviewExt, lifeVars
  <2>2. QED
    BY <2>1, SameRecsUnchanged, RecordedKept
<1>3. QED
  BY <1>1, <1>2

LEMMA EnvironmentRecs == Typed /\ Environment => SameRecs /\ UNCHANGED <<runtime, record>>
<1> SUFFICES ASSUME Typed, Environment PROVE SameRecs /\ UNCHANGED <<runtime, record>>
  OBVIOUS
<1>1. UNCHANGED <<runtime, record>>
  BY DEF Environment, Die, CliInstall, CliUninstall, Cli, lifeVars
<1>2. CASE \E p \in Procs : Die(p)
  BY <1>1, <1>2, SetField DEF Die
<1>3. CASE \E e \in Exts : CliInstall(e) \/ CliUninstall(e)
  BY <1>1, <1>3, StaleRecs DEF CliInstall, CliUninstall
<1>4. QED
  BY <1>2, <1>3 DEF Environment

\* The operating system and the command line spawn and report no process.
LEMMA EnvironmentSame == Typed /\ Environment => SameProcs
<1> SUFFICES ASSUME Typed, Environment PROVE SameProcs
  OBVIOUS
<1>1. CASE \E p \in Procs : Die(p)
  <2>1. \A r \in Proc : /\ [r EXCEPT !.st = "dead"].st = "dead" /\ [r EXCEPT !.st = "dead"].ext = r.ext
                        /\ [r EXCEPT !.st = "dead"].aborted = r.aborted
    BY DEF Proc
  <2>2. PICK p \in Procs : procs[p].st = "alive" /\ procs' = [procs EXCEPT ![p].st = "dead"]
    BY <1>1 DEF Die
  <2>3. procs[p] \in Proc /\ procs \in [Procs -> Proc]
    BY DEF Typed, TypeOK
  <2>4. procs'[p] = [procs[p] EXCEPT !.st = "dead"] /\ \A q \in Procs : q # p => procs'[q] = procs[q]
    BY <2>2, <2>3
  <2>5. QED
    BY <2>1, <2>2, <2>3, <2>4 DEF SameProcs, Unreported
<1>2. CASE \E e \in Exts : CliInstall(e) \/ CliUninstall(e)
  BY <1>2, SameProcsStale DEF CliInstall, CliUninstall
<1>3. QED
  BY <1>1, <1>2 DEF Environment

(***************************************************************************)
(* The copies on disk                                                      *)
(***************************************************************************)
\* What is deeper on the stack replaces no files.
LEMMA QuietStep ==
  ASSUME Typed, Typed', Quiet, NEW n \in Nat, Moves(n),
         \A i \in DOMAIN calls' : i \in 1..n /\ calls'[i].op \in {"swap", "remove"} =>
           i = 1 /\ \A p \in Procs : ~RunsCopy(p, calls[i].ext)'
  PROVE  Quiet'
<1>1. \A i \in DOMAIN calls' : i \in Int /\ i >= 1
  <2>1. calls' \in Seq(GoodFrame)
    BY DEF Typed
  <2>2. QED
    BY <2>1, LenProperties
<1>2. ASSUME NEW i \in DOMAIN calls', i > n
      PROVE  calls'[i].op \notin {"swap", "remove"}
  <2>1. i + 1 - n \in DOMAIN calls /\ calls'[i] = calls[i + 1 - n] /\ i + 1 - n # 1
    BY <1>1, <1>2 DEF Moves
  <2>2. QED
    BY <2>1 DEF Quiet
<1>3. \A i \in DOMAIN calls' : i > n \/ i \in 1..n
  BY <1>1
<1>4. QED
  BY <1>2, <1>3 DEF Quiet

LEMMA PassesQuiet ==
  ASSUME Typed, Typed', Quiet, calls # <<>>,
         \/ Return
         \/ \E c \in GoodFrame : Becomes(<<c>>) /\
              (c.op \in {"swap", "remove"} => \A p \in Procs : ~RunsCopy(p, c.ext)')
  PROVE  Quiet'
<1>1. CASE Return
  <2> DEFINE n == 0
  <2>1. n \in Nat /\ Moves(n) /\ \A i : ~(i \in 1..n)
    BY <1>1, ReturnMoves
  <2> HIDE DEF n
  <2>2. QED
    BY <2>1, QuietStep
<1>2. CASE \E c \in GoodFrame : Becomes(<<c>>) /\
              (c.op \in {"swap", "remove"} => \A p \in Procs : ~RunsCopy(p, c.ext)')
  <2>1. PICK c \in GoodFrame : Becomes(<<c>>) /\
              (c.op \in {"swap", "remove"} => \A p \in Procs : ~RunsCopy(p, c.ext)')
    BY <1>2
  <2> DEFINE n == 1
  <2>2. n \in Nat /\ Moves(n) /\ calls'[1] = c /\ \A i \in 1..n : i = 1
    BY <2>1, OneMoves
  <2> HIDE DEF n
  <2>3. \A i \in DOMAIN calls' : i \in 1..n /\ calls'[i].op \in {"swap", "remove"} =>
          i = 1 /\ \A p \in Procs : ~RunsCopy(p, calls[i].ext)'
    BY <2>1, <2>2 DEF RunsCopy, Unreported
  <2>4. QED
    BY <2>2, <2>3, QuietStep
<1> QED
  BY <1>1, <1>2

\* The record of a live preview says that no process runs from the installed copy.
LEMMA PreviewRunsAlone ==
  ASSUME Typed, Orderly, Recorded, NEW e \in Exts, record[e].kind = "preview"
  PROVE  \A p \in Procs : ~RunsCopy(p, e)
<1>1. runtime[e] # 0
  BY DEF Recorded, NoRec
<1>2. runtime[e] \in Procs /\ Unreported(runtime[e]) /\ procs[runtime[e]].ext = e
  BY <1>1 DEF Typed, TypeOK, Procs, Orderly, Owned
<1>3. procs[runtime[e]].rec.kind = "preview"
  BY <1>1 DEF Recorded
<1>4. \A p \in Procs : Unreported(p) /\ procs[p].ext = e => p = runtime[e]
  BY <1>2 DEF Orderly, OneProcess
<1>5. QED
  BY <1>3, <1>4 DEF RunsCopy

\* Operations that go on as one call that replaces no files.
LEMMA PlainQuiet ==
  Typed /\ Typed' /\ Quiet
  /\ (Reconcile \/ Enqueue \/ RunNext \/ Release \/ Swap \/ Remove \/ StopPreview \/ Boot) => Quiet'
<1> SUFFICES ASSUME Typed, Typed', Quiet,
                    Reconcile \/ Enqueue \/ RunNext \/ Release \/ Swap \/ Remove \/ StopPreview \/ Boot
             PROVE  Quiet'
  OBVIOUS
<1>1. calls # <<>>
  BY DEF Reconcile, Enqueue, RunNext, Release, Swap, Remove, StopPreview, Boot, Running
<1>2. PICK e \in Exts : e = Head(calls).ext
  BY <1>1, TopTyped
<1>3. PICK r \in Rec, s \in Rec : r = Get(e) /\ s = Head(calls).rec
  BY <1>1, TopTyped, RegistryTyped
<1>4. \/ Return
      \/ \E x \in Rec : Becomes(<<CallRec("start", e, x)>>)
      \/ \E op \in {"stop", "runNext", "drain", "release"} : Becomes(<<Call(op, e)>>)
      \/ preview # NoPreview /\ Becomes(<<CallWith("enqueue", preview.ext, "restart")>>)
  <2>1. CASE Reconcile
    BY <1>2, <1>3, <2>1 DEF Reconcile
  <2>2. CASE Enqueue \/ RunNext
    BY <1>2, <2>2 DEF Enqueue, RunNext
  <2>3. CASE Release \/ Swap \/ Remove
    BY <1>2, <2>3 DEF Release, Swap, Remove
  <2>4. CASE StopPreview
    BY <2>4 DEF StopPreview
  <2>5. CASE Boot
    BY <1>2, <1>3, <2>5 DEF Boot
  <2>6. QED
    BY <2>1, <2>2, <2>3, <2>4, <2>5
<1>5. \A x \in Rec : CallRec("start", e, x) \in GoodFrame /\ CallRec("start", e, x).op = "start"
  <2>1. \A x \in Rec : CallRec("start", e, x) \in GoodFrame
    BY CallRecGood
  <2>2. QED
    BY <2>1 DEF CallRec, Call
<1>6. \A op \in {"stop", "runNext", "drain", "release"} : Call(op, e) \in GoodFrame /\ Call(op, e).op = op
  <2>1. \A op \in {"stop", "runNext", "drain", "release"} : op \in Op \ {"enqueue", "job", "pollExit"}
    BY DEF Op, Callback
  <2>2. \A op \in {"stop", "runNext", "drain", "release"} : Call(op, e) \in GoodFrame
    BY <2>1, CallGood
  <2>3. QED
    BY <2>2 DEF Call
<1>7. preview # NoPreview =>
        /\ CallWith("enqueue", preview.ext, "restart") \in GoodFrame
        /\ CallWith("enqueue", preview.ext, "restart").op = "enqueue"
  <2>1. preview # NoPreview => CallWith("enqueue", preview.ext, "restart") \in GoodFrame
    BY CallWithGood DEF Typed, Op, JobKind
  <2>2. QED
    BY <2>1 DEF CallWith, Call
<1>8. Return \/ \E c \in GoodFrame : Becomes(<<c>>) /\ c.op \notin {"swap", "remove"}
  BY <1>4, <1>5, <1>6, <1>7
<1>9. QED
  BY <1>1, <1>8, PassesQuiet

LEMMA JobQuiet == Typed /\ Typed' /\ Orderly /\ Recorded /\ Quiet /\ Job => Quiet'
<1> SUFFICES ASSUME Typed, Typed', Orderly, Recorded, Quiet, Job PROVE Quiet'
  OBVIOUS
<1>1. PICK e \in Exts : e = Head(calls).ext /\ calls # <<>>
  BY TopTyped DEF Job, Running
<1>2. UNCHANGED procs
  BY DEF Job
<1>3. \/ Return
      \/ \E cb \in {"release", "remove"} : Becomes(<<CallWith("stop", e, cb)>>)
      \/ Becomes(<<Call("release", e)>>)
      \/ record[e].kind = "preview" /\ Becomes(<<Call("remove", e)>>)
  BY <1>1 DEF Job, StopExtension
<1>4. \A cb \in Callback : CallWith("stop", e, cb) \in GoodFrame /\ CallWith("stop", e, cb).op = "stop"
  BY StopCalls
<1>5. /\ Call("release", e) \in GoodFrame /\ Call("release", e).op = "release"
      /\ Call("remove", e) \in GoodFrame /\ Call("remove", e).ext = e
  BY JobCalls, CallClaims DEF Callback
<1>6. record[e].kind = "preview" => \A p \in Procs : ~RunsCopy(p, e)'
  BY <1>2, PreviewRunsAlone DEF RunsCopy, Unreported
<1>7. {"release", "remove"} \subseteq Callback
  BY DEF Callback
<1>8. Return \/ \E c \in GoodFrame : Becomes(<<c>>) /\
              (c.op \in {"swap", "remove"} => \A p \in Procs : ~RunsCopy(p, c.ext)')
  <2>1. CASE Return \/ \E cb \in {"release", "remove"} : Becomes(<<CallWith("stop", e, cb)>>)
    BY <1>4, <1>7, <2>1
  <2>2. CASE Becomes(<<Call("release", e)>>)
    BY <1>5, <2>2
  <2>3. CASE record[e].kind = "preview" /\ Becomes(<<Call("remove", e)>>)
    <3>1. PICK c \in GoodFrame : Becomes(<<c>>) /\ c.ext = e
      BY <1>5, <2>3
    <3>2. \A p \in Procs : ~RunsCopy(p, c.ext)'
      BY <1>6, <2>3, <3>1 DEF RunsCopy, Unreported
    <3>3. QED
      BY <3>1, <3>2
  <2>4. QED
    BY <1>3, <2>1, <2>2, <2>3
<1>9. QED
  BY <1>1, <1>8, PassesQuiet

\* Nothing to stop: no process of the id is left, so its files may be replaced.
LEMMA StopQuiet == Typed /\ Typed' /\ Orderly /\ Held /\ Quiet /\ Stop => Quiet'
<1> SUFFICES ASSUME Typed, Typed', Orderly, Held, Quiet, Stop PROVE Quiet'
  OBVIOUS
<1>1. PICK e \in Exts : e = Head(calls).ext /\ calls # <<>> /\ Head(calls).op = "stop"
  BY TopTyped DEF Stop, Running
<1>2. PICK a \in Callback \cup {"none"} : a = Head(calls).arg
  BY <1>1, TopTyped DEF GoodFrame
<1>3. \/ Return
      \/ runtime[e] # 0 /\ Becomes(<<CallProc("pollExit", e, runtime[e])>>)
      \/ /\ runtime[e] = 0 /\ ~pendingStop[e].on /\ UNCHANGED procs
         /\ Becomes([i \in DOMAIN (IF a = "none" THEN <<>> ELSE <<a>>)
                       |-> Call((IF a = "none" THEN <<>> ELSE <<a>>)[i], e)])
  BY <1>1, <1>2 DEF Stop
<1>4. CASE Return
  BY <1>1, <1>4, PassesQuiet
<1>5. CASE runtime[e] # 0 /\ Becomes(<<CallProc("pollExit", e, runtime[e])>>)
  <2>1. PICK p \in Procs : p = runtime[e]
    BY <1>5 DEF Typed, TypeOK, Procs
  <2>2. CallProc("pollExit", e, p) \in GoodFrame
    BY CallProcGood
  <2>3. CallProc("pollExit", e, p).op = "pollExit"
    BY DEF CallProc, Call
  <2>4. PICK c \in GoodFrame : Becomes(<<c>>) /\ c.op = "pollExit"
    BY <1>5, <2>1, <2>2, <2>3
  <2>5. QED
    BY <1>1, <2>4, PassesQuiet
<1>6. CASE /\ runtime[e] = 0 /\ ~pendingStop[e].on /\ UNCHANGED procs
           /\ Becomes([i \in DOMAIN (IF a = "none" THEN <<>> ELSE <<a>>)
                         |-> Call((IF a = "none" THEN <<>> ELSE <<a>>)[i], e)])
  <2>1. CASE a = "none"
    <3>1. Becomes(<<>>)
      BY <1>6, <2>1
    <3>2. <<>> \in Seq(GoodFrame) /\ Len(<<>>) = 0
      BY EmptySeq
    <3>3. Moves(0)
      BY <1>1, <3>1, <3>2, BecomesMoves
    <3> DEFINE n == 0
    <3>4. n \in Nat /\ Moves(n) /\ \A i : ~(i \in 1..n)
      BY <3>3
    <3> HIDE DEF n
    <3>5. QED
      BY <3>4, QuietStep
  <2>2. CASE a # "none"
    <3>1. a \in Callback /\ Becomes(<<Call(a, e)>>)
      BY <1>6, <2>2
    <3>2. Call(a, e) \in GoodFrame /\ Call(a, e).ext = e
      <4>1. a \in Op \ {"enqueue", "job", "pollExit"}
        BY <3>1 DEF Callback, Op
      <4>2. QED
        BY <3>1, <4>1, CallGood, CallClaims
    <3>3. \A p \in Procs : ~RunsCopy(p, e)'
      BY <1>6, NoneLeft DEF RunsCopy, Unreported
    <3>4. PICK c \in GoodFrame : Becomes(<<c>>) /\ c.ext = e
      BY <3>1, <3>2
    <3>5. \A p \in Procs : ~RunsCopy(p, c.ext)'
      BY <3>3, <3>4 DEF RunsCopy, Unreported
    <3>6. QED
      BY <1>1, <3>4, <3>5, PassesQuiet
  <2>3. QED
    BY <2>1, <2>2
<1> QED
  BY <1>3, <1>4, <1>5, <1>6

\* The callbacks run when the exit was handled: the stopped process is gone.
LEMMA DrainCallbacksQuiet == Typed /\ Typed' /\ Orderly /\ Held /\ Quiet /\ DrainCallbacks => Quiet'
<1> SUFFICES ASSUME Typed, Typed', Orderly, Held, Quiet, DrainCallbacks PROVE Quiet'
  OBVIOUS
<1>1. PICK e \in Exts : e = Head(calls).ext /\ calls # <<>> /\ Head(calls).op = "drainCallbacks"
  BY TopTyped DEF DrainCallbacks, Running
<1>2. PICK cbs \in Seq(Callback) : cbs = pendingStop[e].cbs /\ Len(cbs) <= 1
  BY DEF Held, OneHolder, Typed, TypeOK
<1>3. Becomes([i \in DOMAIN cbs |-> Call(cbs[i], e)]) /\ UNCHANGED procs
  BY <1>1, <1>2 DEF DrainCallbacks
<1>4. CASE cbs = <<>>
  <2>1. Becomes(<<>>)
    BY <1>3, <1>4
  <2>2. <<>> \in Seq(GoodFrame) /\ Len(<<>>) = 0
    BY EmptySeq
  <2>3. Moves(0)
    BY <1>1, <2>1, <2>2, BecomesMoves
  <2> DEFINE n == 0
  <2>4. n \in Nat /\ Moves(n) /\ \A i : ~(i \in 1..n)
    BY <2>3
  <2> HIDE DEF n
  <2>5. QED
    BY <2>4, QuietStep
<1>5. CASE cbs # <<>>
  <2>1. PICK cb \in Callback : cbs = <<cb>>
    BY <1>2, <1>5
  <2>2. Becomes(<<Call(cb, e)>>)
    BY <1>3, <2>1
  <2>3. Call(cb, e) \in GoodFrame /\ Call(cb, e).ext = e
    <3>1. cb \in Op \ {"enqueue", "job", "pollExit"}
      BY DEF Callback, Op
    <3>2. QED
      BY <3>1, CallGood, CallClaims
  <2>4. pendingStop[e].on /\ runtime[e] = 0
    BY <1>2, <1>5 DEF Orderly, Owned
  <2>5. Waiting(1) /\ 1 \in DOMAIN calls /\ calls[1].ext = e
    BY <1>1, Positions DEF Waiting
  <2>6. \A p \in Procs : ~RunsCopy(p, e)
    BY <2>4, <2>5 DEF Orderly, Handled, RunsCopy, Procs
  <2>7. PICK c \in GoodFrame : Becomes(<<c>>) /\ c.ext = e
    BY <2>2, <2>3
  <2>8. \A p \in Procs : ~RunsCopy(p, c.ext)'
    BY <1>3, <2>6, <2>7 DEF RunsCopy, Unreported
  <2>9. QED
    BY <1>1, <2>7, <2>8, PassesQuiet
<1> QED
  BY <1>4, <1>5

LEMMA ExitQuiet ==
  ASSUME Typed, Typed', Quiet, calls # <<>>, NEW e \in Exts, NEW r \in Rec, NEW errored \in BOOLEAN,
         HandleExit(e, r, errored, Tail(calls))
  PROVE  Quiet'
<1>1. PICK m \in {1, 2} : Moves(m) /\
        \A i \in 1..m : i \in DOMAIN calls' /\ calls'[i].op \in {"stopPreview", "drainCallbacks", "reconcile"}
  BY ExitMoves
<1>2. m \in Nat
  OBVIOUS
<1>3. \A i \in DOMAIN calls' : i \in 1..m => calls'[i].op \notin {"swap", "remove"}
  BY <1>1
<1>4. QED
  BY <1>1, <1>2, <1>3, QuietStep

LEMMA StartQuiet == Typed /\ Typed' /\ Quiet /\ Start => Quiet'
<1> SUFFICES ASSUME Typed, Typed', Quiet, Start PROVE Quiet'
  OBVIOUS
<1>1. PICK e \in Exts, r \in Rec : e = Head(calls).ext /\ r = Head(calls).rec /\ calls # <<>>
  BY TopTyped DEF Start, Running
<1>2. Return \/ HandleExit(e, r, TRUE, Tail(calls))
  BY <1>1 DEF Start
<1>3. QED
  BY <1>1, <1>2, PassesQuiet, ExitQuiet

LEMMA PollExitQuiet == Typed /\ Typed' /\ Quiet /\ PollExit => Quiet'
<1> SUFFICES ASSUME Typed, Typed', Quiet, PollExit PROVE Quiet'
  OBVIOUS
<1>1. PICK p \in Procs : p = Head(calls).proc /\ calls # <<>>
  BY TopTyped DEF PollExit, Running, GoodFrame
<1>2. Return \/ ExitOf(p, Tail(calls))
  BY <1>1 DEF PollExit
<1>3. CASE ExitOf(p, Tail(calls))
  <2>1. procs[p].ext \in Exts /\ procs[p].rec \in Rec /\ (~procs[p].aborted) \in BOOLEAN
    BY <1>3 DEF ExitOf, Typed, TypeOK, Proc
  <2>2. HandleExit(procs[p].ext, procs[p].rec, ~procs[p].aborted, Tail(calls))
    BY <1>3 DEF ExitOf
  <2>3. PICK f \in Exts, r \in Rec, errored \in BOOLEAN : HandleExit(f, r, errored, Tail(calls))
    BY <2>1, <2>2
  <2>4. QED
    BY <1>1, <2>3, ExitQuiet
<1>4. QED
  BY <1>1, <1>2, <1>3, PassesQuiet

LEMMA DrainQuiet == Typed /\ Typed' /\ Quiet /\ Drain => Quiet'
<1> SUFFICES ASSUME Typed, Typed', Quiet, Drain PROVE Quiet'
  OBVIOUS
<1>1. PICK e \in Exts : e = Head(calls).ext /\ calls # <<>>
  BY TopTyped DEF Drain, Running
<1>2. /\ Call("drain", e) \in GoodFrame /\ Call("reconcile", e) \in GoodFrame
      /\ Call("drain", e).op = "drain" /\ Call("reconcile", e).op = "reconcile"
  <2>1. Call("drain", e) \in GoodFrame /\ Call("reconcile", e) \in GoodFrame
    BY CallGood DEF Op
  <2>2. QED
    BY <2>1 DEF Call
<1>3. CASE ~jobActive[e] /\ jobs[e] # <<>>
  <2>1. PICK k \in JobKind : k = Head(jobs[e])
    <3>1. jobs[e] \in Seq(JobKind)
      BY DEF Typed, TypeOK
    <3>2. QED
      BY <1>3, <3>1, HeadTailProperties
  <2>2. Becomes(<<CallWith("job", e, k), Call("drain", e)>>)
    BY <1>1, <1>3, <2>1 DEF Drain
  <2>3. CallWith("job", e, k) \in GoodFrame /\ CallWith("job", e, k).op = "job"
    <3>1. "job" \in Op /\ "job" # "stop" /\ "job" # "pollExit"
      BY DEF Op
    <3>2. CallWith("job", e, k) \in GoodFrame
      BY <3>1, CallWithGood
    <3>3. QED
      BY <3>2 DEF CallWith, Call
  <2>4. Moves(2) /\ calls'[1] = CallWith("job", e, k) /\ calls'[2] = Call("drain", e)
    BY <1>1, <1>2, <2>2, <2>3, TwoMoves
  <2> DEFINE n == 2
  <2>5. n \in Nat /\ Moves(n) /\ \A i \in 1..n : i = 1 \/ i = 2
    BY <2>4
  <2> HIDE DEF n
  <2>6. \A i \in 1..n : calls'[i].op \notin {"swap", "remove"}
    BY <1>2, <2>3, <2>4, <2>5
  <2>7. QED
    BY <2>5, <2>6, QuietStep
<1>4. CASE jobActive[e] \/ jobs[e] = <<>>
  <2>1. Return \/ Becomes(<<Call("reconcile", e)>>)
    BY <1>1, <1>4 DEF Drain
  <2>2. Return \/ \E c \in GoodFrame : Becomes(<<c>>) /\ c.op \notin {"swap", "remove"}
    BY <1>2, <2>1
  <2>3. QED
    BY <1>1, <2>2, PassesQuiet
<1> QED
  BY <1>3, <1>4

LEMMA StepQuiet == Typed /\ Typed' /\ Orderly /\ Sound /\ Step => Quiet'
BY DrainCallbacksQuiet, StartQuiet, StopQuiet, PollExitQuiet, DrainQuiet, JobQuiet, PlainQuiet
   DEF Step, Sound

LEMMA EventQuiet == Typed /\ Typed' /\ Orderly /\ Recorded /\ Quiet /\ Event => Quiet'
<1> SUFFICES ASSUME Typed, Typed', Orderly, Recorded, Quiet, Event PROVE Quiet'
  OBVIOUS
<1>1. CASE \E e \in Exts : FetchDone(e)
  <2>1. PICK e \in Exts : FetchDone(e)
    BY <1>1
  <2>2. /\ DOMAIN calls' = {1} /\ calls'[1].ext = e
        /\ calls'[1].op \notin {"swap", "remove"} \/ (calls'[1].op = "swap" /\ record[e].kind = "preview")
    BY <2>1, FetchCalls
  <2>3. UNCHANGED procs
    BY <2>1 DEF FetchDone
  <2>4. record[e].kind = "preview" => \A p \in Procs : ~RunsCopy(p, e)
    BY PreviewRunsAlone
  <2>5. QED
    BY <2>2, <2>3, <2>4 DEF Quiet, RunsCopy, Unreported
<1>2. CASE \A i \in DOMAIN calls' : calls'[i].op \in Opening
  BY <1>2 DEF Quiet, Opening
<1>3. QED
  BY <1>1, <1>2, EventCalls

LEMMA EnvironmentQuiet == Typed /\ Quiet /\ Environment => Quiet'
<1> SUFFICES ASSUME Typed, Quiet, Environment PROVE Quiet'
  OBVIOUS
<1>1. UNCHANGED calls
  BY DEF Environment, Die, CliInstall, CliUninstall, Cli
<1>2. SameRecs /\ SameProcs
  BY EnvironmentRecs, EnvironmentSame
<1>3. QED
  BY <1>1, <1>2 DEF Quiet, RunsCopy, SameRecs, SameProcs, Unreported

LEMMA InitSound == Init => Sound
<1> SUFFICES ASSUME Init PROVE Sound
  OBVIOUS
<1>1. Held
  BY InitHeld
<1>2. Recorded
  BY DEF Init, Recorded
<1>3. calls = <<>> /\ DOMAIN calls = {}
  BY EmptySeq DEF Init
<1>4. QED
  BY <1>1, <1>2, <1>3 DEF Sound, Quiet

LEMMA NextSound == (Typed /\ Orderly) /\ (Typed /\ Orderly)' /\ Sound /\ [Next]_vars => Sound'
<1> SUFFICES ASSUME Typed, Orderly, Typed', Sound, [Next]_vars PROVE Sound'
  OBVIOUS
<1>1. CASE Step
  BY <1>1, StepHeld, StepRecorded, StepQuiet DEF Sound
<1>2. CASE Event
  BY <1>2, EventHeld, EventRecorded, EventQuiet DEF Sound
<1>3. CASE Environment
  BY <1>3, EnvironmentHeld, EnvironmentRecs, RecordedKept, EnvironmentQuiet DEF Sound
<1>4. CASE UNCHANGED vars
  <2>1. UNCHANGED <<runtime, record, pendingStop, jobActive, fetching, procs, calls>>
    BY <1>4 DEF vars, lifeVars, jobVars
  <2>2. Held' /\ Recorded'
    BY <2>1, HeldRests, RecordedKept, SameRecsUnchanged DEF Sound
  <2>3. Quiet'
    BY <2>1 DEF Sound, Quiet, RunsCopy, Unreported
  <2>4. QED
    BY <2>2, <2>3 DEF Sound
<1>5. QED
  BY <1>1, <1>2, <1>3, <1>4 DEF Next, Finished

\* The inductive invariant: one thing releases each active job, the registered
\* process is of the registered record, and files are replaced under no process.
THEOREM JobsSound == Spec => [](Typed /\ Orderly /\ Sound)
<1>1. Init => Sound
  BY InitSound
<1>2. (Typed /\ Orderly) /\ (Typed /\ Orderly)' /\ Sound /\ [Next]_vars => Sound'
  BY NextSound
<1>3. Spec => [](Typed /\ Orderly)
  BY NestingOrderly
<1>4. QED
  BY <1>1, <1>2, <1>3, PTL DEF Spec

\* The app's jobs replace no copy under a process that runs from it (DirectoryQuiet).
THEOREM CopiesQuiet == Spec => []DirectoryQuiet
<1>1. Typed /\ Orderly /\ Sound => DirectoryQuiet
  BY Positions DEF Sound, Quiet, RunsCopy, DirectoryQuiet
<1>2. QED
  BY <1>1, JobsSound, PTL

LEMMA HoldersCounted ==
  ASSUME Typed, NEW e \in Exts, OneHolder(e)
  PROVE  Holders(e) = IF jobActive[e] THEN 1 ELSE 0
<1> DEFINE S == {i \in DOMAIN calls : calls[i].ext = e /\ WillRelease(calls[i])}
           f == IF fetching[e] # "none" THEN 1 ELSE 0
           l == Len(pendingStop[e].cbs)
           c == Cardinality(S)
<1>1. Holders(e) = f + l + c
  BY DEF Holders
<1>2. \A i : i \in S <=> Claim(i, e)
  BY DEF Claim
<1>3. IF Fetches(e) THEN f = 1 ELSE f = 0
  BY DEF Fetches
<1>4. pendingStop[e].cbs \in Seq(Callback)
  BY DEF Typed, TypeOK
<1>5. IF Stops(e) THEN l = 1 ELSE l = 0
  <2>1. l \in Nat /\ l <= 1 /\ (l = 0 <=> pendingStop[e].cbs = <<>>)
    BY <1>4, LenProperties, EmptySeq DEF OneHolder
  <2>2. Stops(e) <=> ~(l = 0)
    BY <2>1 DEF Stops
  <2> HIDE DEF l
  <2>3. l = 0 \/ l = 1
    BY <2>1
  <2>4. QED
    BY <2>2, <2>3
<1>6. IF \E i \in DOMAIN calls : Claim(i, e) THEN c = 1 ELSE c = 0
  <2>1. CASE \E i \in DOMAIN calls : Claim(i, e)
    <3>1. PICK i \in DOMAIN calls : Claim(i, e)
      BY <2>1
    <3>2. \A j \in S : j = i
      BY <1>2, <3>1 DEF OneHolder
    <3>3. S = {i}
      BY <1>2, <3>1, <3>2
    <3>4. QED
      BY <2>1, <3>3, FS_Singleton
  <2>2. CASE ~ \E i \in DOMAIN calls : Claim(i, e)
    <3>1. S = {}
      BY <2>2 DEF Claim
    <3>2. QED
      BY <2>2, <3>1, FS_EmptySet
  <2>3. QED
    BY <2>1, <2>2
<1> HIDE DEF f, l, c, S
<1>7. /\ jobActive[e] <=> Fetches(e) \/ Stops(e) \/ \E i \in DOMAIN calls : Claim(i, e)
      /\ ~(Fetches(e) /\ Stops(e))
      /\ (\E i \in DOMAIN calls : Claim(i, e)) => ~Fetches(e) /\ ~Stops(e)
  BY DEF OneHolder
<1>8. f + l + c = IF jobActive[e] THEN 1 ELSE 0
  <2>1. CASE Fetches(e)
    <3>1. f = 1 /\ l = 0 /\ c = 0 /\ jobActive[e]
      BY <1>3, <1>5, <1>6, <1>7, <2>1
    <3>2. QED
      BY <3>1
  <2>2. CASE Stops(e)
    <3>1. f = 0 /\ l = 1 /\ c = 0 /\ jobActive[e]
      BY <1>3, <1>5, <1>6, <1>7, <2>2
    <3>2. QED
      BY <3>1
  <2>3. CASE \E i \in DOMAIN calls : Claim(i, e)
    <3>1. f = 0 /\ l = 0 /\ c = 1 /\ jobActive[e]
      BY <1>3, <1>5, <1>6, <1>7, <2>3
    <3>2. QED
      BY <3>1
  <2>4. CASE ~Fetches(e) /\ ~Stops(e) /\ ~ \E i \in DOMAIN calls : Claim(i, e)
    <3>1. f = 0 /\ l = 0 /\ c = 0 /\ ~jobActive[e]
      BY <1>3, <1>5, <1>6, <1>7, <2>4
    <3>2. QED
      BY <3>1
  <2>5. QED
    BY <2>1, <2>2, <2>3, <2>4
<1>9. QED
  BY <1>1, <1>8

\* An active job has exactly one path that will release it and an idle id has
\* none (JobAccounted): the queue neither wedges nor is released twice.
THEOREM JobsAccounted == Spec => []JobAccounted
<1>1. Typed /\ Orderly /\ Sound => JobAccounted
  <2>1. SUFFICES ASSUME Typed, Held, NEW e \in Exts
                 PROVE  Holders(e) = IF jobActive[e] THEN 1 ELSE 0
    BY DEF Sound, JobAccounted
  <2>2. OneHolder(e)
    BY <2>1 DEF Held
  <2>3. QED
    BY <2>1, <2>2, HoldersCounted
<1>2. QED
  BY <1>1, JobsSound, PTL

(***************************************************************************)
(* The service implements ExtensionSlots                                   *)
(***************************************************************************)
\* The slot of e holds a process of the installed copy.
RunsInstalled(e) == \E p \in ProcessesOf(e) : procs[p].rec.kind # "preview"

SlotRests(e) == PhaseOf(e)' = PhaseOf(e) /\ (RunsInstalled(e)' <=> RunsInstalled(e))

LEMMA SlotOf ==
  ASSUME NEW e \in Exts
  PROVE  /\ PhaseOf(e) = IF runtime[e] # 0 THEN "live"
                         ELSE IF \E p \in Procs : Unreported(p) /\ procs[p].ext = e THEN "leaving" ELSE "free"
         /\ RunsInstalled(e) <=> \E p \in Procs : RunsCopy(p, e)
BY DEF PhaseOf, ProcessesOf, RunsInstalled, RunsCopy

LEMMA SlotOfNext ==
  ASSUME NEW e \in Exts
  PROVE  /\ PhaseOf(e)' = IF runtime'[e] # 0 THEN "live"
                          ELSE IF \E p \in Procs : Unreported(p)' /\ procs'[p].ext = e
                               THEN "leaving" ELSE "free"
         /\ RunsInstalled(e)' <=> \E p \in Procs : RunsCopy(p, e)'
BY DEF PhaseOf, ProcessesOf, RunsInstalled, RunsCopy, Unreported

\* The processes of e and whether one is registered stay as they were.
LEMMA SlotKept ==
  ASSUME NEW e \in Exts, runtime'[e] = 0 <=> runtime[e] = 0,
         \A p \in Procs : /\ Unreported(p)' /\ procs'[p].ext = e <=> Unreported(p) /\ procs[p].ext = e
                          /\ Unreported(p) /\ procs[p].ext = e => procs'[p].rec = procs[p].rec
  PROVE  SlotRests(e)
<1>1. (\E p \in Procs : Unreported(p)' /\ procs'[p].ext = e)
        <=> \E p \in Procs : Unreported(p) /\ procs[p].ext = e
  OBVIOUS
<1>2. \A p \in Procs : RunsCopy(p, e)' <=> RunsCopy(p, e)
  BY DEF RunsCopy, Unreported
<1>3. QED
  BY <1>1, <1>2, SlotOf, SlotOfNext DEF SlotRests

LEMMA Stutters ==
  ASSUME \A e \in Exts : SlotRests(e), UNCHANGED <<jobActive, userCopy, cliOps>>
  PROVE  UNCHANGED Slots!slotVars
BY DEF Slots!slotVars, SlotRests, RunsInstalled

LEMMA ProcsRest ==
  ASSUME SameProcs, SameRecs, \A e \in Exts : runtime'[e] = 0 <=> runtime[e] = 0
  PROVE  \A e \in Exts : SlotRests(e)
BY SlotKept DEF SameProcs, SameRecs

LEMMA LaunchStep ==
  ASSUME NEW e \in Exts, PhaseOf(e) = "free", ~jobActive[e], PhaseOf(e)' = "live",
         \A f \in Exts : f # e => SlotRests(f), UNCHANGED <<jobActive, userCopy, cliOps>>
  PROVE  Slots!Launch(e)
<1>1. PICK b \in BOOLEAN : b <=> RunsInstalled(e)'
  OBVIOUS
<1>2. [f \in Exts |-> PhaseOf(f)]' = [[f \in Exts |-> PhaseOf(f)] EXCEPT ![e] = "live"]
  BY DEF SlotRests
<1>3. [f \in Exts |-> RunsInstalled(f)]' = [[f \in Exts |-> RunsInstalled(f)] EXCEPT ![e] = b]
  <2>1. \A f \in Exts : RunsInstalled(f) \in BOOLEAN /\ RunsInstalled(f)' \in BOOLEAN
    BY DEF RunsInstalled
  <2>2. RunsInstalled(e)' = b
    BY <1>1, <2>1
  <2>3. \A f \in Exts : f # e => RunsInstalled(f)' = RunsInstalled(f)
    BY <2>1 DEF SlotRests
  <2>4. QED
    BY <2>2, <2>3
<1>4. QED
  BY <1>2, <1>3 DEF Slots!Launch, RunsInstalled

LEMMA AskStep ==
  ASSUME NEW e \in Exts, PhaseOf(e) = "live", PhaseOf(e)' = "leaving",
         RunsInstalled(e)' <=> RunsInstalled(e),
         \A f \in Exts : f # e => SlotRests(f), UNCHANGED <<jobActive, userCopy, cliOps>>
  PROVE  Slots!AskToLeave(e)
<1>1. [f \in Exts |-> PhaseOf(f)]' = [[f \in Exts |-> PhaseOf(f)] EXCEPT ![e] = "leaving"]
  BY DEF SlotRests
<1>2. [f \in Exts |-> RunsInstalled(f)]' = [f \in Exts |-> RunsInstalled(f)]
  <2>1. \A f \in Exts : RunsInstalled(f) \in BOOLEAN /\ RunsInstalled(f)' \in BOOLEAN
    BY DEF RunsInstalled
  <2>2. \A f \in Exts : RunsInstalled(f)' = RunsInstalled(f)
    BY <2>1 DEF SlotRests
  <2>3. QED
    BY <2>2
<1>3. QED
  BY <1>1, <1>2 DEF Slots!AskToLeave, RunsInstalled

LEMMA LeaveStep ==
  ASSUME NEW e \in Exts, PhaseOf(e) # "free", PhaseOf(e)' = "free", ~RunsInstalled(e)',
         \A f \in Exts : f # e => SlotRests(f), UNCHANGED <<jobActive, userCopy, cliOps>>
  PROVE  Slots!Leave(e)
<1>1. [f \in Exts |-> PhaseOf(f)]' = [[f \in Exts |-> PhaseOf(f)] EXCEPT ![e] = "free"]
  BY DEF SlotRests
<1>2. [f \in Exts |-> RunsInstalled(f)]' = [[f \in Exts |-> RunsInstalled(f)] EXCEPT ![e] = FALSE]
  <2>1. \A f \in Exts : RunsInstalled(f) \in BOOLEAN /\ RunsInstalled(f)' \in BOOLEAN
    BY DEF RunsInstalled
  <2>2. RunsInstalled(e)' = FALSE
    BY <2>1
  <2>3. \A f \in Exts : f # e => RunsInstalled(f)' = RunsInstalled(f)
    BY <2>1 DEF SlotRests
  <2>4. QED
    BY <2>2, <2>3
<1>3. QED
  BY <1>1, <1>2 DEF Slots!Leave, RunsInstalled

\* The steps that change no slot: jobs, copies and the command line.
LEMMA SlotsRest ==
  ASSUME \A e \in Exts : SlotRests(e)
  PROVE  /\ UNCHANGED [e \in Exts |-> PhaseOf(e)]
         /\ UNCHANGED [e \in Exts |-> \E p \in ProcessesOf(e) : procs[p].rec.kind # "preview"]
BY DEF SlotRests, RunsInstalled

LEMMA BeginStep ==
  ASSUME NEW e \in Exts, ~jobActive[e], jobActive' = [jobActive EXCEPT ![e] = TRUE],
         \A f \in Exts : SlotRests(f), UNCHANGED <<userCopy, cliOps>>
  PROVE  Slots!BeginJob(e)
BY SlotsRest DEF Slots!BeginJob

LEMMA EndStep ==
  ASSUME NEW e \in Exts, jobActive[e], jobActive' = [jobActive EXCEPT ![e] = FALSE],
         \A f \in Exts : SlotRests(f), UNCHANGED <<userCopy, cliOps>>
  PROVE  Slots!EndJob(e)
BY SlotsRest DEF Slots!EndJob

LEMMA ReplaceStep ==
  ASSUME Typed, NEW e \in Exts, jobActive[e], ~RunsInstalled(e), NEW b \in BOOLEAN, userCopy[e] # b,
         userCopy' = [userCopy EXCEPT ![e] = b],
         \A f \in Exts : SlotRests(f), UNCHANGED <<jobActive, cliOps>>
  PROVE  Slots!ReplaceCopy(e)
<1>1. userCopy' = [userCopy EXCEPT ![e] = ~@]
  <2>1. userCopy[e] \in BOOLEAN
    BY DEF Typed, TypeOK
  <2>2. b = ~userCopy[e]
    BY <2>1
  <2>3. QED
    BY <2>2
<1>2. QED
  BY <1>1, SlotsRest DEF Slots!ReplaceCopy, RunsInstalled

LEMMA OutsideStep ==
  ASSUME NEW e \in Exts, NEW b \in BOOLEAN, userCopy' = [userCopy EXCEPT ![e] = b], cliOps' = cliOps + 1,
         \A f \in Exts : SlotRests(f), UNCHANGED jobActive
  PROVE  Slots!ChangeOutside(e)
BY SlotsRest DEF Slots!ChangeOutside

\* One step of the service is a step of the slots, or none.
SlotStep == (\E e \in Exts :
               \/ Slots!Launch(e) \/ Slots!AskToLeave(e) \/ Slots!Leave(e)
               \/ Slots!BeginJob(e) \/ Slots!EndJob(e) \/ Slots!ReplaceCopy(e) \/ Slots!ChangeOutside(e))
            \/ UNCHANGED Slots!slotVars

LEMMA SlotStepNext == SlotStep => [Slots!SlotNext]_(Slots!slotVars)
BY DEF SlotStep, Slots!SlotNext

\* The runtimes and the processes are left alone, and the jobs and copies too.
LEMMA NothingMoves ==
  ASSUME Typed, SameProcs, SameRecs, \A e \in Exts : runtime'[e] = 0 <=> runtime[e] = 0,
         UNCHANGED <<jobActive, userCopy, cliOps>>
  PROVE  SlotStep
BY ProcsRest, Stutters DEF SlotStep

LEMMA SpawnSlots ==
  ASSUME Typed, Orderly, NEW e \in Exts, NEW r \in Rec, runtime[e] = 0, MayStart(e), Spawn(e, r),
         UNCHANGED <<jobActive, userCopy, cliOps>>
  PROVE  SlotStep
<1> DEFINE new == [st |-> "alive", ext |-> e, rec |-> r, aborted |-> FALSE, stale |-> FALSE]
<1>1. PICK p \in Procs : /\ procs[p].st = "unused" /\ procs' = [procs EXCEPT ![p] = new]
                         /\ runtime' = [runtime EXCEPT ![e] = p]
  BY DEF Spawn
<1>2. new.st = "alive" /\ new.ext = e
  OBVIOUS
<1> HIDE DEF new
<1>3. /\ procs'[p] = new /\ \A q \in Procs : q # p => procs'[q] = procs[q]
      /\ runtime'[e] = p /\ \A f \in Exts : f # e => runtime'[f] = runtime[f]
  BY <1>1 DEF Typed, TypeOK
<1>4. p # 0 /\ ~jobActive[e] /\ ~pendingStop[e].on
  BY DEF Procs, MayStart
<1>5. PhaseOf(e) = "free"
  <2>1. \A q \in Procs : Unreported(q) => procs[q].ext # e
    BY <1>4, NoneLeft
  <2>2. QED
    BY <2>1, SlotOf
<1>6. PhaseOf(e)' = "live"
  BY <1>3, <1>4, SlotOfNext
<1>7. ASSUME NEW f \in Exts, f # e PROVE SlotRests(f)
  <2>1. ~Unreported(p)
    BY <1>1 DEF Unreported
  <2>2. procs'[p].ext # f
    BY <1>2, <1>3, <1>7
  <2>3. \A q \in Procs : /\ Unreported(q)' /\ procs'[q].ext = f <=> Unreported(q) /\ procs[q].ext = f
                         /\ Unreported(q) /\ procs[q].ext = f => procs'[q].rec = procs[q].rec
    BY <1>3, <2>1, <2>2 DEF Unreported
  <2>4. runtime'[f] = 0 <=> runtime[f] = 0
    BY <1>3, <1>7
  <2>5. QED
    BY <2>3, <2>4, SlotKept
<1>8. Slots!Launch(e)
  BY <1>4, <1>5, <1>6, <1>7, LaunchStep
<1>9. QED
  BY <1>8 DEF SlotStep

LEMMA StartSlots == Typed /\ Orderly /\ Start => SlotStep
<1> SUFFICES ASSUME Typed, Orderly, Start PROVE SlotStep
  OBVIOUS
<1>1. PICK e \in Exts, r \in Rec : e = Head(calls).ext /\ r = Head(calls).rec
  BY TopTyped DEF Start, Running
<1>2. UNCHANGED <<jobActive, userCopy, cliOps>>
  BY DEF Start, jobVars, reqVars
<1>3. \/ UNCHANGED <<runtime, procs>>
      \/ runtime[e] = 0 /\ MayStart(e) /\ Spawn(e, r)
      \/ runtime[e] = 0 /\ runtime' = [runtime EXCEPT ![e] = 0] /\ UNCHANGED procs
  BY <1>1 DEF Start, HandleExit
<1>4. CASE UNCHANGED procs /\ (UNCHANGED runtime \/ (runtime[e] = 0 /\ runtime' = [runtime EXCEPT ![e] = 0]))
  <2>1. \A f \in Exts : runtime'[f] = 0 <=> runtime[f] = 0
    BY <1>4 DEF Typed, TypeOK
  <2>2. QED
    BY <1>2, <1>4, <2>1, SameProcsUnchanged, SameRecsUnchanged, NothingMoves
<1>5. QED
  BY <1>2, <1>3, <1>4, SpawnSlots

LEMMA StopSlots == Typed /\ Orderly /\ Stop => SlotStep
<1> SUFFICES ASSUME Typed, Orderly, Stop PROVE SlotStep
  OBVIOUS
<1>1. PICK e \in Exts : e = Head(calls).ext
  BY TopTyped DEF Stop, Running
<1>2. UNCHANGED <<jobActive, userCopy, cliOps>>
  BY DEF Stop, jobVars, reqVars
<1>3. CASE runtime[e] = 0
  <2>1. UNCHANGED <<runtime, procs>>
    BY <1>1, <1>3 DEF Stop
  <2>2. QED
    BY <1>2, <2>1, SameProcsUnchanged, SameRecsUnchanged, NothingMoves
<1>4. CASE runtime[e] # 0
  <2>1. PICK p \in Procs : p = runtime[e]
    BY <1>4 DEF Typed, TypeOK, Procs
  <2>2. /\ procs' = [procs EXCEPT ![p].aborted = TRUE] \/ UNCHANGED procs
        /\ runtime' = [runtime EXCEPT ![e] = 0]
    BY <1>1, <1>4, <2>1 DEF Stop
  <2>3. \A q \in Procs : /\ procs'[q].st = procs[q].st /\ procs'[q].ext = procs[q].ext
                         /\ procs'[q].rec = procs[q].rec
    <3>1. procs \in [Procs -> Proc]
      BY DEF Typed, TypeOK
    <3>2. \A x \in Proc : /\ [x EXCEPT !.aborted = TRUE].st = x.st /\ [x EXCEPT !.aborted = TRUE].ext = x.ext
                          /\ [x EXCEPT !.aborted = TRUE].rec = x.rec
      BY DEF Proc
    <3>3. procs[p] \in Proc /\ (procs'[p] = [procs[p] EXCEPT !.aborted = TRUE] \/ procs'[p] = procs[p])
          /\ \A q \in Procs : q # p => procs'[q] = procs[q]
      BY <2>2, <3>1
    <3>4. PICK x \in Proc : x = procs[p]
      BY <3>3
    <3>5. /\ procs'[p].st = procs[p].st /\ procs'[p].ext = procs[p].ext
          /\ procs'[p].rec = procs[p].rec
      BY <3>2, <3>3, <3>4
    <3>6. QED
      BY <3>3, <3>5
  <2>4. runtime'[e] = 0 /\ \A f \in Exts : f # e => runtime'[f] = runtime[f]
    BY <2>2 DEF Typed, TypeOK
  <2>5. PhaseOf(e) = "live"
    BY <1>4, SlotOf
  <2>6. PhaseOf(e)' = "leaving"
    <3>1. Unreported(p) /\ procs[p].ext = e
      BY <1>4, <2>1 DEF Orderly, Owned
    <3>2. Unreported(p)' /\ procs'[p].ext = e
      BY <2>3, <3>1 DEF Unreported
    <3>3. QED
      BY <2>4, <3>2, SlotOfNext
  <2>7. RunsInstalled(e)' <=> RunsInstalled(e)
    BY <2>3, SlotOf, SlotOfNext DEF RunsCopy, Unreported
  <2>8. \A f \in Exts : f # e => SlotRests(f)
    BY <2>3, <2>4, SlotKept DEF Unreported
  <2>9. Slots!AskToLeave(e)
    BY <1>2, <2>5, <2>6, <2>7, <2>8, AskStep
  <2>10. QED
    BY <2>9 DEF SlotStep
<1>5. QED
  BY <1>3, <1>4

\* Once its exit was handled no process of the id is left: the dead one was the
\* registered one, or was stopped, and then none is registered.
LEMMA ExitSlots ==
  ASSUME Typed, Orderly, NEW p \in Procs, NEW rest, ExitOf(p, rest),
         UNCHANGED <<jobActive, userCopy, cliOps>>
  PROVE  SlotStep
<1>1. procs[p].st = "dead" /\ procs' = [procs EXCEPT ![p].st = "gone"]
  BY DEF ExitOf
<1>2. PICK e \in Exts : e = procs[p].ext
  BY <1>1 DEF Typed
<1>3. IF procs[p].aborted THEN UNCHANGED runtime ELSE runtime' = [runtime EXCEPT ![e] = 0]
  BY <1>2 DEF ExitOf, HandleExit
<1>4. Unreported(p) /\ ~Unreported(p)' /\ \A q \in Procs : q # p => procs'[q] = procs[q]
  <2>1. procs[p] \in Proc /\ procs \in [Procs -> Proc]
    BY DEF Typed, TypeOK
  <2>2. procs'[p] = [procs[p] EXCEPT !.st = "gone"] /\ \A q \in Procs : q # p => procs'[q] = procs[q]
    BY <1>1, <2>1
  <2>3. procs'[p].st = "gone"
    BY <2>1, <2>2 DEF Proc
  <2>4. QED
    BY <1>1, <2>2, <2>3 DEF Unreported
<1>5. \A q \in Procs : Unreported(q) /\ procs[q].ext = e => q = p
  BY <1>2, <1>4 DEF Orderly, OneProcess
<1>6. runtime'[e] = 0 /\ \A f \in Exts : f # e => runtime'[f] = runtime[f]
  <2>1. CASE procs[p].aborted
    <3>1. runtime[e] # 0 => runtime[e] \in Procs /\ runtime[e] = p /\ ~procs[p].aborted
      <4>1. runtime[e] # 0 => /\ runtime[e] \in Procs /\ Unreported(runtime[e])
                              /\ procs[runtime[e]].ext = e /\ ~procs[runtime[e]].aborted
        BY DEF Typed, TypeOK, Procs, Orderly, Owned
      <4>2. QED
        BY <1>5, <4>1
    <3>2. QED
      BY <1>3, <2>1, <3>1
  <2>2. CASE ~procs[p].aborted
    BY <1>3, <2>2 DEF Typed, TypeOK
  <2>3. QED
    BY <2>1, <2>2
<1>7. \A q \in Procs : ~(Unreported(q)' /\ procs'[q].ext = e)
  BY <1>4, <1>5 DEF Unreported
<1>8. PhaseOf(e) # "free"
  BY <1>2, <1>4, SlotOf
<1>9. PhaseOf(e)' = "free" /\ ~RunsInstalled(e)'
  BY <1>6, <1>7, SlotOfNext DEF RunsCopy, Unreported
<1>10. ASSUME NEW f \in Exts, f # e PROVE SlotRests(f)
  <2>1. \A q \in Procs : /\ Unreported(q)' /\ procs'[q].ext = f <=> Unreported(q) /\ procs[q].ext = f
                         /\ Unreported(q) /\ procs[q].ext = f => procs'[q].rec = procs[q].rec
    BY <1>2, <1>4, <1>10 DEF Unreported
  <2>2. runtime'[f] = 0 <=> runtime[f] = 0
    BY <1>6, <1>10
  <2>3. QED
    BY <2>1, <2>2, SlotKept
<1>11. Slots!Leave(e)
  BY <1>8, <1>9, <1>10, LeaveStep
<1>12. QED
  BY <1>11 DEF SlotStep

LEMMA PollExitSlots == Typed /\ Orderly /\ PollExit => SlotStep
<1> SUFFICES ASSUME Typed, Orderly, PollExit PROVE SlotStep
  OBVIOUS
<1>1. PICK p \in Procs : p = Head(calls).proc
  BY TopTyped DEF PollExit, Running, GoodFrame
<1>2. UNCHANGED <<jobActive, userCopy, cliOps>>
  BY DEF PollExit, jobVars, reqVars
<1>3. ExitOf(p, Tail(calls)) \/ UNCHANGED <<runtime, procs>>
  BY <1>1 DEF PollExit
<1>4. QED
  BY <1>2, <1>3, ExitSlots, SameProcsUnchanged, SameRecsUnchanged, NothingMoves

LEMMA DrainSlots == Typed /\ Drain => SlotStep
<1> SUFFICES ASSUME Typed, Drain PROVE SlotStep
  OBVIOUS
<1>1. PICK e \in Exts : e = Head(calls).ext
  BY TopTyped DEF Drain, Running
<1>2. UNCHANGED <<runtime, procs, userCopy, cliOps>>
  BY DEF Drain, lifeVars, reqVars
<1>3. CASE UNCHANGED jobActive
  BY <1>2, <1>3, SameProcsUnchanged, SameRecsUnchanged, NothingMoves
<1>4. CASE ~jobActive[e] /\ jobActive' = [jobActive EXCEPT ![e] = TRUE]
  <2>1. \A f \in Exts : SlotRests(f)
    BY <1>2, SameProcsUnchanged, SameRecsUnchanged, ProcsRest
  <2>2. QED
    BY <1>2, <1>4, <2>1, BeginStep DEF SlotStep
<1>5. QED
  BY <1>1, <1>3, <1>4 DEF Drain

LEMMA ReleaseSlots == Typed /\ Held /\ Release => SlotStep
<1> SUFFICES ASSUME Typed, Held, Release PROVE SlotStep
  OBVIOUS
<1>1. PICK e \in Exts : e = Head(calls).ext /\ calls # <<>> /\ Head(calls).op = "release"
  BY TopTyped DEF Release, Running
<1>2. UNCHANGED <<runtime, procs, userCopy, cliOps>> /\ jobActive' = [jobActive EXCEPT ![e] = FALSE]
  BY <1>1 DEF Release, lifeVars, reqVars
<1>3. jobActive[e]
  BY <1>1, TopHolds DEF WillRelease, Callback
<1>4. \A f \in Exts : SlotRests(f)
  BY <1>2, SameProcsUnchanged, SameRecsUnchanged, ProcsRest
<1>5. QED
  BY <1>2, <1>3, <1>4, EndStep DEF SlotStep

LEMMA FilesSlots == Typed /\ Sound /\ (Swap \/ Remove) => SlotStep
<1> SUFFICES ASSUME Typed, Sound, Swap \/ Remove PROVE SlotStep
  OBVIOUS
<1>1. PICK e \in Exts : e = Head(calls).ext /\ calls # <<>> /\ Head(calls).op \in {"swap", "remove"}
  BY TopTyped DEF Swap, Remove, Running
<1>2. UNCHANGED <<runtime, jobActive, cliOps>>
  BY DEF Swap, Remove, lifeVars, jobVars, reqVars
<1>3. \/ UNCHANGED <<userCopy, procs>>
      \/ /\ \E kinds : procs' = MarkStale(e, kinds)
         /\ \/ userCopy' = [userCopy EXCEPT ![e] = TRUE]
            \/ userCopy[e] /\ userCopy' = [userCopy EXCEPT ![e] = FALSE]
            \/ UNCHANGED userCopy
  BY <1>1 DEF Swap, Remove
<1>4. jobActive[e]
  BY <1>1, TopHolds DEF Sound, WillRelease, Callback
<1>5. ~RunsInstalled(e)
  <2>1. 1 \in DOMAIN calls /\ calls[1] = Head(calls)
    BY <1>1, Positions
  <2>2. QED
    BY <1>1, <2>1, SlotOf DEF Sound, Quiet
<1>6. SameProcs /\ SameRecs
  BY <1>3, SameProcsUnchanged, SameRecsUnchanged, SameProcsStale, StaleRecs
<1>7. \A f \in Exts : SlotRests(f)
  BY <1>2, <1>6, ProcsRest
<1>8. userCopy \in [Exts -> BOOLEAN]
  BY DEF Typed, TypeOK
<1>9. CASE UNCHANGED userCopy
  BY <1>2, <1>7, <1>9, Stutters DEF SlotStep
<1>10. CASE userCopy' = [userCopy EXCEPT ![e] = TRUE]
  <2>1. CASE userCopy[e]
    <3>1. UNCHANGED userCopy
      BY <1>8, <1>10, <2>1
    <3>2. QED
      BY <1>9, <3>1
  <2>2. CASE ~userCopy[e]
    <3> DEFINE b == TRUE
    <3>1. b \in BOOLEAN /\ userCopy' = [userCopy EXCEPT ![e] = b]
      BY <1>10
    <3>2. userCopy[e] # b
      BY <2>2
    <3> HIDE DEF b
    <3>3. Slots!ReplaceCopy(e)
      BY <1>2, <1>4, <1>5, <1>7, <3>1, <3>2, ReplaceStep
    <3>4. QED
      BY <3>3 DEF SlotStep
  <2>3. QED
    BY <2>1, <2>2
<1>11. CASE userCopy[e] /\ userCopy' = [userCopy EXCEPT ![e] = FALSE]
  <2> DEFINE b == FALSE
  <2>1. b \in BOOLEAN /\ userCopy' = [userCopy EXCEPT ![e] = b]
    BY <1>11
  <2>2. userCopy[e] # b
    BY <1>11
  <2> HIDE DEF b
  <2>3. Slots!ReplaceCopy(e)
    BY <1>2, <1>4, <1>5, <1>7, <2>1, <2>2, ReplaceStep
  <2>4. QED
    BY <2>3 DEF SlotStep
<1>12. QED
  BY <1>3, <1>9, <1>10, <1>11

LEMMA StepSlots == Typed /\ Orderly /\ Sound /\ Step => SlotStep
<1> SUFFICES ASSUME Typed, Orderly, Sound, Step PROVE SlotStep
  OBVIOUS
<1>1. CASE \/ DrainCallbacks \/ Reconcile \/ Enqueue \/ RunNext \/ Job \/ StopPreview \/ Boot
  <2>1. UNCHANGED <<runtime, procs, jobActive, userCopy, cliOps>>
    BY <1>1 DEF DrainCallbacks, Reconcile, Enqueue, RunNext, Job, StopPreview, Boot,
                lifeVars, jobVars, reqVars
  <2>2. QED
    BY <2>1, SameProcsUnchanged, SameRecsUnchanged, NothingMoves
<1>2. CASE Start \/ Stop \/ PollExit \/ Drain \/ Release \/ Swap \/ Remove
  BY <1>2, StartSlots, StopSlots, PollExitSlots, DrainSlots, ReleaseSlots, FilesSlots DEF Sound
<1>3. QED
  BY <1>1, <1>2 DEF Step

LEMMA EventSlots == Typed /\ Orderly /\ Event => SlotStep
<1> SUFFICES ASSUME Typed, Orderly, Event PROVE SlotStep
  OBVIOUS
<1>1. CASE \E p \in Procs : ReportExit(p)
  <2>1. PICK p \in Procs : ExitOf(p, <<>>) /\ UNCHANGED <<jobActive, userCopy, cliOps>>
    BY <1>1 DEF ReportExit, jobVars, reqVars
  <2> DEFINE rest == <<>>
  <2>2. ExitOf(p, rest)
    BY <2>1
  <2> HIDE DEF rest
  <2>3. QED
    BY <2>1, <2>2, ExitSlots
<1>2. CASE ~ \E p \in Procs : ReportExit(p)
  <2>1. UNCHANGED <<runtime, procs, jobActive, userCopy, cliOps>>
    BY <1>2 DEF Event, StartExtensions, RequestStopPreview, ToggleEnabled, RequestJob, Reload,
                FetchDone, PreviewExt, Request, lifeVars, jobVars, reqVars
  <2>2. QED
    BY <2>1, SameProcsUnchanged, SameRecsUnchanged, NothingMoves
<1>3. QED
  BY <1>1, <1>2

LEMMA EnvironmentSlots == Typed /\ Environment => SlotStep
<1> SUFFICES ASSUME Typed, Environment PROVE SlotStep
  OBVIOUS
<1>1. SameProcs /\ SameRecs /\ UNCHANGED runtime
  BY EnvironmentSame, EnvironmentRecs
<1>2. UNCHANGED jobActive
  BY DEF Environment, Die, CliInstall, CliUninstall, Cli, jobVars
<1>3. \A e \in Exts : SlotRests(e)
  BY <1>1, ProcsRest
<1>4. CASE \E p \in Procs : Die(p)
  BY <1>1, <1>2, <1>4, NothingMoves DEF Die, reqVars
<1>5. CASE \E e \in Exts : CliInstall(e) \/ CliUninstall(e)
  <2>1. PICK e \in Exts, b \in BOOLEAN : userCopy' = [userCopy EXCEPT ![e] = b] /\ cliOps' = cliOps + 1
    BY <1>5 DEF CliInstall, CliUninstall, Cli
  <2>2. QED
    BY <1>2, <1>3, <2>1, OutsideStep DEF SlotStep
<1>6. QED
  BY <1>4, <1>5 DEF Environment

LEMMA InitSlots == Init => Slots!SlotInit
<1> SUFFICES ASSUME Init PROVE Slots!SlotInit
  OBVIOUS
<1>1. \A e \in Exts : runtime[e] = 0
  BY DEF Init
<1>2. \A p \in Procs : ~Unreported(p)
  BY DEF Init, NoProc, Unreported
<1>3. \A e \in Exts : PhaseOf(e) = "free" /\ ~RunsInstalled(e)
  BY <1>1, <1>2, SlotOf DEF RunsCopy
<1>4. [e \in Exts |-> PhaseOf(e)] = [e \in Exts |-> "free"]
  BY <1>3
<1>5. [e \in Exts |-> \E p \in ProcessesOf(e) : procs[p].rec.kind # "preview"] = [e \in Exts |-> FALSE]
  BY <1>3 DEF RunsInstalled
<1>6. jobActive = [e \in Exts |-> FALSE] /\ userCopy \in [Exts -> BOOLEAN] /\ cliOps = 0
  BY DEF Init
<1>7. QED
  BY <1>4, <1>5, <1>6 DEF Slots!SlotInit

LEMMA NextSlots == Typed /\ Orderly /\ Sound /\ [Next]_vars => [Slots!SlotNext]_(Slots!slotVars)
<1> SUFFICES ASSUME Typed, Orderly, Sound, [Next]_vars PROVE [Slots!SlotNext]_(Slots!slotVars)
  OBVIOUS
<1>1. CASE Step
  BY <1>1, StepSlots, SlotStepNext
<1>2. CASE Event
  BY <1>2, EventSlots, SlotStepNext
<1>3. CASE Environment
  BY <1>3, EnvironmentSlots, SlotStepNext
<1>4. CASE UNCHANGED vars
  <2>1. UNCHANGED <<runtime, procs, jobActive, userCopy, cliOps>>
    BY <1>4 DEF vars, lifeVars, jobVars, reqVars
  <2>2. SlotStep
    BY <2>1, SameProcsUnchanged, SameRecsUnchanged, NothingMoves
  <2>3. QED
    BY <2>2, SlotStepNext
<1>5. QED
  BY <1>1, <1>2, <1>3, <1>4 DEF Next, Finished

\* The service implements ExtensionSlots (SlotsKept): one process and one job to
\* an id, none launched in a job, and no copy changed under its process.
THEOREM ServiceImplementsSlots == Spec => SlotsKept
<1>1. Init => Slots!SlotInit
  BY InitSlots
<1>2. Typed /\ Orderly /\ Sound /\ [Next]_vars => [Slots!SlotNext]_(Slots!slotVars)
  BY NextSlots
<1>3. Spec => [](Typed /\ Orderly /\ Sound)
  BY JobsSound
<1>4. QED
  BY <1>1, <1>2, <1>3, PTL DEF Spec, SlotsKept, Slots!SlotSpec
===============================================================================
