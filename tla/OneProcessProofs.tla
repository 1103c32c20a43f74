---------------------------- MODULE OneProcessProofs ----------------------------
(* Never two processes of one extension (OneProcess of ExtensionService), for    *)
(* any number of extensions, processes, previews and requests.                   *)
(*                                                                               *)
(* A process is spawned only when no runtime is registered and no stop is in     *)
(* flight, so the proof needs that every unreported process is known by one of   *)
(* the two (Owned).  That is delicate at one place: drainCallbacks forgets the   *)
(* stop in flight, and a dead preview's teardown (stop_preview, its restart job  *)
(* and a reconciliation) runs before it on the same stack.  Nested says what can *)
(* run there, and Handled that no stopped process is forgotten after it.         *)
EXTENDS ExtensionServiceProofs

\* The drain of the callbacks is the i-th call of the stack.
Waiting(i) == i \in DOMAIN calls /\ calls[i].op = "drainCallbacks"

\* What runs in a job, above the loop that started it.
InJob == {"job", "stop", "release", "swap", "remove", "runNext"}

\* A registered runtime is a running process nobody stopped; an unreported
\* process is registered or being stopped.
Owned ==
  /\ \A e \in Exts : runtime[e] # 0 =>
       /\ Unreported(runtime[e])
       /\ procs[runtime[e]].ext = e /\ ~procs[runtime[e]].aborted
  /\ \A p \in Procs : Unreported(p) =>
       runtime[procs[p].ext] = p \/ pendingStop[procs[p].ext].on
  /\ \A e \in Exts : pendingStop[e].on => runtime[e] = 0
  /\ \A e \in Exts : ~pendingStop[e].on => pendingStop[e].cbs = <<>>

\* The loop over an id's jobs is on the stack at most once, and is marked.
Drains ==
  /\ \A i, j \in DOMAIN calls :
       calls[i].op = "drain" /\ calls[j].op = "drain" /\ calls[i].ext = calls[j].ext => i = j
  /\ \A i \in DOMAIN calls : calls[i].op = "drain" => draining[calls[i].ext]

\* Above a drain of the callbacks there is one call of the same id, or one job
\* and its loop, or another such drain; no process of the id is registered then.
Nested ==
  \A i \in DOMAIN calls : Waiting(i) =>
    /\ \A j \in 1..(i - 1) : calls[j].ext = calls[i].ext
    /\ \A j \in 3..(i - 1) : calls[j].op = "drainCallbacks"
    /\ i > 2 => \/ calls[2].op = "drainCallbacks"
                \/ calls[2].op = "drain" /\ calls[1].op \in InJob
    /\ i > 1 => calls[1].op # "pollExit"
    /\ (i > 1 /\ calls[1].op # "drainCallbacks") => runtime[calls[i].ext] = 0
    /\ (i > 1 /\ calls[1].op = "stopPreview") => preview = NoPreview \/ preview.ext = calls[1].ext

\* Until the callbacks are drained, no other process of the id was stopped.
Handled ==
  \A i \in DOMAIN calls : Waiting(i) =>
    /\ \A p \in Procs : (Unreported(p) /\ procs[p].ext = calls[i].ext) => runtime[calls[i].ext] = p
    /\ \A j \in DOMAIN calls : (Waiting(j) /\ j # i) => ~pendingStop[calls[i].ext].on

Orderly == OneProcess /\ Owned /\ Drains /\ Nested /\ Handled

\* A step that spawns, stops and reports no process.
SameProcs ==
  \A p \in Procs : /\ Unreported(p)' <=> Unreported(p)
                   /\ procs'[p].ext = procs[p].ext
                   /\ procs'[p].aborted = procs[p].aborted

(***************************************************************************)
(* The call stack after a step                                             *)
(***************************************************************************)
LEMMA Stack ==
  ASSUME Typed
  PROVE  /\ Len(calls) \in Nat /\ DOMAIN calls = 1..Len(calls)
         /\ \A i \in 1..Len(calls) : calls[i] \in GoodFrame /\ calls[i].ext \in Exts
         /\ calls # <<>> => Len(calls) >= 1 /\ Head(calls) = calls[1]
<1>1. calls \in Seq(GoodFrame)
  BY DEF Typed
<1>2. Len(calls) \in Nat /\ DOMAIN calls = 1..Len(calls)
  BY <1>1, LenProperties
<1>3. \A i \in 1..Len(calls) : calls[i] \in GoodFrame
  BY <1>1, ElementOfSeq
<1>4. \A c \in GoodFrame : c.ext \in Exts
  BY DEF GoodFrame, Frame
<1>5. calls # <<>> => Len(calls) >= 1 /\ Head(calls) = calls[1]
  BY <1>1, <1>2, EmptySeq
<1>6. QED
  BY <1>2, <1>3, <1>4, <1>5

LEMMA StackBecomes ==
  ASSUME Typed, calls # <<>>, NEW s \in Seq(GoodFrame), Becomes(s)
  PROVE  /\ Len(s) \in Nat
         /\ Len(calls') = Len(s) + Len(calls) - 1 /\ DOMAIN calls' = 1..Len(calls')
         /\ \A i \in 1..Len(s) : calls'[i] = s[i]
         /\ \A i \in (Len(s) + 1)..Len(calls') : calls'[i] = calls[i - Len(s) + 1]
<1>1. calls \in Seq(GoodFrame)
  BY DEF Typed
<1>2. /\ Tail(calls) \in Seq(GoodFrame) /\ Len(Tail(calls)) = Len(calls) - 1
      /\ \A i \in 1..Len(Tail(calls)) : Tail(calls)[i] = calls[i + 1]
  BY <1>1, HeadTailProperties
<1>3. calls' = s \o Tail(calls)
  BY DEF Becomes
<1>4. Len(s) \in Nat /\ Len(calls) \in Nat
  BY <1>1, LenProperties
<1>5. /\ calls' \in Seq(GoodFrame) /\ Len(calls') = Len(s) + Len(calls) - 1
      /\ \A i \in 1..Len(calls') :
           calls'[i] = IF i <= Len(s) THEN s[i] ELSE Tail(calls)[i - Len(s)]
  BY <1>2, <1>3, <1>4, ConcatProperties
<1>6. DOMAIN calls' = 1..Len(calls')
  BY <1>5, LenProperties
<1>7. \A i \in (Len(s) + 1)..Len(calls') : calls'[i] = calls[i - Len(s) + 1]
  BY <1>2, <1>4, <1>5
<1>8. \A i \in 1..Len(s) : calls'[i] = s[i]
  <2>1. calls # <<>> => Len(calls) >= 1
    BY Stack
  <2>2. QED
    BY <2>1, <1>4, <1>5
<1>9. QED
  BY <1>4, <1>5, <1>6, <1>7, <1>8

\* The call on top goes on as one call ...
LEMMA StackOne ==
  ASSUME Typed, calls # <<>>, NEW c \in GoodFrame, Becomes(<<c>>)
  PROVE  /\ Len(calls') = Len(calls) /\ DOMAIN calls' = 1..Len(calls)
         /\ calls'[1] = c
         /\ \A i \in 2..Len(calls) : calls'[i] = calls[i]
<1>1. <<c>> \in Seq(GoodFrame) /\ Len(<<c>>) = 1 /\ <<c>>[1] = c
  OBVIOUS
<1>2. Len(calls) \in Nat
  BY Stack
<1> DEFINE s == <<c>>
<1>3. s \in Seq(GoodFrame) /\ Len(s) = 1 /\ s[1] = c /\ Becomes(s)
  BY <1>1
<1> HIDE DEF s
<1>4. /\ Len(calls') = Len(s) + Len(calls) - 1 /\ DOMAIN calls' = 1..Len(calls')
      /\ \A i \in 1..Len(s) : calls'[i] = s[i]
      /\ \A i \in (Len(s) + 1)..Len(calls') : calls'[i] = calls[i - Len(s) + 1]
  BY <1>3, StackBecomes
<1>5. Len(calls') = Len(calls)
  BY <1>2, <1>3, <1>4
<1>6. QED
  BY <1>2, <1>3, <1>4, <1>5

\* ... or returns to the one below.
LEMMA StackReturn ==
  ASSUME Typed, calls # <<>>, Return
  PROVE  /\ Len(calls') = Len(calls) - 1 /\ DOMAIN calls' = 1..(Len(calls) - 1)
         /\ \A i \in 1..(Len(calls) - 1) : calls'[i] = calls[i + 1]
<1>1. calls \in Seq(GoodFrame)
  BY DEF Typed
<1>2. /\ Tail(calls) \in Seq(GoodFrame) /\ Len(Tail(calls)) = Len(calls) - 1
      /\ \A i \in 1..Len(Tail(calls)) : Tail(calls)[i] = calls[i + 1]
  BY <1>1, HeadTailProperties
<1>3. QED
  BY <1>2, LenProperties DEF Return

(***************************************************************************)
(* What a step leaves as it was                                            *)
(***************************************************************************)
LEMMA OwnedKept ==
  ASSUME Typed, OneProcess, Owned, SameProcs, UNCHANGED <<runtime, pendingStop>>
  PROVE  OneProcess' /\ Owned'
<1>1. \A e \in Exts : runtime[e] # 0 => runtime[e] \in Procs
  BY BoundsAssumption DEF Typed, TypeOK, Procs
<1>2. OneProcess'
  BY DEF OneProcess, SameProcs
<1>3. \A p \in Procs : Unreported(p)' => procs[p].ext \in Exts
  BY DEF SameProcs, Typed, Unreported
<1>4. Owned'
  BY <1>1, <1>3 DEF Owned, SameProcs
<1>5. QED
  BY <1>2, <1>4

\* The stack moves by k calls and no loop is added.
LEMMA DrainsShift ==
  ASSUME Drains, UNCHANGED draining, NEW k \in Int, DOMAIN calls' \subseteq Int,
         \A i \in DOMAIN calls' : calls'[i].op = "drain" =>
           /\ i + k \in DOMAIN calls /\ calls[i + k].op = "drain"
           /\ calls'[i].ext = calls[i + k].ext
  PROVE  Drains'
<1>1. \A i, j \in Int : i + k = j + k => i = j
  OBVIOUS
<1>2. \A i, j \in DOMAIN calls' : i + k = j + k => i = j
  BY <1>1
<1>3. QED
  BY <1>2 DEF Drains

LEMMA DrainsKept ==
  ASSUME Typed, Drains, calls # <<>>, UNCHANGED draining,
         NEW s \in Seq(GoodFrame), Becomes(s), \A i \in 1..Len(s) : s[i].op # "drain"
  PROVE  Drains'
<1>1. Len(calls) \in Nat /\ DOMAIN calls = 1..Len(calls) /\ Len(calls) >= 1
  BY Stack
<1>2. /\ Len(s) \in Nat
      /\ Len(calls') = Len(s) + Len(calls) - 1 /\ DOMAIN calls' = 1..Len(calls')
      /\ \A i \in 1..Len(s) : calls'[i] = s[i]
      /\ \A i \in (Len(s) + 1)..Len(calls') : calls'[i] = calls[i - Len(s) + 1]
  BY StackBecomes
<1> DEFINE k == 1 - Len(s)
<1>3. k \in Int /\ DOMAIN calls' \subseteq Int
  BY <1>1, <1>2
<1>4. \A i \in DOMAIN calls' : calls'[i].op = "drain" =>
        i + k \in DOMAIN calls /\ calls'[i] = calls[i + k]
  <2>1. ASSUME NEW i \in DOMAIN calls', calls'[i].op = "drain" PROVE i \in (Len(s) + 1)..Len(calls')
    BY <1>2, <2>1
  <2>2. ASSUME NEW i \in (Len(s) + 1)..Len(calls') PROVE i + k = i - Len(s) + 1 /\ i + k \in DOMAIN calls
    BY <1>1, <1>2
  <2>3. QED
    BY <1>2, <2>1, <2>2
<1> HIDE DEF k
<1>5. QED
  BY <1>3, <1>4, DrainsShift

LEMMA DrainsReturn ==
  ASSUME Typed, Drains, calls # <<>>, UNCHANGED draining, Return
  PROVE  Drains'
<1>1. Len(calls) \in Nat /\ DOMAIN calls = 1..Len(calls) /\ Len(calls) >= 1
  BY Stack
<1>2. /\ DOMAIN calls' = 1..(Len(calls) - 1)
      /\ \A i \in 1..(Len(calls) - 1) : calls'[i] = calls[i + 1]
  BY StackReturn
<1> DEFINE k == 1
<1>3. /\ k \in Int /\ DOMAIN calls' \subseteq Int
      /\ \A i \in DOMAIN calls' : i + k \in DOMAIN calls /\ calls'[i] = calls[i + k]
  BY <1>1, <1>2
<1> HIDE DEF k
<1>4. QED
  BY <1>3, DrainsShift

\* A waiting drain of the callbacks stays safe while its id's processes, runtime
\* and stop in flight stay as they are.
LEMMA HandledKept ==
  ASSUME Typed, Handled, SameProcs, UNCHANGED runtime,
         \A e \in Exts : pendingStop'[e].on => pendingStop[e].on,
         NEW k \in Int, DOMAIN calls' \subseteq Int,
         \A i \in DOMAIN calls' : Waiting(i)' => Waiting(i + k) /\ calls'[i] = calls[i + k]
  PROVE  Handled'
<1>1. SUFFICES ASSUME NEW i \in DOMAIN calls', Waiting(i)'
               PROVE  /\ \A p \in Procs : (Unreported(p)' /\ procs'[p].ext = calls'[i].ext)
                                            => runtime'[calls'[i].ext] = p
                      /\ \A j \in DOMAIN calls' : (Waiting(j)' /\ j # i)
                                            => ~pendingStop'[calls'[i].ext].on
  BY DEF Handled
<1>2. Waiting(i + k) /\ calls'[i] = calls[i + k] /\ i + k \in DOMAIN calls
  BY <1>1 DEF Waiting
<1>3. calls[i + k].ext \in Exts
  BY <1>2, Stack
<1>4. \A p \in Procs : (Unreported(p)' /\ procs'[p].ext = calls'[i].ext) => runtime'[calls'[i].ext] = p
  BY <1>2 DEF Handled, SameProcs
<1>5. ASSUME NEW j \in DOMAIN calls', Waiting(j)', j # i
      PROVE  ~pendingStop'[calls'[i].ext].on
  <2>1. Waiting(j + k) /\ j + k \in DOMAIN calls
    BY <1>5 DEF Waiting
  <2>2. i \in Int /\ j \in Int
    OBVIOUS
  <2>3. j + k # i + k
    BY <2>2, <1>5
  <2>4. ~pendingStop[calls[i + k].ext].on
    BY <1>2, <2>1, <2>3 DEF Handled
  <2>5. QED
    BY <1>2, <1>3, <2>4
<1>6. QED
  BY <1>4, <1>5

\* What is known of the stack at one waiting drain of the callbacks.
LEMMA NestedAt ==
  ASSUME Typed, Nested, NEW i \in DOMAIN calls, Waiting(i)
  PROVE  /\ i \in 1..Len(calls) /\ i \in Int
         /\ \A j \in 1..(i - 1) : calls[j].ext = calls[i].ext
         /\ \A j \in 3..(i - 1) : calls[j].op = "drainCallbacks"
         /\ i > 2 => \/ calls[2].op = "drainCallbacks"
                     \/ calls[2].op = "drain" /\ calls[1].op \in InJob
         /\ i > 1 => calls[1].op # "pollExit"
         /\ (i > 1 /\ calls[1].op # "drainCallbacks") => runtime[calls[i].ext] = 0
         /\ (i > 1 /\ calls[1].op = "stopPreview") => preview = NoPreview \/ preview.ext = calls[1].ext
<1>1. i \in 1..Len(calls) /\ Len(calls) \in Nat
  BY Stack
<1>2. i \in Int
  BY <1>1
<1>3. QED
  BY <1>1, <1>2 DEF Nested

\* The call on top, which is not such a drain, goes on as another one.
LEMMA NestedGoesOn ==
  ASSUME Typed, Nested, calls # <<>>, NEW c \in GoodFrame, Becomes(<<c>>),
         UNCHANGED runtime,
         calls[1].op # "drainCallbacks",
         c.op \notin {"drainCallbacks", "pollExit", "stopPreview"},
         \A i \in DOMAIN calls : Waiting(i) => c.ext = calls[i].ext,
         \/ c.op \in InJob \/ calls[1].op \notin InJob
         \/ \A i \in DOMAIN calls : calls[i].op = "drain" => calls[i].ext # c.ext
  PROVE  Nested'
<1>1. Len(calls) \in Nat /\ DOMAIN calls = 1..Len(calls) /\ Len(calls) >= 1
  BY Stack
<1>2. /\ DOMAIN calls' = 1..Len(calls) /\ calls'[1] = c
      /\ \A i \in 2..Len(calls) : calls'[i] = calls[i]
  BY StackOne
<1>3. SUFFICES ASSUME NEW i \in DOMAIN calls', Waiting(i)'
               PROVE  /\ \A j \in 1..(i - 1) : calls'[j].ext = calls'[i].ext
                      /\ \A j \in 3..(i - 1) : calls'[j].op = "drainCallbacks"
                      /\ i > 2 => \/ calls'[2].op = "drainCallbacks"
                                  \/ calls'[2].op = "drain" /\ calls'[1].op \in InJob
                      /\ i > 1 => calls'[1].op # "pollExit"
                      /\ (i > 1 /\ calls'[1].op # "drainCallbacks") => runtime'[calls'[i].ext] = 0
                      /\ (i > 1 /\ calls'[1].op = "stopPreview")
                           => preview' = NoPreview \/ preview'.ext = calls'[1].ext
  BY DEF Nested
<1>4. i \in 2..Len(calls) /\ calls'[i] = calls[i] /\ Waiting(i) /\ i \in DOMAIN calls
  BY <1>1, <1>2, <1>3 DEF Waiting
<1>5. calls[i].ext = c.ext
  BY <1>4
<1>6. /\ \A j \in 1..(i - 1) : calls[j].ext = calls[i].ext
      /\ \A j \in 3..(i - 1) : calls[j].op = "drainCallbacks"
      /\ i > 2 => \/ calls[2].op = "drainCallbacks"
                  \/ calls[2].op = "drain" /\ calls[1].op \in InJob
      /\ (i > 1 /\ calls[1].op # "drainCallbacks") => runtime[calls[i].ext] = 0
  BY <1>4, NestedAt
<1>7. \A j \in 1..(i - 1) : calls'[j].ext = calls'[i].ext
  BY <1>1, <1>2, <1>4, <1>5, <1>6
<1>8. \A j \in 3..(i - 1) : calls'[j].op = "drainCallbacks"
  BY <1>1, <1>2, <1>4, <1>6
<1>9. ASSUME i > 2
      PROVE  \/ calls'[2].op = "drainCallbacks"
             \/ calls'[2].op = "drain" /\ calls'[1].op \in InJob
  <2>1. 2 \in 2..Len(calls) /\ 2 \in 1..(i - 1) /\ 2 \in DOMAIN calls
    BY <1>1, <1>4, <1>9
  <2>2. calls'[2] = calls[2] /\ calls[2].ext = c.ext
    BY <2>1, <1>2, <1>5, <1>6
  <2>3. QED
    BY <2>1, <2>2, <1>2, <1>6, <1>9
<1>10. runtime'[calls'[i].ext] = 0
  BY <1>4, <1>6
<1>11. QED
  BY <1>2, <1>7, <1>8, <1>9, <1>10

\* The call on top returns.
LEMMA NestedReturns ==
  ASSUME Typed, Nested, calls # <<>>, Return, UNCHANGED runtime,
         UNCHANGED preview
  PROVE  Nested'
<1>1. Len(calls) \in Nat /\ DOMAIN calls = 1..Len(calls) /\ Len(calls) >= 1
  BY Stack
<1>2. /\ DOMAIN calls' = 1..(Len(calls) - 1)
      /\ \A i \in 1..(Len(calls) - 1) : calls'[i] = calls[i + 1]
  BY StackReturn
<1>3. SUFFICES ASSUME NEW i \in DOMAIN calls', Waiting(i)'
               PROVE  /\ \A j \in 1..(i - 1) : calls'[j].ext = calls'[i].ext
                      /\ \A j \in 3..(i - 1) : calls'[j].op = "drainCallbacks"
                      /\ i > 2 => \/ calls'[2].op = "drainCallbacks"
                                  \/ calls'[2].op = "drain" /\ calls'[1].op \in InJob
                      /\ i > 1 => calls'[1].op # "pollExit"
                      /\ (i > 1 /\ calls'[1].op # "drainCallbacks") => runtime'[calls'[i].ext] = 0
                      /\ (i > 1 /\ calls'[1].op = "stopPreview")
                           => preview' = NoPreview \/ preview'.ext = calls'[1].ext
  BY DEF Nested
<1>4. i \in 1..(Len(calls) - 1) /\ calls'[i] = calls[i + 1] /\ Waiting(i + 1) /\ i + 1 \in DOMAIN calls
  BY <1>1, <1>2, <1>3 DEF Waiting
<1>6. /\ \A j \in 1..i : calls[j].ext = calls[i + 1].ext
      /\ \A j \in 3..i : calls[j].op = "drainCallbacks"
      /\ i + 1 > 2 => \/ calls[2].op = "drainCallbacks"
                      \/ calls[2].op = "drain" /\ calls[1].op \in InJob
      /\ (i + 1 > 1 /\ calls[1].op # "drainCallbacks") => runtime[calls[i + 1].ext] = 0
  <2> DEFINE k == i + 1
  <2>1. k \in DOMAIN calls /\ Waiting(k) /\ k - 1 = i
    BY <1>1, <1>4
  <2> HIDE DEF k
  <2>2. /\ \A j \in 1..(k - 1) : calls[j].ext = calls[k].ext
        /\ \A j \in 3..(k - 1) : calls[j].op = "drainCallbacks"
        /\ k > 2 => \/ calls[2].op = "drainCallbacks"
                    \/ calls[2].op = "drain" /\ calls[1].op \in InJob
        /\ (k > 1 /\ calls[1].op # "drainCallbacks") => runtime[calls[k].ext] = 0
    BY <2>1, NestedAt
  <2>3. QED
    BY <2>1, <2>2 DEF k
<1>7. \A j \in 1..(i - 1) : calls'[j].ext = calls'[i].ext
  BY <1>1, <1>2, <1>4, <1>6
<1>8. \A j \in 2..(i - 1) : calls'[j].op = "drainCallbacks"
  BY <1>1, <1>2, <1>4, <1>6
<1>9. ASSUME i > 1
      PROVE  /\ calls'[1] = calls[2]
             /\ \/ calls[2].op = "drainCallbacks"
                \/ calls[2].op = "drain" /\ calls[1].op \in InJob
  BY <1>1, <1>2, <1>4, <1>6, <1>9
<1>10. i > 2 => calls'[2].op = "drainCallbacks"
  BY <1>4, <1>8
<1>11. (i > 1 /\ calls'[1].op # "drainCallbacks") => runtime'[calls'[i].ext] = 0
  <2>1. "drainCallbacks" \notin InJob
    BY DEF InJob
  <2>2. QED
    BY <1>4, <1>6, <1>9, <2>1
<1>12. i > 1 => calls'[1].op \notin {"pollExit", "stopPreview"}
  BY <1>9
<1>13. QED
  BY <1>4, <1>7, <1>8, <1>10, <1>11, <1>12

\* A handler's call goes on as another one, or returns, and leaves runtimes,
\* stops and loops alone.
LEMMA GoesOn ==
  ASSUME Typed, Orderly, calls # <<>>, NEW c \in GoodFrame, Becomes(<<c>>),
         SameProcs, UNCHANGED <<runtime, pendingStop, draining>>,
         calls[1].op # "drainCallbacks",
         c.op \notin {"drainCallbacks", "pollExit", "stopPreview", "drain"},
         c.op \in InJob \/ calls[1].op \notin InJob,
         \A i \in DOMAIN calls : Waiting(i) => c.ext = calls[i].ext
  PROVE  Orderly'
<1>1. OneProcess' /\ Owned'
  BY OwnedKept DEF Orderly
<1>2. Drains'
  <2> DEFINE s == <<c>>
  <2>1. s \in Seq(GoodFrame) /\ Becomes(s) /\ \A i \in 1..Len(s) : s[i].op # "drain"
    OBVIOUS
  <2> HIDE DEF s
  <2>2. QED
    BY <2>1, DrainsKept DEF Orderly
<1>3. Nested'
  BY NestedGoesOn DEF Orderly
<1>4. Handled'
  <2>1. /\ DOMAIN calls = 1..Len(calls) /\ Len(calls) \in Nat
        /\ DOMAIN calls' = 1..Len(calls) /\ calls'[1] = c
        /\ \A i \in 2..Len(calls) : calls'[i] = calls[i]
    BY Stack, StackOne
  <2>2. \A i \in DOMAIN calls' : Waiting(i)' => Waiting(i + 0) /\ calls'[i] = calls[i + 0]
    BY <2>1 DEF Waiting
  <2>3. DOMAIN calls' \subseteq Int /\ 0 \in Int
    BY <2>1
  <2> DEFINE k == 0
  <2> HIDE DEF k
  <2>4. /\ k \in Int
        /\ \A i \in DOMAIN calls' : Waiting(i)' => Waiting(i + k) /\ calls'[i] = calls[i + k]
    BY <2>2 DEF k
  <2>5. QED
    BY <2>3, <2>4, HandledKept DEF Orderly
<1>5. QED
  BY <1>1, <1>2, <1>3, <1>4 DEF Orderly

LEMMA HandledReturns ==
  ASSUME Typed, Handled, calls # <<>>, Return, SameProcs, UNCHANGED runtime,
         \A e \in Exts : pendingStop'[e].on => pendingStop[e].on
  PROVE  Handled'
<1>1. /\ DOMAIN calls = 1..Len(calls) /\ Len(calls) \in Nat
      /\ DOMAIN calls' = 1..(Len(calls) - 1)
      /\ \A i \in 1..(Len(calls) - 1) : calls'[i] = calls[i + 1]
  BY Stack, StackReturn
<1> DEFINE k == 1
<1>2. /\ k \in Int /\ DOMAIN calls' \subseteq Int
      /\ \A i \in DOMAIN calls' : Waiting(i)' => Waiting(i + k) /\ calls'[i] = calls[i + k]
  BY <1>1 DEF Waiting
<1> HIDE DEF k
<1>3. QED
  BY <1>2, HandledKept

LEMMA Returns ==
  ASSUME Typed, Orderly, calls # <<>>, Return, SameProcs,
         UNCHANGED <<runtime, pendingStop, draining, preview>>
  PROVE  Orderly'
<1>1. OneProcess' /\ Owned'
  BY OwnedKept DEF Orderly
<1>2. Drains' /\ Nested' /\ Handled'
  BY DrainsReturn, NestedReturns, HandledReturns DEF Orderly
<1>3. QED
  BY <1>1, <1>2 DEF Orderly

\* An event of the main loop, which makes the first calls.
LEMMA FirstCalls ==
  ASSUME Typed, Orderly, SameProcs, UNCHANGED <<runtime, pendingStop>>,
         \A i \in DOMAIN calls' : calls'[i].op \notin {"drainCallbacks", "drain"}
  PROVE  Orderly'
<1>1. OneProcess' /\ Owned'
  BY OwnedKept DEF Orderly
<1>2. Drains' /\ Nested' /\ Handled'
  BY DEF Drains, Nested, Handled, Waiting
<1>3. QED
  BY <1>1, <1>2 DEF Orderly

\* Nothing of the stack or of the processes changes, as far as Orderly sees.
LEMMA StackKept ==
  ASSUME Typed, Orderly, SameProcs, UNCHANGED <<runtime, pendingStop, draining, calls, preview>>
  PROVE  Orderly'
<1>1. OneProcess' /\ Owned'
  BY OwnedKept DEF Orderly
<1>2. Drains' /\ Nested'
  BY DEF Orderly, Drains, Nested, Waiting
<1>3. Handled'
  BY DEF Orderly, Handled, Waiting, SameProcs
<1>4. QED
  BY <1>1, <1>2, <1>3 DEF Orderly

LEMMA SameProcsUnchanged == ASSUME UNCHANGED procs PROVE SameProcs
BY DEF SameProcs, Unreported

LEMMA SameProcsStale == ASSUME Typed, NEW e, NEW kinds, procs' = MarkStale(e, kinds) PROVE SameProcs
<1>1. \A p \in Procs : /\ [procs[p] EXCEPT !.stale = TRUE].st = procs[p].st
                       /\ [procs[p] EXCEPT !.stale = TRUE].ext = procs[p].ext
                       /\ [procs[p] EXCEPT !.stale = TRUE].aborted = procs[p].aborted
  BY DEF Typed, TypeOK, Proc
<1>2. QED
  BY <1>1 DEF SameProcs, Unreported, MarkStale

-------------------------------------------------------------------------------
(* One lemma per operation *)

\* The call on top runs for the id whose callbacks wait below it, which has no
\* runtime then.
LEMMA TopAbove ==
  ASSUME Typed, Orderly, calls # <<>>, Head(calls).op # "drainCallbacks"
  PROVE  /\ calls[1] = Head(calls)
         /\ \A i \in DOMAIN calls : Waiting(i) =>
              /\ i > 1 /\ calls[i].ext = Head(calls).ext
              /\ runtime[Head(calls).ext] = 0
              /\ Head(calls).op # "pollExit"
<1>1. calls[1] = Head(calls) /\ DOMAIN calls = 1..Len(calls) /\ Len(calls) \in Nat
  BY Stack
<1>2. SUFFICES ASSUME NEW i \in DOMAIN calls, Waiting(i)
               PROVE  /\ i > 1 /\ calls[i].ext = Head(calls).ext
                      /\ runtime[Head(calls).ext] = 0
                      /\ Head(calls).op # "pollExit"
  BY <1>1
<1>3. i > 1
  BY <1>1, <1>2 DEF Waiting
<1>4. 1 \in 1..(i - 1)
  BY <1>1, <1>3
<1>5. QED
  BY <1>1, <1>2, <1>3, <1>4, NestedAt DEF Orderly

LEMMA GoesOnHere ==
  ASSUME Typed, Orderly, calls # <<>>, NEW c \in GoodFrame, Becomes(<<c>>),
         SameProcs, UNCHANGED <<runtime, pendingStop, draining>>,
         Head(calls).op # "drainCallbacks",
         c.op \notin {"drainCallbacks", "pollExit", "stopPreview", "drain"},
         c.op \in InJob \/ Head(calls).op \notin InJob,
         c.ext = Head(calls).ext
  PROVE  Orderly'
BY TopAbove, GoesOn

LEMMA ReconcileOrderly == Typed /\ Orderly /\ Reconcile => Orderly'
<1> SUFFICES ASSUME Typed, Orderly, Reconcile PROVE Orderly'
  OBVIOUS
<1> DEFINE e == Head(calls).ext
           r == Get(e)
<1>1. /\ e \in Exts /\ r \in Rec /\ calls # <<>> /\ Head(calls).op = "reconcile"
      /\ SameProcs /\ UNCHANGED <<runtime, pendingStop, draining, preview>>
  BY TopTyped, RegistryTyped, SameProcsUnchanged DEF Reconcile, Running, lifeVars, jobVars
<1>2. \/ Return
      \/ Becomes(<<CallRec("start", e, r)>>)
      \/ Becomes(<<Call("stop", e)>>)
  BY DEF Reconcile
<1>3. /\ CallRec("start", e, r) \in GoodFrame /\ CallRec("start", e, r).op = "start"
      /\ CallRec("start", e, r).ext = e
      /\ Call("stop", e) \in GoodFrame /\ Call("stop", e).op = "stop" /\ Call("stop", e).ext = e
  <2>1. CallRec("start", e, r) \in GoodFrame /\ Call("stop", e) \in GoodFrame
    BY <1>1, CallRecGood, CallGood DEF Op
  <2>2. QED
    BY <2>1 DEF CallRec, Call
<1>4. Head(calls).op \notin InJob
  BY <1>1 DEF InJob
<1> HIDE DEF e, r
<1>5. QED
  BY <1>1, <1>2, <1>3, <1>4, GoesOnHere, Returns DEF e

LEMMA EnqueueOrderly == Typed /\ Orderly /\ Enqueue => Orderly'
<1> SUFFICES ASSUME Typed, Orderly, Enqueue PROVE Orderly'
  OBVIOUS
<1> DEFINE e == Head(calls).ext
<1>1. /\ e \in Exts /\ calls # <<>> /\ Head(calls).op = "enqueue"
      /\ SameProcs /\ UNCHANGED <<runtime, pendingStop, draining>>
  BY TopTyped, SameProcsUnchanged DEF Enqueue, Running, lifeVars
<1>2. Becomes(<<Call("runNext", e)>>)
  BY DEF Enqueue
<1>3. Call("runNext", e) \in GoodFrame /\ Call("runNext", e).op = "runNext" /\ Call("runNext", e).ext = e
  BY <1>1, CallGood DEF Op, Call
<1>4. "runNext" \in InJob
  BY DEF InJob
<1>5. QED
  BY <1>1, <1>2, <1>3, <1>4, GoesOnHere

\* What a job, a callback or the release of an id goes on as.
LEMMA JobCalls ==
  ASSUME NEW e \in Exts, NEW op \in {"release", "runNext", "remove"}
  PROVE  /\ Call(op, e) \in GoodFrame /\ Call(op, e).op \in InJob /\ Call(op, e).ext = e
         /\ Call(op, e).op \notin {"drainCallbacks", "pollExit", "stopPreview", "drain"}
BY CallGood DEF Op, Callback, Call, InJob

LEMMA StopCalls ==
  ASSUME NEW e \in Exts, NEW cb \in Callback
  PROVE  /\ CallWith("stop", e, cb) \in GoodFrame
         /\ CallWith("stop", e, cb).op = "stop" /\ CallWith("stop", e, cb).ext = e
BY CallWithGood DEF Op, Callback, CallWith, Call

LEMMA JobOrderly == Typed /\ Orderly /\ Job => Orderly'
<1> SUFFICES ASSUME Typed, Orderly, Job PROVE Orderly'
  OBVIOUS
<1> DEFINE e == Head(calls).ext
<1>1. /\ e \in Exts /\ calls # <<>> /\ Head(calls).op = "job"
      /\ SameProcs /\ UNCHANGED <<runtime, pendingStop, draining, preview>>
  BY TopTyped, SameProcsUnchanged DEF Job, Running, lifeVars
<1>2. \/ Return \/ Becomes(<<Call("release", e)>>) \/ Becomes(<<Call("remove", e)>>)
      \/ Becomes(<<CallWith("stop", e, "release")>>) \/ Becomes(<<CallWith("stop", e, "remove")>>)
  BY DEF Job, StopExtension
<1>3. CASE Return
  BY <1>1, <1>3, Returns
<1>4. CASE \E op \in {"release", "remove"} : Becomes(<<Call(op, e)>>)
  BY <1>1, <1>4, JobCalls, GoesOnHere
<1>5. CASE \E cb \in {"release", "remove"} : Becomes(<<CallWith("stop", e, cb)>>)
  <2>1. "stop" \in InJob
    BY DEF InJob
  <2>2. {"release", "remove"} \subseteq Callback
    BY DEF Callback
  <2>3. QED
    BY <1>1, <1>5, <2>1, <2>2, StopCalls, GoesOnHere
<1>6. QED
  BY <1>2, <1>3, <1>4, <1>5

LEMMA ReleaseOrderly == Typed /\ Orderly /\ Release => Orderly'
<1> SUFFICES ASSUME Typed, Orderly, Release PROVE Orderly'
  OBVIOUS
<1>1. /\ Head(calls).ext \in Exts /\ calls # <<>> /\ Head(calls).op = "release"
      /\ SameProcs /\ UNCHANGED <<runtime, pendingStop, draining>>
      /\ Becomes(<<Call("runNext", Head(calls).ext)>>)
  BY TopTyped, SameProcsUnchanged DEF Release, Running, lifeVars
<1>2. QED
  BY <1>1, JobCalls, GoesOnHere

LEMMA SwapOrderly == Typed /\ Orderly /\ Swap => Orderly'
<1> SUFFICES ASSUME Typed, Orderly, Swap PROVE Orderly'
  OBVIOUS
<1>1. /\ Head(calls).ext \in Exts /\ calls # <<>> /\ Head(calls).op = "swap"
      /\ UNCHANGED <<runtime, pendingStop, draining>>
      /\ Becomes(<<Call("release", Head(calls).ext)>>)
  BY TopTyped DEF Swap, Running, lifeVars, jobVars
<1>2. SameProcs
  BY SameProcsUnchanged, SameProcsStale DEF Swap
<1>3. QED
  BY <1>1, <1>2, JobCalls, GoesOnHere

LEMMA RemoveOrderly == Typed /\ Orderly /\ Remove => Orderly'
<1> SUFFICES ASSUME Typed, Orderly, Remove PROVE Orderly'
  OBVIOUS
<1>1. /\ Head(calls).ext \in Exts /\ calls # <<>> /\ Head(calls).op = "remove"
      /\ UNCHANGED <<runtime, pendingStop, draining>>
      /\ Becomes(<<Call("release", Head(calls).ext)>>)
  BY TopTyped DEF Remove, Running, lifeVars, jobVars
<1>2. SameProcs
  BY SameProcsUnchanged, SameProcsStale DEF Remove
<1>3. QED
  BY <1>1, <1>2, JobCalls, GoesOnHere

LEMMA BootOrderly == Typed /\ Orderly /\ Boot => Orderly'
<1> SUFFICES ASSUME Typed, Orderly, Boot PROVE Orderly'
  OBVIOUS
<1> DEFINE e == Head(calls).ext
           r == Head(calls).rec
<1>1. /\ e \in Exts /\ r \in Rec /\ calls # <<>> /\ Head(calls).op = "boot"
      /\ SameProcs /\ UNCHANGED <<runtime, pendingStop, draining, preview>>
      /\ Return \/ Becomes(<<CallRec("start", e, r)>>)
  BY TopTyped, SameProcsUnchanged DEF Boot, Running, lifeVars, jobVars
<1>2. /\ CallRec("start", e, r) \in GoodFrame /\ CallRec("start", e, r).op = "start"
      /\ CallRec("start", e, r).ext = e
  <2>1. CallRec("start", e, r) \in GoodFrame
    BY <1>1, CallRecGood
  <2>2. QED
    BY <2>1 DEF CallRec, Call
<1>3. Head(calls).op \notin InJob
  BY <1>1 DEF InJob
<1> HIDE DEF e, r
<1>4. QED
  BY <1>1, <1>2, <1>3, GoesOnHere, Returns DEF e

LEMMA StopPreviewOrderly == Typed /\ Orderly /\ StopPreview => Orderly'
<1> SUFFICES ASSUME Typed, Orderly, StopPreview PROVE Orderly'
  OBVIOUS
<1>1. /\ calls # <<>> /\ Head(calls).op = "stopPreview"
      /\ SameProcs /\ UNCHANGED <<runtime, pendingStop, draining>>
  BY SameProcsUnchanged DEF StopPreview, Running, lifeVars, jobVars
<1>2. CASE preview = NoPreview
  BY <1>1, <1>2, Returns DEF StopPreview
<1>3. CASE preview # NoPreview
  <2> DEFINE c == CallWith("enqueue", preview.ext, "restart")
  <2>1. c \in GoodFrame /\ c.op = "enqueue" /\ c.ext = preview.ext
    <3>1. c \in GoodFrame
      BY <1>3, CallWithGood DEF Typed, Op, JobKind
    <3>2. QED
      BY <3>1 DEF CallWith, Call
  <2>2. Becomes(<<c>>)
    BY <1>3 DEF StopPreview
  <2> HIDE DEF c
  <2>3. \A i \in DOMAIN calls : Waiting(i) => c.ext = calls[i].ext
    BY <1>1, <1>3, <2>1, TopAbove, NestedAt DEF Orderly
  <2>4. Head(calls).op \notin InJob
    BY <1>1 DEF InJob
  <2>5. calls[1] = Head(calls)
    BY <1>1, TopAbove
  <2>6. QED
    BY <1>1, <2>1, <2>2, <2>3, <2>4, <2>5, GoesOn
<1>4. QED
  BY <1>2, <1>3

\* The loop is entered only when it is not on the stack.
LEMMA RunNextOrderly == Typed /\ Orderly /\ RunNext => Orderly'
<1> SUFFICES ASSUME Typed, Orderly, RunNext PROVE Orderly'
  OBVIOUS
<1> DEFINE e == Head(calls).ext
           c == Call("drain", e)
<1>1. /\ e \in Exts /\ calls # <<>> /\ Head(calls).op = "runNext"
      /\ SameProcs /\ UNCHANGED <<runtime, pendingStop, preview>>
  BY TopTyped, SameProcsUnchanged DEF RunNext, Running, lifeVars
<1>2. CASE draining[e]
  BY <1>1, <1>2, Returns DEF RunNext
<1>3. CASE ~draining[e]
  <2>1. c \in GoodFrame /\ c.op = "drain" /\ c.ext = e
    BY <1>1, CallGood DEF Op, Call
  <2>2. Becomes(<<c>>) /\ draining' = [draining EXCEPT ![e] = TRUE]
    BY <1>3 DEF RunNext
  <2> HIDE DEF c
  <2>3. \A i \in DOMAIN calls : calls[i].op = "drain" => calls[i].ext # e
    BY <1>3 DEF Orderly, Drains
  <2>4. calls[1] = Head(calls) /\ \A i \in DOMAIN calls : Waiting(i) => c.ext = calls[i].ext
    BY <1>1, <2>1, TopAbove
  <2>5. Nested'
    BY <1>1, <2>1, <2>2, <2>3, <2>4, NestedGoesOn DEF Orderly
  <2>6. /\ DOMAIN calls = 1..Len(calls) /\ Len(calls) \in Nat
        /\ DOMAIN calls' = 1..Len(calls) /\ calls'[1] = c
        /\ \A i \in 2..Len(calls) : calls'[i] = calls[i]
    BY <1>1, <2>1, <2>2, Stack, StackOne
  <2>7. Handled'
    <3> DEFINE k == 0
    <3>1. /\ k \in Int /\ DOMAIN calls' \subseteq Int
          /\ \A i \in DOMAIN calls' : Waiting(i)' => Waiting(i + k) /\ calls'[i] = calls[i + k]
      BY <2>1, <2>6 DEF Waiting
    <3> HIDE DEF k
    <3>2. QED
      BY <1>1, <3>1, HandledKept DEF Orderly
  <2>8. Drains'
    <3>1. \A i \in DOMAIN calls' :
            calls'[i].op = "drain" => calls'[i].ext \in Exts /\ (i = 1 \/ calls'[i] = calls[i])
      BY <1>1, <2>1, <2>6, Stack
    <3>2. \A f \in Exts : draining[f] => draining'[f]
      BY <2>2 DEF Typed, TypeOK
    <3>3. draining'[e]
      BY <1>1, <2>2 DEF Typed, TypeOK
    <3>4. DOMAIN calls' = DOMAIN calls
      BY <2>6
    <3>5. \A i \in DOMAIN calls' : calls'[i].op = "drain" => draining'[calls'[i].ext]
      BY <2>1, <2>6, <3>1, <3>2, <3>3, <3>4 DEF Orderly, Drains
    <3>6. \A i, j \in DOMAIN calls' :
            calls'[i].op = "drain" /\ calls'[j].op = "drain" /\ calls'[i].ext = calls'[j].ext => i = j
      BY <2>1, <2>3, <2>6, <3>1, <3>4 DEF Orderly, Drains
    <3>7. QED
      BY <3>5, <3>6 DEF Drains
  <2>9. OneProcess' /\ Owned'
    BY <1>1, OwnedKept DEF Orderly
  <2>10. QED
    BY <2>5, <2>7, <2>8, <2>9 DEF Orderly
<1>4. QED
  BY <1>2, <1>3

\* The loop starts a job above itself, or ends and reconciles.
LEMMA DrainOrderly == Typed /\ Orderly /\ Drain => Orderly'
<1> SUFFICES ASSUME Typed, Orderly, Drain PROVE Orderly'
  OBVIOUS
<1> DEFINE e == Head(calls).ext
<1>1. /\ e \in Exts /\ calls # <<>> /\ Head(calls).op = "drain"
      /\ SameProcs /\ UNCHANGED <<runtime, pendingStop, preview>>
  BY TopTyped, SameProcsUnchanged DEF Drain, Running, lifeVars
<1>2. OneProcess' /\ Owned'
  BY <1>1, OwnedKept DEF Orderly
<1>3. /\ calls[1] = Head(calls) /\ DOMAIN calls = 1..Len(calls) /\ Len(calls) \in Nat /\ Len(calls) >= 1
      /\ \A i \in DOMAIN calls : Waiting(i) => i > 1 /\ calls[i].ext = e /\ runtime[e] = 0
  BY <1>1, Stack, TopAbove
<1>4. CASE ~jobActive[e] /\ jobs[e] # <<>>
  <2> DEFINE j1 == CallWith("job", e, Head(jobs[e]))
             j2 == Call("drain", e)
             s == <<j1, j2>>
  <2>1. /\ j1 \in GoodFrame /\ j1.op = "job" /\ j1.ext = e
        /\ j2 \in GoodFrame /\ j2.op = "drain" /\ j2.ext = e
    <3>1. Head(jobs[e]) \in JobKind
      BY <1>1, <1>4, HeadTailProperties DEF Typed, TypeOK
    <3>2. j1 \in GoodFrame /\ j2 \in GoodFrame
      BY <1>1, <3>1, CallWithGood, CallGood DEF Op
    <3>3. QED
      BY <3>2 DEF CallWith, Call
  <2>2. Becomes(<<j1, j2>>) /\ UNCHANGED draining
    BY <1>4 DEF Drain
  <2> HIDE DEF j1, j2
  <2>3. s \in Seq(GoodFrame) /\ Len(s) = 2 /\ s[1] = j1 /\ s[2] = j2 /\ Becomes(s)
    BY <2>1, <2>2
  <2> HIDE DEF s
  <2>4. /\ Len(calls') = Len(calls) + 1 /\ DOMAIN calls' = 1..(Len(calls) + 1)
        /\ calls'[1] = j1 /\ calls'[2] = j2
        /\ \A i \in 3..(Len(calls) + 1) : calls'[i] = calls[i - 1]
    <3>1. /\ Len(calls') = Len(s) + Len(calls) - 1 /\ DOMAIN calls' = 1..Len(calls')
          /\ \A i \in 1..Len(s) : calls'[i] = s[i]
          /\ \A i \in (Len(s) + 1)..Len(calls') : calls'[i] = calls[i - Len(s) + 1]
      BY <1>1, <2>3, StackBecomes
    <3>2. QED
      BY <1>3, <2>3, <3>1
  <2>5. Drains'
    <3> DEFINE k == -1
    <3>1. k \in Int /\ DOMAIN calls' \subseteq Int
      BY <2>4
    <3>2. \A i \in DOMAIN calls' : calls'[i].op = "drain" =>
            /\ i + k \in DOMAIN calls /\ calls[i + k].op = "drain"
            /\ calls'[i].ext = calls[i + k].ext
      <4>1. ASSUME NEW i \in DOMAIN calls', calls'[i].op = "drain", i # 2
            PROVE  i - 1 \in DOMAIN calls /\ calls'[i] = calls[i - 1]
        BY <1>3, <2>1, <2>4, <4>1
      <4>2. 1 \in DOMAIN calls /\ calls[1].op = "drain" /\ calls'[2].ext = calls[1].ext
        BY <1>1, <1>3, <2>1, <2>4
      <4>3. 2 + k = 1 /\ \A i \in Int : i + k = i - 1
        OBVIOUS
      <4> HIDE DEF k
      <4>4. TAKE i \in DOMAIN calls'
      <4>5. CASE i = 2
        BY <4>2, <4>3, <4>5
      <4>6. CASE i # 2
        BY <3>1, <4>1, <4>3, <4>6
      <4>7. QED
        BY <4>5, <4>6
    <3> HIDE DEF k
    <3>3. QED
      BY <2>2, <3>1, <3>2, DrainsShift DEF Orderly
  <2>6. \A i \in DOMAIN calls' : Waiting(i)' =>
          i \in 3..(Len(calls) + 1) /\ Waiting(i - 1) /\ calls'[i] = calls[i - 1] /\ i - 1 \in DOMAIN calls
    BY <1>3, <2>1, <2>4 DEF Waiting
  <2>7. Handled'
    <3> DEFINE k == -1
    <3>1. /\ k \in Int /\ DOMAIN calls' \subseteq Int
          /\ \A i \in DOMAIN calls' : Waiting(i)' => Waiting(i + k) /\ calls'[i] = calls[i + k]
      BY <2>4, <2>6
    <3> HIDE DEF k
    <3>2. QED
      BY <1>1, <3>1, HandledKept DEF Orderly
  <2>8. Nested'
    <3>1. SUFFICES ASSUME NEW i \in DOMAIN calls', Waiting(i)'
                   PROVE  /\ \A j \in 1..(i - 1) : calls'[j].ext = calls'[i].ext
                          /\ \A j \in 3..(i - 1) : calls'[j].op = "drainCallbacks"
                          /\ runtime'[calls'[i].ext] = 0
      BY <2>1, <2>4 DEF Nested, InJob
    <3> DEFINE m == i - 1
    <3>2. /\ m \in 2..Len(calls) /\ m \in DOMAIN calls /\ Waiting(m) /\ calls'[i] = calls[m]
          /\ i = m + 1 /\ m \in Int
      BY <1>3, <2>6, <3>1
    <3> HIDE DEF m
    <3>3. /\ \A j \in 1..(m - 1) : calls[j].ext = e
          /\ \A j \in 3..(m - 1) : calls[j].op = "drainCallbacks"
          /\ m > 2 => calls[2].op = "drainCallbacks"
          /\ calls[m].ext = e /\ runtime[e] = 0
      <4>1. calls[1].op \notin InJob
        BY <1>1, <1>3 DEF InJob
      <4>2. QED
        BY <1>3, <3>2, <4>1, NestedAt DEF Orderly
    <3>4. \A j \in 3..m : calls'[j] = calls[j - 1]
      BY <1>3, <2>4, <3>2
    <3>5. \A j \in 3..m : calls[j - 1].op = "drainCallbacks" /\ calls[j - 1].ext = e
      BY <3>2, <3>3
    <3>6. \A j \in 3..m : calls'[j].ext = e /\ calls'[j].op = "drainCallbacks"
      BY <3>4, <3>5
    <3>7. \A j \in 1..m : j = 1 \/ j = 2 \/ j \in 3..m
      BY <3>2
    <3>8. \A j \in 1..m : calls'[j].ext = e
      BY <2>1, <2>4, <3>6, <3>7
    <3>9. calls'[i].ext = e /\ runtime'[e] = 0 /\ i - 1 = m
      BY <1>1, <3>2, <3>3
    <3>10. QED
      BY <3>6, <3>8, <3>9
  <2>9. QED
    BY <1>2, <2>5, <2>7, <2>8 DEF Orderly
<1>5. CASE ~(~jobActive[e] /\ jobs[e] # <<>>)
  <2> DEFINE c == Call("reconcile", e)
  <2>1. c \in GoodFrame /\ c.op = "reconcile" /\ c.ext = e
    BY <1>1, CallGood DEF Op, Call
  <2>2. draining' = [draining EXCEPT ![e] = FALSE] /\ (Return \/ Becomes(<<c>>))
    BY <1>5 DEF Drain
  <2> HIDE DEF c
  <2>3. \A i \in DOMAIN calls : i > 1 /\ calls[i].op = "drain" => calls[i].ext # e
    BY <1>1, <1>3 DEF Orderly, Drains
  <2>4. \A f \in Exts : f # e => draining'[f] = draining[f]
    BY <2>2 DEF Typed, TypeOK
  <2>5. \A i \in DOMAIN calls : i > 1 /\ calls[i].op = "drain" => draining'[calls[i].ext]
    BY <2>3, <2>4, Stack DEF Orderly, Drains
  <2>6. calls[1].op \notin InJob /\ calls[1].op # "drainCallbacks"
    BY <1>1, <1>3 DEF InJob
  <2>7. CASE Return
    <3>1. DOMAIN calls' = 1..(Len(calls) - 1) /\ \A i \in 1..(Len(calls) - 1) : calls'[i] = calls[i + 1]
      BY <1>1, <2>7, StackReturn
    <3>2. \A i \in DOMAIN calls' : i \in Int /\ i + 1 \in DOMAIN calls /\ i + 1 > 1 /\ calls'[i] = calls[i + 1]
      BY <1>3, <3>1
    <3>3. \A i, j \in DOMAIN calls' : i + 1 = j + 1 => i = j
      BY <3>1, <1>3
    <3>4. \A i, j \in DOMAIN calls' :
            calls'[i].op = "drain" /\ calls'[j].op = "drain" /\ calls'[i].ext = calls'[j].ext => i = j
      BY <3>2, <3>3 DEF Orderly, Drains
    <3>5. \A i \in DOMAIN calls' : calls'[i].op = "drain" => draining'[calls'[i].ext]
      BY <2>5, <3>2
    <3>6. Drains'
      BY <3>4, <3>5 DEF Drains
    <3>7. Nested' /\ Handled'
      BY <1>1, <2>7, NestedReturns, HandledReturns DEF Orderly
    <3>8. QED
      BY <1>2, <3>6, <3>7 DEF Orderly
  <2>8. CASE Becomes(<<c>>)
    <3>1. DOMAIN calls' = 1..Len(calls) /\ calls'[1] = c /\ \A i \in 2..Len(calls) : calls'[i] = calls[i]
      BY <1>1, <2>1, <2>8, StackOne
    <3>2. \A i \in DOMAIN calls' : calls'[i].op \in {"drain", "drainCallbacks"} =>
            i > 1 /\ i \in DOMAIN calls /\ calls'[i] = calls[i]
      BY <1>3, <2>1, <3>1
    <3>3. Drains'
      BY <2>5, <3>2 DEF Orderly, Drains
    <3>4. Nested'
      BY <1>1, <1>3, <2>1, <2>6, <2>8, NestedGoesOn DEF Orderly
    <3>5. Handled'
      <4> DEFINE k == 0
      <4>1. /\ k \in Int /\ DOMAIN calls' \subseteq Int
            /\ \A i \in DOMAIN calls' : Waiting(i)' => Waiting(i + k) /\ calls'[i] = calls[i + k]
        BY <1>3, <3>1, <3>2 DEF Waiting
      <4> HIDE DEF k
      <4>2. QED
        BY <1>1, <4>1, HandledKept DEF Orderly
    <3>6. QED
      BY <1>2, <3>3, <3>4, <3>5 DEF Orderly
  <2>9. QED
    BY <2>2, <2>7, <2>8
<1>6. QED
  BY <1>4, <1>5

\* The stop in flight is forgotten: its process has been reported, and a second
\* drain below finds nothing in flight.
LEMMA DrainCallbacksOrderly == Typed /\ Orderly /\ DrainCallbacks => Orderly'
<1> SUFFICES ASSUME Typed, Orderly, DrainCallbacks PROVE Orderly'
  OBVIOUS
<1> DEFINE e == Head(calls).ext
           cbs == pendingStop[e].cbs
           s == [i \in DOMAIN cbs |-> Call(cbs[i], e)]
<1>1. /\ e \in Exts /\ calls # <<>> /\ Head(calls).op = "drainCallbacks"
      /\ SameProcs /\ UNCHANGED <<runtime, preview, procs, draining>>
  BY TopTyped, SameProcsUnchanged DEF DrainCallbacks, Running, lifeVars, jobVars
<1>2. Becomes(s) /\ pendingStop' = [pendingStop EXCEPT ![e] = NoStop]
  BY DEF DrainCallbacks
<1>3. cbs \in Seq(Callback) /\ pendingStop \in [Exts -> [on: BOOLEAN, cbs: Seq(Callback)]]
  BY <1>1 DEF Typed, TypeOK
<1>4. /\ s \in Seq(GoodFrame) /\ Len(s) = Len(cbs)
      /\ \A i \in 1..Len(s) : s[i].op \in Callback
  <2>1. s \in Seq(GoodFrame)
    BY <1>1, <1>3, CallbackCalls
  <2>2. Len(cbs) \in Nat /\ DOMAIN cbs = 1..Len(cbs) /\ \A i \in 1..Len(cbs) : cbs[i] \in Callback
    BY <1>3, LenProperties, ElementOfSeq
  <2>3. DOMAIN s = 1..Len(cbs) /\ \A i \in 1..Len(cbs) : s[i] = Call(cbs[i], e)
    BY <2>2
  <2>4. Len(s) = Len(cbs)
    BY <2>1, <2>2, <2>3, LenProperties
  <2>5. \A i \in 1..Len(cbs) : s[i].op = cbs[i]
    BY <2>3 DEF Call
  <2>6. QED
    BY <2>1, <2>2, <2>4, <2>5
<1>5. /\ calls[1] = Head(calls) /\ DOMAIN calls = 1..Len(calls) /\ Len(calls) \in Nat /\ Len(calls) >= 1
      /\ 1 \in DOMAIN calls /\ Waiting(1) /\ calls[1].ext = e
  BY <1>1, Stack DEF Waiting
<1>6. /\ pendingStop'[e].on = FALSE /\ pendingStop'[e].cbs = <<>>
      /\ \A f \in Exts : f # e => pendingStop'[f] = pendingStop[f]
  BY <1>1, <1>2, <1>3 DEF NoStop
<1>7. OneProcess' /\ Owned'
  <2>1. \A p \in Procs : Unreported(p) /\ procs[p].ext = e => runtime[e] = p
    BY <1>5 DEF Orderly, Handled
  <2>2. \A p \in Procs : Unreported(p) => procs[p].ext \in Exts
    BY DEF Typed, Unreported
  <2>3. OneProcess' /\ \A p \in 1..MaxProcs : Unreported(p)' = Unreported(p)
    BY <1>1 DEF Orderly, OneProcess, Unreported
  <2>4. \A f \in Exts : runtime[f] # 0 => Unreported(runtime[f])'
    BY <1>1 DEF Orderly, Owned, Unreported
  <2>5. \A f \in Exts : runtime'[f] # 0 =>
          /\ Unreported(runtime[f])'
          /\ procs'[runtime'[f]].ext = f /\ ~procs'[runtime'[f]].aborted
    BY <1>1, <2>4 DEF Orderly, Owned
  <2>6. \A p \in Procs : Unreported(p)' => runtime'[procs'[p].ext] = p \/ pendingStop'[procs'[p].ext].on
    BY <1>1, <1>6, <2>1, <2>2, <2>3 DEF Orderly, Owned, Procs
  <2>7. /\ \A f \in Exts : pendingStop'[f].on => runtime'[f] = 0
        /\ \A f \in Exts : ~pendingStop'[f].on => pendingStop'[f].cbs = <<>>
    BY <1>1, <1>6 DEF Orderly, Owned
  <2>8. Owned'
    BY <1>1, <2>5, <2>6, <2>7 DEF Owned, Unreported
  <2>9. QED
    BY <2>3, <2>8
<1>8. Drains'
  <2>1. "drain" \notin Callback
    BY DEF Callback
  <2> HIDE DEF s
  <2>2. QED
    BY <1>1, <1>2, <1>4, <2>1, DrainsKept DEF Orderly
<1>9. CASE \E i \in DOMAIN calls : Waiting(i) /\ i # 1
  <2>1. ~pendingStop[e].on
    BY <1>5, <1>9 DEF Orderly, Handled
  <2>2. cbs = <<>>
    BY <1>1, <2>1 DEF Orderly, Owned
  <2>3. s = <<>>
    BY <1>4, <2>2, EmptySeq
  <2>4. Return
    <3>1. Tail(calls) \in Seq(GoodFrame)
      BY <1>1, TopTyped
    <3>2. QED
      BY <1>2, <2>3, <3>1, ConcatEmptySeq DEF Return, Becomes
  <2>5. \A f \in Exts : pendingStop'[f].on => pendingStop[f].on
    BY <1>6
  <2>6. Nested' /\ Handled'
    BY <1>1, <2>4, <2>5, NestedReturns, HandledReturns DEF Orderly
  <2>7. QED
    BY <1>7, <1>8, <2>6 DEF Orderly
<1>10. CASE ~\E i \in DOMAIN calls : Waiting(i) /\ i # 1
  <2> HIDE DEF s
  <2>1. /\ Len(s) \in Nat
        /\ Len(calls') = Len(s) + Len(calls) - 1 /\ DOMAIN calls' = 1..Len(calls')
        /\ \A i \in 1..Len(s) : calls'[i] = s[i]
        /\ \A i \in (Len(s) + 1)..Len(calls') : calls'[i] = calls[i - Len(s) + 1]
    BY <1>1, <1>2, <1>4, StackBecomes
  <2>2. "drainCallbacks" \notin Callback
    BY DEF Callback
  <2>3. ASSUME NEW i \in DOMAIN calls', Waiting(i)' PROVE FALSE
    <3>1. i \in (Len(s) + 1)..Len(calls')
      BY <1>4, <2>1, <2>2, <2>3 DEF Waiting
    <3> DEFINE k == i - Len(s) + 1
    <3>2. k \in DOMAIN calls /\ k # 1 /\ calls'[i] = calls[k]
      BY <1>5, <2>1, <3>1
    <3> HIDE DEF k
    <3>3. QED
      BY <1>10, <2>3, <3>2 DEF Waiting
  <2>4. Nested' /\ Handled'
    BY <2>3 DEF Nested, Handled
  <2>5. QED
    BY <1>7, <1>8, <2>4 DEF Orderly
<1>11. QED
  BY <1>9, <1>10

\* A registered process is stopped only where no callbacks of its id wait.
LEMMA StopOrderly == Typed /\ Orderly /\ Stop => Orderly'
<1> SUFFICES ASSUME Typed, Orderly, Stop PROVE Orderly'
  OBVIOUS
<1> DEFINE e == Head(calls).ext
           cbs == IF Head(calls).arg = "none" THEN <<>> ELSE <<Head(calls).arg>>
           p == runtime[e]
<1>1. /\ e \in Exts /\ calls # <<>> /\ Head(calls).op = "stop" /\ p \in 0..MaxProcs
      /\ UNCHANGED <<draining, preview>>
      /\ Head(calls).arg \in Callback \cup {"none"}
      /\ pendingStop \in [Exts -> [on: BOOLEAN, cbs: Seq(Callback)]]
      /\ runtime \in [Exts -> 0..MaxProcs]
  BY TopTyped DEF Stop, Running, Typed, TypeOK, GoodFrame, jobVars
<1>2. /\ calls[1] = Head(calls) /\ DOMAIN calls = 1..Len(calls) /\ Len(calls) \in Nat /\ Len(calls) >= 1
      /\ \A i \in DOMAIN calls : Waiting(i) => i > 1 /\ runtime[e] = 0
  BY <1>1, Stack, TopAbove
<1>3. CASE p # 0
  <2> DEFINE c == CallProc("pollExit", e, p)
  <2>1. /\ runtime' = [runtime EXCEPT ![e] = 0]
        /\ pendingStop' = [pendingStop EXCEPT ![e] = [on |-> TRUE, cbs |-> cbs]]
        /\ \/ /\ procs[p].st = "alive" /\ procs' = [procs EXCEPT ![p].aborted = TRUE]
              /\ Becomes(<<c>>)
           \/ UNCHANGED procs /\ Return
    BY <1>3 DEF Stop
  <2>2. p \in Procs /\ Unreported(p) /\ procs[p].ext = e
    BY <1>1, <1>3 DEF Procs, Orderly, Owned
  <2>3. c \in GoodFrame /\ c.op = "pollExit"
    <3>1. c \in GoodFrame
      BY <1>1, <2>2, CallProcGood
    <3>2. QED
      BY <3>1 DEF CallProc, Call
  <2> HIDE DEF c
  <2>4. Drains'
    <3>1. CASE Return
      BY <1>1, <3>1, DrainsReturn DEF Orderly
    <3>2. CASE Becomes(<<c>>)
      <4> DEFINE s == <<c>>
      <4>1. s \in Seq(GoodFrame) /\ Becomes(s) /\ \A i \in 1..Len(s) : s[i].op # "drain"
        BY <2>3, <3>2
      <4> HIDE DEF s
      <4>2. QED
        BY <1>1, <4>1, DrainsKept DEF Orderly
    <3>3. QED
      BY <2>1, <3>1, <3>2
  <2>5. \A i \in DOMAIN calls : ~Waiting(i)
    BY <1>2, <1>3
  <2>6. \A i \in DOMAIN calls' : ~Waiting(i)'
    <3>1. CASE Return
      <4>1. DOMAIN calls' = 1..(Len(calls) - 1) /\ \A i \in 1..(Len(calls) - 1) : calls'[i] = calls[i + 1]
        BY <1>1, <3>1, StackReturn
      <4>2. \A i \in DOMAIN calls' : i + 1 \in DOMAIN calls /\ calls'[i] = calls[i + 1]
        BY <1>2, <4>1
      <4>3. QED
        BY <2>5, <4>2 DEF Waiting
    <3>2. CASE Becomes(<<c>>)
      <4>1. DOMAIN calls' = 1..Len(calls) /\ calls'[1] = c /\ \A i \in 2..Len(calls) : calls'[i] = calls[i]
        BY <1>1, <2>3, <3>2, StackOne
      <4>2. \A i \in DOMAIN calls' : i = 1 \/ (i \in DOMAIN calls /\ calls'[i] = calls[i])
        BY <1>2, <4>1
      <4>3. QED
        BY <2>3, <2>5, <4>1, <4>2 DEF Waiting
    <3>3. QED
      BY <2>1, <3>1, <3>2
  <2>7. Nested' /\ Handled'
    BY <2>6 DEF Nested, Handled
  <2>8. \A q \in Procs : /\ Unreported(q)' <=> Unreported(q)
                         /\ procs'[q].ext = procs[q].ext
                         /\ q # p => procs'[q].aborted = procs[q].aborted
    <3>1. \A r \in Proc : /\ [r EXCEPT !.aborted = TRUE].st = r.st
                          /\ [r EXCEPT !.aborted = TRUE].ext = r.ext
      BY DEF Proc
    <3>2. PICK r \in Proc : /\ procs' = [procs EXCEPT ![p] = r]
                            /\ r.st = procs[p].st /\ r.ext = procs[p].ext
      <4>1. procs[p] \in Proc /\ procs \in [Procs -> Proc]
        BY <2>2 DEF Typed, TypeOK
      <4>2. [procs[p] EXCEPT !.aborted = TRUE] \in Proc
        BY <4>1 DEF Proc
      <4>3. CASE UNCHANGED procs
        BY <4>1, <4>3
      <4>4. CASE procs' = [procs EXCEPT ![p].aborted = TRUE]
        BY <3>1, <4>1, <4>2, <4>4
      <4>5. QED
        BY <2>1, <4>3, <4>4
    <3>3. QED
      BY <2>2, <3>2 DEF Unreported, Typed, TypeOK
  <2>9. OneProcess'
    BY <2>8 DEF Orderly, OneProcess
  <2>10. Owned'
    <3>1. runtime'[e] = 0 /\ \A f \in Exts : f # e => runtime'[f] = runtime[f]
      BY <1>1, <2>1
    <3>2. pendingStop'[e].on /\ \A f \in Exts : f # e => pendingStop'[f] = pendingStop[f]
      BY <1>1, <2>1
    <3>3. \A f \in Exts : runtime'[f] # 0 =>
            /\ f # e /\ runtime'[f] \in Procs /\ Unreported(runtime'[f]) /\ runtime'[f] # p
            /\ procs[runtime'[f]].ext = f /\ ~procs[runtime'[f]].aborted
      BY <1>1, <2>2, <3>1 DEF Orderly, Owned, Procs
    <3>4. \A f \in Exts : runtime'[f] # 0 =>
            Unreported(runtime[f])' /\ procs'[runtime'[f]].ext = f /\ ~procs'[runtime'[f]].aborted
      BY <2>8, <3>3 DEF Unreported
    <3>5. \A q \in Procs : Unreported(q)' =>
            runtime'[procs'[q].ext] = q \/ pendingStop'[procs'[q].ext].on
      <4>1. \A q \in Procs : Unreported(q) => procs[q].ext \in Exts
        BY DEF Typed, Unreported
      <4>2. QED
        BY <2>8, <3>1, <3>2, <4>1 DEF Orderly, Owned
    <3>6. /\ \A f \in Exts : pendingStop'[f].on => runtime'[f] = 0
          /\ \A f \in Exts : ~pendingStop'[f].on => pendingStop'[f].cbs = <<>>
      BY <3>1, <3>2 DEF Orderly, Owned
    <3>7. QED
      BY <3>4, <3>5, <3>6 DEF Owned, Unreported
  <2>11. QED
    BY <2>4, <2>7, <2>9, <2>10 DEF Orderly
<1>4. CASE p = 0 /\ pendingStop[e].on
  <2>1. UNCHANGED <<runtime, procs>> /\ Return /\ pendingStop' = [pendingStop EXCEPT ![e].cbs = @ \o cbs]
    BY <1>4 DEF Stop
  <2>2. /\ \A f \in Exts : pendingStop'[f].on <=> pendingStop[f].on
        /\ \A f \in Exts : ~pendingStop[f].on => pendingStop'[f] = pendingStop[f]
    <3>1. \A r \in [on: BOOLEAN, cbs: Seq(Callback)] : \A x : [r EXCEPT !.cbs = x].on = r.on
      OBVIOUS
    <3>2. PICK r : r.on = pendingStop[e].on /\ pendingStop' = [pendingStop EXCEPT ![e] = r]
      BY <1>1, <2>1, <3>1
    <3>3. QED
      BY <1>1, <1>4, <3>2
  <2>3. SameProcs
    BY <2>1, SameProcsUnchanged
  <2>4. OneProcess' /\ Drains' /\ Nested' /\ Handled'
    <3>1. OneProcess'
      BY <2>3 DEF Orderly, OneProcess, SameProcs
    <3>2. QED
      BY <1>1, <2>1, <2>2, <2>3, <3>1, DrainsReturn, NestedReturns, HandledReturns DEF Orderly
  <2>5. Owned'
    <3>1. \A f \in Exts : runtime'[f] # 0 =>
            Unreported(runtime[f])' /\ procs'[runtime'[f]].ext = f /\ ~procs'[runtime'[f]].aborted
      BY <2>1 DEF Orderly, Owned, Unreported
    <3>2. \A q \in Procs : Unreported(q)' =>
            runtime'[procs'[q].ext] = q \/ pendingStop'[procs'[q].ext].on
      <4>1. \A q \in Procs : Unreported(q) => procs[q].ext \in Exts
        BY DEF Typed, Unreported
      <4>2. QED
        BY <2>1, <2>2, <2>3, <4>1 DEF Orderly, Owned, SameProcs
    <3>3. QED
      <4>1. \A f \in Exts : pendingStop'[f].on => runtime'[f] = 0
        BY <2>1, <2>2 DEF Orderly, Owned
      <4>2. \A f \in Exts : ~pendingStop'[f].on => pendingStop'[f].cbs = <<>>
        BY <2>2 DEF Orderly, Owned
      <4>3. QED
        BY <3>1, <3>2, <4>1, <4>2 DEF Owned, Unreported
  <2>6. QED
    BY <2>4, <2>5 DEF Orderly
<1>5. CASE p = 0 /\ ~pendingStop[e].on
  <2>1. UNCHANGED <<runtime, procs, pendingStop>> /\ Becomes([i \in DOMAIN cbs |-> Call(cbs[i], e)])
    BY <1>5 DEF Stop
  <2>2. SameProcs
    BY <2>1, SameProcsUnchanged
  <2>3. CASE Head(calls).arg = "none"
    <3>1. [i \in DOMAIN cbs |-> Call(cbs[i], e)] = <<>>
      BY <2>3
    <3>2. Return
      <4>1. Tail(calls) \in Seq(GoodFrame)
        BY <1>1, TopTyped
      <4>2. QED
        BY <2>1, <3>1, <4>1, ConcatEmptySeq DEF Return, Becomes
    <3>3. QED
      BY <1>1, <2>1, <2>2, <3>2, Returns
  <2>4. CASE Head(calls).arg # "none"
    <3> DEFINE c == Call(Head(calls).arg, e)
    <3>1. /\ c \in GoodFrame /\ c.op \in InJob /\ c.ext = e
          /\ c.op \notin {"drainCallbacks", "pollExit", "stopPreview", "drain"}
      <4>1. c \in GoodFrame
        BY <1>1, <2>4, CallGood DEF Op, Callback
      <4>2. QED
        BY <1>1, <2>4, <4>1 DEF Call, Callback, InJob
    <3>2. [i \in DOMAIN cbs |-> Call(cbs[i], e)] = <<c>>
      BY <2>4
    <3> HIDE DEF c
    <3>3. QED
      BY <1>1, <2>1, <2>2, <3>1, <3>2, GoesOnHere
  <2>5. QED
    BY <2>3, <2>4
<1>6. QED
  BY <1>3, <1>4, <1>5

LEMMA TwoCalls ==
  ASSUME NEW a \in GoodFrame, NEW b \in GoodFrame
  PROVE  <<a>> \o <<b>> = <<a, b>>
<1>1. /\ <<a>> \in Seq(GoodFrame) /\ Len(<<a>>) = 1 /\ <<a>>[1] = a
      /\ <<b>> \in Seq(GoodFrame) /\ Len(<<b>>) = 1 /\ <<b>>[1] = b
      /\ <<a, b>> \in Seq(GoodFrame) /\ Len(<<a, b>>) = 2 /\ <<a, b>>[1] = a /\ <<a, b>>[2] = b
  OBVIOUS
<1> DEFINE x == <<a>>
           y == <<b>>
           z == <<a, b>>
           s == x \o y
<1> HIDE DEF x, y, z
<1>2. /\ s \in Seq(GoodFrame) /\ Len(s) = Len(x) + Len(y)
      /\ \A i \in 1..(Len(x) + Len(y)) : s[i] = IF i <= Len(x) THEN x[i] ELSE y[i - Len(x)]
  BY <1>1, ConcatProperties DEF x, y
<1> HIDE DEF s
<1>3. Len(x) = 1 /\ Len(y) = 1 /\ x[1] = a /\ y[1] = b
  BY <1>1 DEF x, y
<1>4. Len(z) = 2 /\ z[1] = a /\ z[2] = b /\ z \in Seq(GoodFrame)
  BY <1>1 DEF z
<1>5. Len(s) = 2 /\ s[1] = a /\ s[2] = b
  BY <1>2, <1>3
<1>6. \A i \in 1..2 : s[i] = z[i]
  BY <1>4, <1>5
<1>7. s = z
  BY <1>2, <1>4, <1>5, <1>6, SeqEqual
<1>8. QED
  BY <1>7 DEF s, x, y, z

\* The stack after an exit was handled: the drain of the callbacks is the call
\* n + 1, after the teardown of a failed preview (n = 1), and what the caller had
\* left to do comes after the call m, the last of the handler.
LEMMA StackExit ==
  ASSUME Typed, NEW e \in Exts, NEW r \in Rec, NEW errored \in BOOLEAN,
         NEW rest \in Seq(GoodFrame), HandleExit(e, r, errored, rest)
  PROVE  \E n \in {0, 1}, m \in {1, 2} :
           /\ DOMAIN calls' = 1..(m + Len(rest)) /\ Len(rest) \in Nat
           /\ calls'[n + 1] = Call("drainCallbacks", e)
           /\ n = 1 => errored /\ calls'[1] = Call("stopPreview", e) /\ preview.ext = e
           /\ errored => m = n + 1
           /\ ~errored => n = 0 /\ m = 2 /\ calls'[2] = Call("reconcile", e)
           /\ \A i \in 1..Len(rest) : calls'[m + i] = rest[i]
<1> DEFINE a == Call("stopPreview", e)
           b == Call("drainCallbacks", e)
           c == Call("reconcile", e)
           torn == errored /\ r.kind = "preview" /\ preview = [ext |-> e, tok |-> r.tok]
           before == IF torn THEN <<a>> ELSE <<>>
           after == IF errored THEN <<>> ELSE <<c>>
<1>1. a \in GoodFrame /\ b \in GoodFrame /\ c \in GoodFrame
  BY CallGood DEF Op
<1>2. calls' = ((before \o <<b>>) \o after) \o rest
  BY DEF HandleExit
<1>3. torn => errored /\ preview.ext = e
  OBVIOUS
<1>4. Len(rest) \in Nat
  BY LenProperties
<1> HIDE DEF a, b, c, torn
<1> DEFINE s == (before \o <<b>>) \o after
           n == IF torn THEN 1 ELSE 0
           m == IF torn \/ ~errored THEN 2 ELSE 1
<1>5. /\ s \in Seq(GoodFrame) /\ Len(s) = m
      /\ s[n + 1] = b /\ (torn => s[1] = a) /\ (~errored => s[2] = c)
  <2>1. CASE torn
    <3>1. s = <<a, b>>
      <4>1. before = <<a>> /\ after = <<>>
        BY <1>3, <2>1
      <4>2. <<a>> \o <<b>> = <<a, b>>
        BY <1>1, TwoCalls
      <4>3. <<a, b>> \in Seq(GoodFrame)
        BY <1>1
      <4> HIDE DEF before, after
      <4>4. s = <<a, b>> \o <<>>
        BY <4>1, <4>2
      <4>5. QED
        BY <4>3, <4>4, ConcatEmptySeq
    <3>2. QED
      BY <1>1, <1>3, <2>1, <3>1
  <2>2. CASE ~torn /\ errored
    <3>1. s = <<b>>
      BY <1>1, <2>2
    <3>2. QED
      BY <1>1, <2>2, <3>1
  <2>3. CASE ~torn /\ ~errored
    <3>1. s = <<b, c>>
      <4>1. before = <<>> /\ after = <<c>>
        BY <2>3
      <4>2. <<b>> \o <<c>> = <<b, c>>
        BY <1>1, TwoCalls
      <4>3. <<b>> \in Seq(GoodFrame)
        BY <1>1
      <4> HIDE DEF before, after
      <4>4. <<>> \o <<b>> = <<b>>
        BY <4>3, ConcatEmptySeq
      <4>5. QED
        BY <4>1, <4>2, <4>4
    <3>2. QED
      BY <1>1, <2>3, <3>1
  <2>4. QED
    BY <2>1, <2>2, <2>3
<1>6. calls' = s \o rest
  BY <1>2
<1>7. /\ n \in {0, 1} /\ m \in {1, 2} /\ n + 1 \in 1..m
      /\ n = 1 => torn
      /\ errored => m = n + 1
      /\ ~errored => n = 0 /\ m = 2
  BY <1>3
<1> HIDE DEF s, n, m
<1>8. /\ calls' \in Seq(GoodFrame) /\ Len(calls') = m + Len(rest)
      /\ \A i \in 1..(m + Len(rest)) : calls'[i] = IF i <= m THEN s[i] ELSE rest[i - m]
  BY <1>5, <1>6, ConcatProperties
<1>9. DOMAIN calls' = 1..(m + Len(rest))
  BY <1>8, LenProperties
<1>10. /\ calls'[n + 1] = b
       /\ n = 1 => calls'[1] = a
       /\ ~errored => calls'[2] = c
  <2>1. n + 1 \in 1..(m + Len(rest)) /\ n + 1 <= m /\ n + 1 \in Int
    BY <1>4, <1>7
  <2>2. calls'[n + 1] = b
    BY <1>5, <1>8, <2>1
  <2>3. 1 \in 1..(m + Len(rest)) /\ 1 <= m
    BY <1>4, <1>7
  <2>4. n = 1 => calls'[1] = a
    BY <1>5, <1>7, <1>8, <2>3
  <2>5. ~errored => 2 \in 1..(m + Len(rest)) /\ 2 <= m
    BY <1>4, <1>7
  <2>6. ~errored => calls'[2] = c
    BY <1>5, <1>8, <2>5
  <2>7. QED
    BY <2>2, <2>4, <2>6
<1>11. \A i \in 1..Len(rest) : calls'[m + i] = rest[i]
  <2>1. TAKE i \in 1..Len(rest)
  <2>2. m + i \in 1..(m + Len(rest)) /\ ~(m + i <= m) /\ (m + i) - m = i
    BY <1>4, <1>7
  <2>3. QED
    BY <1>8, <2>2
<1>12. QED
  BY <1>3, <1>4, <1>7, <1>9, <1>10, <1>11 DEF a, b, c

\* An exit is handled where no callbacks wait: no process of the id is left.
LEMMA ExitOfOrderly ==
  ASSUME Typed, Orderly, NEW p \in Procs, NEW rest \in Seq(GoodFrame), ExitOf(p, rest),
         UNCHANGED <<pendingStop, draining, preview>>,
         NEW k \in {0, 1},
         \A i \in 1..Len(rest) : i + k \in DOMAIN calls /\ rest[i] = calls[i + k],
         \A i \in DOMAIN calls : ~Waiting(i)
  PROVE  Orderly'
<1> DEFINE e == procs[p].ext
           r == procs[p].rec
           errored == ~procs[p].aborted
<1>1. /\ procs[p].st = "dead" /\ procs' = [procs EXCEPT ![p].st = "gone"]
      /\ HandleExit(e, r, errored, rest)
  BY DEF ExitOf
<1>2. e \in Exts /\ r \in Rec /\ errored \in BOOLEAN /\ Unreported(p)
  <2>1. procs[p] \in Proc
    BY DEF Typed, TypeOK
  <2>2. r \in Rec /\ procs[p].aborted \in BOOLEAN
    BY <2>1 DEF Proc
  <2>3. errored \in BOOLEAN
    BY <2>2
  <2>4. e \in Exts
    BY <1>1 DEF Typed
  <2>5. QED
    BY <1>1, <2>2, <2>3, <2>4 DEF Unreported
<1>3. /\ ~Unreported(p)'
      /\ \A q \in Procs : q # p => procs'[q] = procs[q]
      /\ procs'[p].ext = e
  <2>1. \A q \in Proc : [q EXCEPT !.st = "gone"].st = "gone" /\ [q EXCEPT !.st = "gone"].ext = q.ext
    BY DEF Proc
  <2>2. procs[p] \in Proc /\ procs \in [Procs -> Proc]
    BY DEF Typed, TypeOK
  <2>3. procs'[p] = [procs[p] EXCEPT !.st = "gone"] /\ \A q \in Procs : q # p => procs'[q] = procs[q]
    BY <1>1, <2>2
  <2>4. QED
    BY <2>1, <2>2, <2>3 DEF Unreported
<1>4. /\ \A q \in Procs : Unreported(q)' <=> (Unreported(q) /\ q # p)
      /\ \A q \in Procs : procs'[q].ext = procs[q].ext
      /\ \A q \in Procs : Unreported(q)' => procs'[q].aborted = procs[q].aborted
  BY <1>3 DEF Unreported
<1>5. \A q \in Procs : Unreported(q)' => procs'[q].ext # e
  BY <1>2, <1>4 DEF Orderly, OneProcess
<1>6. /\ \A f \in Exts : f # e => runtime'[f] = runtime[f]
      /\ errored => runtime'[e] = 0
      /\ ~errored => runtime' = runtime
  BY <1>1, <1>2 DEF HandleExit, Typed, TypeOK
<1>7. OneProcess'
  BY <1>4 DEF Orderly, OneProcess
<1>8. Owned'
  <2>1. \A f \in Exts : runtime'[f] # 0 =>
          /\ runtime'[f] = runtime[f] /\ runtime[f] # p
          /\ runtime[f] \in Procs /\ Unreported(runtime[f])
          /\ procs[runtime[f]].ext = f /\ ~procs[runtime[f]].aborted
    <3>1. \A f \in Exts : runtime[f] # 0 => runtime[f] \in Procs
      BY BoundsAssumption DEF Typed, TypeOK, Procs
    <3>2. \A f \in Exts : runtime'[f] # 0 => runtime'[f] = runtime[f]
      BY <1>2, <1>6
    <3>3. \A f \in Exts : runtime'[f] # 0 => runtime[f] # p
      BY <1>2, <1>6, <3>2 DEF Orderly, Owned
    <3>4. QED
      BY <3>1, <3>2, <3>3 DEF Orderly, Owned
  <2>2. \A f \in Exts : runtime'[f] # 0 =>
          Unreported(runtime[f])' /\ procs'[runtime'[f]].ext = f /\ ~procs'[runtime'[f]].aborted
    BY <1>4, <2>1 DEF Unreported
  <2>3. \A q \in Procs : Unreported(q)' =>
          runtime'[procs'[q].ext] = q \/ pendingStop'[procs'[q].ext].on
    <3>1. \A q \in Procs : Unreported(q) => procs[q].ext \in Exts
      BY DEF Typed, Unreported
    <3>2. QED
      BY <1>4, <1>5, <1>6, <3>1 DEF Orderly, Owned
  <2>4. \A f \in Exts : pendingStop'[f].on => runtime'[f] = 0
    BY <2>1 DEF Orderly, Owned
  <2>5. QED
    BY <2>2, <2>3, <2>4 DEF Orderly, Owned, Unreported
<1>0. \E n \in {0, 1}, m \in {1, 2} :
        /\ DOMAIN calls' = 1..(m + Len(rest)) /\ Len(rest) \in Nat
        /\ calls'[n + 1] = Call("drainCallbacks", e)
        /\ n = 1 => errored /\ calls'[1] = Call("stopPreview", e) /\ preview.ext = e
        /\ errored => m = n + 1
        /\ ~errored => n = 0 /\ m = 2 /\ calls'[2] = Call("reconcile", e)
        /\ \A i \in 1..Len(rest) : calls'[m + i] = rest[i]
  <2> HIDE DEF e, r, errored
  <2>1. QED
    BY <1>1, <1>2, StackExit
<1>9. PICK n \in {0, 1}, m \in {1, 2} :
        /\ DOMAIN calls' = 1..(m + Len(rest)) /\ Len(rest) \in Nat
        /\ calls'[n + 1] = Call("drainCallbacks", e)
        /\ n = 1 => errored /\ calls'[1] = Call("stopPreview", e) /\ preview.ext = e
        /\ errored => m = n + 1
        /\ ~errored => n = 0 /\ m = 2 /\ calls'[2] = Call("reconcile", e)
        /\ \A i \in 1..Len(rest) : calls'[m + i] = rest[i]
  BY <1>0
<1>10. /\ Call("drainCallbacks", e).op = "drainCallbacks" /\ Call("drainCallbacks", e).ext = e
       /\ Call("stopPreview", e).op = "stopPreview" /\ Call("stopPreview", e).ext = e
       /\ Call("reconcile", e).op = "reconcile"
  BY DEF Call
<1> HIDE DEF e, r, errored
<1>11. \A i \in DOMAIN calls' : i \in Int /\
         \/ i = n + 1 \/ (i = 1 /\ n = 1) \/ (i = 2 /\ ~errored /\ n = 0)
         \/ i - m \in 1..Len(rest) /\ calls'[i] = rest[i - m]
  <2>1. TAKE i \in DOMAIN calls'
  <2>2. i \in 1..(m + Len(rest))
    BY <1>9
  <2>3. CASE i <= m
    BY <1>2, <1>9, <2>2, <2>3
  <2>4. CASE i > m
    <3> DEFINE j == i - m
    <3>1. j \in 1..Len(rest) /\ m + j = i
      BY <1>9, <2>2, <2>4
    <3> HIDE DEF j
    <3>2. calls'[i] = rest[j]
      BY <1>9, <3>1
    <3>3. QED
      BY <2>2, <3>1, <3>2 DEF j
  <2>5. QED
    BY <2>2, <2>3, <2>4
<1>12. \A i \in DOMAIN calls' : calls'[i].op \in {"drain", "drainCallbacks"} =>
         \/ i = n + 1
         \/ i - m + k \in DOMAIN calls /\ calls'[i] = calls[i - m + k]
  BY <1>9, <1>10, <1>11
<1>13. \A i \in DOMAIN calls' : Waiting(i)' => i = n + 1
  BY <1>12 DEF Waiting
<1>14. Drains'
  <2> DEFINE x == k - m
  <2>1. x \in Int /\ DOMAIN calls' \subseteq Int
    BY <1>11
  <2>2. \A i \in DOMAIN calls' : calls'[i].op = "drain" =>
          i - m + k \in DOMAIN calls /\ calls'[i] = calls[i - m + k]
    BY <1>9, <1>10, <1>12
  <2>3. \A i \in Int : i - m + k = i + x
    OBVIOUS
  <2> HIDE DEF x
  <2>4. \A i \in DOMAIN calls' : calls'[i].op = "drain" =>
          i + x \in DOMAIN calls /\ calls'[i] = calls[i + x]
    BY <2>1, <2>2, <2>3
  <2>5. QED
    BY <2>1, <2>4, DrainsShift DEF Orderly
<1>15. Nested'
  <2>1. SUFFICES ASSUME NEW i \in DOMAIN calls', Waiting(i)'
                 PROVE  /\ \A j \in 1..(i - 1) : calls'[j].ext = calls'[i].ext
                        /\ i <= 2
                        /\ i > 1 => calls'[1].op # "pollExit" /\ runtime'[calls'[i].ext] = 0
                        /\ i > 1 => preview'.ext = calls'[1].ext
    <3>1. \A i \in DOMAIN calls' : i \in Int
      BY <1>11
    <3>2. \A i \in Int : i <= 2 => ~(i > 2) /\ \A j \in 3..(i - 1) : FALSE
      OBVIOUS
    <3>3. QED
      BY <2>1, <3>1, <3>2 DEF Nested
  <2>2. i = n + 1 /\ calls'[i].ext = e
    BY <1>9, <1>10, <1>13, <2>1
  <2>3. i = 1 \/ (i = 2 /\ n = 1)
    BY <2>2
  <2>4. i = 2 => calls'[1].ext = e /\ calls'[1].op = "stopPreview" /\ errored /\ preview.ext = e
    BY <1>9, <1>10, <2>3
  <2>5. QED
    BY <1>6, <2>2, <2>3, <2>4
<1>16. Handled'
  <2>1. ASSUME NEW i \in DOMAIN calls', Waiting(i)'
        PROVE  calls'[i].ext = e /\ \A j \in DOMAIN calls' : Waiting(j)' => j = i
    BY <1>9, <1>10, <1>13, <2>1
  <2>2. QED
    BY <1>5, <2>1 DEF Handled
<1>17. QED
  BY <1>7, <1>8, <1>14, <1>15, <1>16 DEF Orderly

LEMMA PollExitOrderly == Typed /\ Orderly /\ PollExit => Orderly'
<1> SUFFICES ASSUME Typed, Orderly, PollExit PROVE Orderly'
  OBVIOUS
<1> DEFINE p == Head(calls).proc
<1>1. /\ p \in Procs /\ calls # <<>> /\ Head(calls).op = "pollExit"
      /\ UNCHANGED <<pendingStop, draining, preview>>
  BY TopTyped DEF PollExit, Running, GoodFrame, jobVars
<1>2. CASE ExitOf(p, Tail(calls))
  <2> DEFINE rest == Tail(calls)
             k == 1
  <2>1. rest \in Seq(GoodFrame) /\ ExitOf(p, rest) /\ k \in {0, 1}
    BY <1>1, <1>2, TopTyped
  <2>2. \A i \in 1..Len(rest) : i + k \in DOMAIN calls /\ rest[i] = calls[i + k]
    <3>1. calls \in Seq(GoodFrame) /\ DOMAIN calls = 1..Len(calls) /\ Len(calls) \in Nat
      BY Stack DEF Typed
    <3>2. /\ Len(rest) = Len(calls) - 1
          /\ \A i \in 1..Len(rest) : rest[i] = calls[i + 1]
      BY <1>1, <3>1, HeadTailProperties
    <3>3. QED
      BY <3>1, <3>2
  <2>3. \A i \in DOMAIN calls : ~Waiting(i)
    BY <1>1, TopAbove
  <2> HIDE DEF rest, k
  <2>4. QED
    BY <1>1, <2>1, <2>2, <2>3, ExitOfOrderly
<1>3. CASE Return /\ UNCHANGED <<runtime, procs>>
  BY <1>1, <1>3, SameProcsUnchanged, Returns
<1>4. QED
  BY <1>2, <1>3 DEF PollExit

LEMMA ReportExitOrderly == ASSUME Typed, Orderly, NEW p \in Procs, ReportExit(p) PROVE Orderly'
<1>1. calls = <<>> /\ ExitOf(p, <<>>) /\ UNCHANGED <<pendingStop, draining, preview>>
  BY DEF ReportExit, Idle, jobVars
<1> DEFINE rest == <<>>
           k == 0
<1>2. /\ rest \in Seq(GoodFrame) /\ ExitOf(p, rest) /\ k \in {0, 1}
      /\ \A i \in 1..Len(rest) : i + k \in DOMAIN calls /\ rest[i] = calls[i + k]
      /\ \A i \in DOMAIN calls : ~Waiting(i)
  BY <1>1, EmptySeq DEF Waiting
<1> HIDE DEF rest, k
<1>3. QED
  BY <1>1, <1>2, ExitOfOrderly

\* A process is spawned where none of its id is unreported: nothing is registered
\* and no stop is in flight.
LEMMA NoneLeft ==
  ASSUME Typed, Orderly, NEW e \in Exts, runtime[e] = 0, ~pendingStop[e].on
  PROVE  \A p \in Procs : Unreported(p) => procs[p].ext # e
BY DEF Orderly, Owned, Procs

\* Above waiting drains, a start is alone.
LEMMA StartAbove ==
  ASSUME Typed, Orderly, calls # <<>>, Head(calls).op = "start"
  PROVE  \A k \in DOMAIN calls : Waiting(k) =>
           /\ k > 1 /\ calls[k].ext = Head(calls).ext
           /\ \A j \in 1..(k - 1) : calls[j].ext = Head(calls).ext
           /\ \A j \in 2..(k - 1) : calls[j].op = "drainCallbacks"
<1>1. calls[1].op \notin InJob
  BY Stack DEF InJob
<1>2. SUFFICES ASSUME NEW k \in DOMAIN calls, Waiting(k)
               PROVE  /\ k > 1 /\ calls[k].ext = Head(calls).ext
                      /\ \A j \in 1..(k - 1) : calls[j].ext = Head(calls).ext
                      /\ \A j \in 2..(k - 1) : calls[j].op = "drainCallbacks"
  OBVIOUS
<1>3. k > 1 /\ calls[k].ext = Head(calls).ext
  BY <1>2, TopAbove
<1>4. /\ \A j \in 1..(k - 1) : calls[j].ext = Head(calls).ext
      /\ \A j \in 3..(k - 1) : calls[j].op = "drainCallbacks"
      /\ k > 2 => calls[2].op = "drainCallbacks"
      /\ k \in Int
  BY <1>1, <1>2, <1>3, NestedAt DEF Orderly
<1>5. \A j \in 2..(k - 1) : j \in 3..(k - 1) \/ (j = 2 /\ k > 2)
  BY <1>4
<1>6. QED
  BY <1>3, <1>4, <1>5

LEMMA SpawnOrderly ==
  ASSUME Typed, Orderly, calls # <<>>, Head(calls).op = "start", Return,
         NEW r \in Rec,
         runtime[Head(calls).ext] = 0, MayStart(Head(calls).ext), Spawn(Head(calls).ext, r),
         UNCHANGED <<pendingStop, draining, preview>>
  PROVE  Orderly'
<1> DEFINE e == Head(calls).ext
           new == [st |-> "alive", ext |-> e, rec |-> r, aborted |-> FALSE, stale |-> FALSE]
<1>1. e \in Exts /\ runtime[e] = 0 /\ ~pendingStop[e].on
  BY TopTyped DEF MayStart
<1>2. PICK p \in Procs : /\ procs[p].st = "unused"
                         /\ procs' = [procs EXCEPT ![p] = new]
                         /\ runtime' = [runtime EXCEPT ![e] = p]
  BY DEF Spawn
<1>3. new.st = "alive" /\ new.ext = e /\ new.aborted = FALSE
  OBVIOUS
<1> HIDE DEF e, new
<1>4. /\ p # 0 /\ ~Unreported(p)
      /\ procs'[p] = new /\ \A q \in Procs : q # p => procs'[q] = procs[q]
      /\ runtime'[e] = p /\ \A f \in Exts : f # e => runtime'[f] = runtime[f]
  BY <1>1, <1>2, BoundsAssumption DEF Typed, TypeOK, Procs, Unreported
<1>5. /\ \A q \in Procs : Unreported(q)' <=> (Unreported(q) \/ q = p)
      /\ \A q \in Procs : Unreported(q) => procs[q].ext # e /\ q # p
  BY <1>1, <1>3, <1>4, NoneLeft DEF Unreported
<1>6. \A q \in Procs : Unreported(q)' /\ procs'[q].ext = e => q = p
  BY <1>4, <1>5
<1>7. OneProcess'
  <2>1. ASSUME NEW x \in Procs, NEW y \in Procs, Unreported(x)', Unreported(y)',
               procs'[x].ext = procs'[y].ext
        PROVE  x = y
    <3>1. CASE x = p \/ y = p
      BY <1>3, <1>4, <1>6, <2>1, <3>1
    <3>2. CASE x # p /\ y # p
      BY <1>4, <1>5, <2>1, <3>2 DEF Orderly, OneProcess
    <3>3. QED
      BY <3>1, <3>2
  <2>2. QED
    BY <2>1 DEF OneProcess
<1>8. Owned'
  <2>1. \A f \in Exts : (f # e /\ runtime[f] # 0) =>
          /\ runtime[f] \in Procs /\ runtime[f] # p /\ Unreported(runtime[f])
          /\ procs[runtime[f]].ext = f /\ ~procs[runtime[f]].aborted
    <3>1. \A f \in Exts : runtime[f] # 0 => runtime[f] \in Procs
      BY BoundsAssumption DEF Typed, TypeOK, Procs
    <3>2. QED
      BY <1>4, <3>1 DEF Orderly, Owned
  <2>2. \A f \in Exts : runtime'[f] # 0 =>
          procs'[runtime'[f]].st \in {"alive", "dead"} /\ procs'[runtime'[f]].ext = f
          /\ ~procs'[runtime'[f]].aborted
    <3>1. TAKE f \in Exts
    <3>2. CASE f = e
      BY <1>3, <1>4, <3>2
    <3>3. CASE f # e
      BY <1>4, <2>1, <3>3 DEF Unreported
    <3>4. QED
      BY <3>2, <3>3
  <2>3. \A q \in Procs : Unreported(q)' => runtime'[procs'[q].ext] = q \/ pendingStop'[procs'[q].ext].on
    <3>1. \A q \in Procs : Unreported(q) => procs[q].ext \in Exts
      BY DEF Typed, Unreported
    <3>2. TAKE q \in Procs
    <3>3. CASE q = p
      BY <1>3, <1>4, <3>3
    <3>4. CASE q # p
      BY <1>4, <1>5, <3>1, <3>4 DEF Orderly, Owned
    <3>5. QED
      BY <3>3, <3>4
  <2>4. \A f \in Exts : pendingStop'[f].on => runtime'[f] = 0
    BY <1>1, <1>4 DEF Orderly, Owned
  <2>5. \A f \in Exts : ~pendingStop'[f].on => pendingStop'[f].cbs = <<>>
    BY DEF Orderly, Owned
  <2>6. QED
    BY <2>2, <2>3, <2>4, <2>5 DEF Owned, Unreported
<1>9. Drains'
  BY DrainsReturn DEF Orderly
<1>10. /\ calls[1] = Head(calls) /\ DOMAIN calls = 1..Len(calls) /\ Len(calls) \in Nat /\ Len(calls) >= 1
       /\ DOMAIN calls' = 1..(Len(calls) - 1)
       /\ \A i \in 1..(Len(calls) - 1) : calls'[i] = calls[i + 1]
  BY Stack, StackReturn
<1>11. \A k \in DOMAIN calls : Waiting(k) =>
         /\ k > 1 /\ calls[k].ext = e
         /\ \A j \in 1..(k - 1) : calls[j].ext = e
         /\ \A j \in 2..(k - 1) : calls[j].op = "drainCallbacks"
  BY StartAbove DEF e
<1>12. \A i \in DOMAIN calls' : Waiting(i)' =>
         /\ calls'[i].ext = e
         /\ \A j \in 1..(i - 1) : calls'[j].ext = e /\ calls'[j].op = "drainCallbacks"
  <2>1. TAKE i \in DOMAIN calls'
  <2>2. SUFFICES ASSUME Waiting(i)'
                 PROVE  /\ calls'[i].ext = e
                        /\ \A j \in 1..(i - 1) : calls'[j].ext = e /\ calls'[j].op = "drainCallbacks"
    OBVIOUS
  <2> DEFINE k == i + 1
  <2>3. k \in DOMAIN calls /\ calls'[i] = calls[k] /\ i \in 1..(Len(calls) - 1) /\ k - 1 = i
    BY <1>10
  <2> HIDE DEF k
  <2>4. Waiting(k)
    BY <2>2, <2>3 DEF Waiting
  <2>5. /\ calls[k].ext = e
        /\ \A j \in 1..i : calls[j].ext = e
        /\ \A j \in 2..i : calls[j].op = "drainCallbacks"
    BY <1>11, <2>3, <2>4
  <2>6. \A j \in 1..(i - 1) : j + 1 \in 1..i /\ j + 1 \in 2..i /\ calls'[j] = calls[j + 1]
    BY <1>10, <2>3
  <2>7. QED
    BY <2>3, <2>5, <2>6
<1>13. Nested'
  <2>1. \A i \in DOMAIN calls' : i \in Int
    BY <1>10
  <2>2. \A i \in Int : /\ \A j \in 3..(i - 1) : j \in 1..(i - 1)
                       /\ i > 2 => 2 \in 1..(i - 1)
                       /\ i > 1 => 1 \in 1..(i - 1)
    OBVIOUS
  <2>3. QED
    BY <1>12, <2>1, <2>2 DEF Nested
<1>14. Handled'
  BY <1>1, <1>4, <1>6, <1>12 DEF Handled
<1>15. QED
  BY <1>7, <1>8, <1>9, <1>13, <1>14 DEF Orderly

\* A start that fails ends in the exit handler, above what waits already; no
\* process of the id is there to be forgotten.
LEMMA StartFailsOrderly ==
  ASSUME Typed, Orderly, calls # <<>>, Head(calls).op = "start",
         NEW r \in Rec,
         runtime[Head(calls).ext] = 0, MayStart(Head(calls).ext),
         HandleExit(Head(calls).ext, r, TRUE, Tail(calls)),
         UNCHANGED <<procs, pendingStop, draining, preview>>
  PROVE  Orderly'
<1> DEFINE e == Head(calls).ext
           rest == Tail(calls)
<1>1. e \in Exts /\ runtime[e] = 0 /\ ~pendingStop[e].on /\ rest \in Seq(GoodFrame)
  BY TopTyped DEF MayStart
<1>2. UNCHANGED runtime
  <2>1. runtime' = [runtime EXCEPT ![e] = 0]
    BY DEF HandleExit
  <2>2. QED
    BY <1>1, <2>1 DEF Typed, TypeOK
<1>3. SameProcs
  BY SameProcsUnchanged
<1>4. OneProcess' /\ Owned'
  BY <1>2, <1>3, OwnedKept DEF Orderly
<1>5. HandleExit(e, r, TRUE, rest) /\ TRUE \in BOOLEAN
  OBVIOUS
<1>6. /\ calls[1] = Head(calls) /\ DOMAIN calls = 1..Len(calls) /\ Len(calls) \in Nat /\ Len(calls) >= 1
      /\ Len(rest) = Len(calls) - 1
      /\ \A i \in 1..Len(rest) : rest[i] = calls[i + 1]
  <2>1. calls \in Seq(GoodFrame)
    BY DEF Typed
  <2>2. QED
    BY <2>1, Stack, HeadTailProperties
<1> HIDE DEF e, rest
<1>7. PICK n \in {0, 1} :
        /\ DOMAIN calls' = 1..(n + 1 + Len(rest)) /\ Len(rest) \in Nat
        /\ calls'[n + 1] = Call("drainCallbacks", e)
        /\ n = 1 => calls'[1] = Call("stopPreview", e) /\ preview.ext = e
        /\ \A i \in 1..Len(rest) : calls'[n + 1 + i] = rest[i]
  <2> DEFINE errored == TRUE
  <2>1. HandleExit(e, r, errored, rest) /\ errored \in BOOLEAN
    BY <1>5
  <2> HIDE DEF errored
  <2>2. \E n \in {0, 1}, m \in {1, 2} :
          /\ DOMAIN calls' = 1..(m + Len(rest)) /\ Len(rest) \in Nat
          /\ calls'[n + 1] = Call("drainCallbacks", e)
          /\ n = 1 => errored /\ calls'[1] = Call("stopPreview", e) /\ preview.ext = e
          /\ errored => m = n + 1
          /\ ~errored => n = 0 /\ m = 2 /\ calls'[2] = Call("reconcile", e)
          /\ \A i \in 1..Len(rest) : calls'[m + i] = rest[i]
    BY <1>1, <2>1, StackExit
  <2>3. QED
    BY <2>2 DEF errored
<1>8. /\ Call("drainCallbacks", e).op = "drainCallbacks" /\ Call("drainCallbacks", e).ext = e
      /\ Call("stopPreview", e).op = "stopPreview" /\ Call("stopPreview", e).ext = e
  BY DEF Call
<1>9. /\ DOMAIN calls' = 1..(n + Len(calls))
      /\ \A i \in DOMAIN calls' : i > n + 1 =>
           i - n \in 2..Len(calls) /\ i - n \in DOMAIN calls /\ calls'[i] = calls[i - n]
  <2>1. DOMAIN calls' = 1..(n + Len(calls))
    BY <1>6, <1>7
  <2>2. ASSUME NEW i \in DOMAIN calls', i > n + 1
        PROVE  i - n \in 2..Len(calls) /\ i - n \in DOMAIN calls /\ calls'[i] = calls[i - n]
    <3> DEFINE j == i - n - 1
    <3>1. j \in 1..Len(rest) /\ n + 1 + j = i /\ j + 1 = i - n /\ i - n \in 2..Len(calls)
      BY <1>6, <2>1, <2>2
    <3> HIDE DEF j
    <3>2. QED
      BY <1>6, <1>7, <3>1
  <2>3. QED
    BY <2>1, <2>2
<1>10. \A k \in DOMAIN calls : Waiting(k) =>
         /\ k > 1 /\ calls[k].ext = e
         /\ \A j \in 1..(k - 1) : calls[j].ext = e
         /\ \A j \in 2..(k - 1) : calls[j].op = "drainCallbacks"
  BY StartAbove DEF e
<1>11. \A i \in DOMAIN calls' : Waiting(i)' =>
         /\ i \in Int /\ calls'[i].ext = e
         /\ \A j \in 1..(i - 1) : calls'[j].ext = e
         /\ \A j \in 2..(i - 1) : calls'[j].op = "drainCallbacks"
         /\ i > 1 => \/ calls'[1].op = "drainCallbacks"
                     \/ calls'[1].op = "stopPreview" /\ preview.ext = e
  <2>1. TAKE i \in DOMAIN calls'
  <2>2. SUFFICES ASSUME Waiting(i)'
                 PROVE  /\ i \in Int /\ calls'[i].ext = e
                        /\ \A j \in 1..(i - 1) : calls'[j].ext = e
                        /\ \A j \in 2..(i - 1) : calls'[j].op = "drainCallbacks"
                        /\ i > 1 => \/ calls'[1].op = "drainCallbacks"
                                    \/ calls'[1].op = "stopPreview" /\ preview.ext = e
    OBVIOUS
  <2>3. i \in 1..(n + Len(calls)) /\ i \in Int
    BY <1>6, <1>9
  <2>4. i >= n + 1
    BY <1>7, <1>8, <2>2, <2>3 DEF Waiting
  <2>5. i > n + 1 => /\ calls'[i].ext = e
                     /\ \A j \in 2..(i - n - 1) : calls[j].ext = e /\ calls[j].op = "drainCallbacks"
    <3> DEFINE k == i - n
    <3>1. i > n + 1 => k \in 2..Len(calls) /\ k \in DOMAIN calls /\ calls'[i] = calls[k] /\ Waiting(k)
      BY <1>9, <2>2 DEF Waiting
    <3>2. k - 1 = i - n - 1 /\ k \in Int
      BY <2>3
    <3> HIDE DEF k
    <3>3. i > n + 1 => /\ calls[k].ext = e
                       /\ \A j \in 2..(k - 1) : j \in 1..(k - 1)
                       /\ \A j \in 1..(k - 1) : calls[j].ext = e
                       /\ \A j \in 2..(k - 1) : calls[j].op = "drainCallbacks"
      BY <1>10, <3>1, <3>2
    <3>4. QED
      BY <3>1, <3>2, <3>3
  <2>6. \A j \in 1..(i - 1) :
          \/ j = n + 1
          \/ j = 1 /\ n = 1
          \/ j > n + 1 /\ j \in DOMAIN calls' /\ j - n \in 2..(i - n - 1)
    BY <1>9, <2>3
  <2>7. \A j \in 1..(i - 1) : /\ calls'[j].ext = e
                              /\ (j = 1 /\ n = 1) \/ calls'[j].op = "drainCallbacks"
    <3>1. TAKE j \in 1..(i - 1)
    <3>2. CASE j = n + 1
      BY <1>7, <1>8, <3>2
    <3>3. CASE j = 1 /\ n = 1
      BY <1>7, <1>8, <3>3
    <3>4. CASE j > n + 1 /\ j \in DOMAIN calls' /\ j - n \in 2..(i - n - 1)
      <4>1. calls'[j] = calls[j - n] /\ i > n + 1
        BY <1>9, <2>3, <3>4
      <4>2. QED
        BY <2>5, <3>4, <4>1
    <3>5. QED
      BY <2>6, <3>2, <3>3, <3>4
  <2>8. calls'[i].ext = e
    BY <1>7, <1>8, <2>3, <2>4, <2>5
  <2>9. \A j \in 2..(i - 1) : j \in 1..(i - 1) /\ j # 1
    BY <2>3
  <2>10. i > 1 => \/ calls'[1].op = "drainCallbacks"
                  \/ calls'[1].op = "stopPreview" /\ preview.ext = e
    BY <1>7, <1>8
  <2>11. QED
    BY <2>3, <2>7, <2>8, <2>9, <2>10
<1>12. Nested'
  <2>1. \A i \in Int : /\ \A j \in 3..(i - 1) : j \in 2..(i - 1)
                       /\ i > 2 => 2 \in 2..(i - 1)
                       /\ i > 1 => 1 \in 1..(i - 1)
    OBVIOUS
  <2>2. \A i \in DOMAIN calls' : Waiting(i)' =>
          /\ \A j \in 1..(i - 1) : calls'[j].ext = calls'[i].ext
          /\ \A j \in 3..(i - 1) : calls'[j].op = "drainCallbacks"
          /\ i > 2 => calls'[2].op = "drainCallbacks"
          /\ i > 1 => calls'[1].op # "pollExit"
          /\ runtime'[calls'[i].ext] = 0
          /\ (i > 1 /\ calls'[1].op = "stopPreview") => preview'.ext = calls'[1].ext
    BY <1>1, <1>2, <1>11, <2>1
  <2>3. QED
    BY <2>2 DEF Nested
<1>13. Handled'
  <2>1. \A p \in Procs : Unreported(p)' => procs'[p].ext # e
    BY <1>1, NoneLeft DEF Unreported
  <2>2. QED
    BY <1>1, <1>11, <2>1 DEF Handled
<1>14. Drains'
  <2> DEFINE k == 0 - n
  <2>1. k \in Int /\ DOMAIN calls' \subseteq Int
    BY <1>6, <1>9
  <2>2. \A i \in Int : i + k = i - n
    OBVIOUS
  <2>3. \A i \in DOMAIN calls' : calls'[i].op = "drain" => i > n + 1
    <3>1. \A i \in DOMAIN calls' : i > n + 1 \/ i = n + 1 \/ (i = 1 /\ n = 1)
      BY <1>6, <1>9
    <3>2. QED
      BY <1>7, <1>8, <3>1
  <2> HIDE DEF k
  <2>4. \A i \in DOMAIN calls' : calls'[i].op = "drain" => i + k \in DOMAIN calls /\ calls'[i] = calls[i + k]
    BY <1>9, <2>1, <2>2, <2>3
  <2>5. QED
    BY <2>1, <2>4, DrainsShift DEF Orderly
<1>15. QED
  BY <1>4, <1>12, <1>13, <1>14 DEF Orderly

LEMMA StartOrderly == Typed /\ Orderly /\ Start => Orderly'
<1> SUFFICES ASSUME Typed, Orderly, Start PROVE Orderly'
  OBVIOUS
<1> DEFINE e == Head(calls).ext
           r == Head(calls).rec
<1>1. /\ calls # <<>> /\ Head(calls).op = "start" /\ r \in Rec
      /\ UNCHANGED <<pendingStop, draining, preview>>
  BY TopTyped DEF Start, Running, jobVars
<1>2. \/ Return /\ UNCHANGED <<runtime, procs>>
      \/ runtime[e] = 0 /\ MayStart(e) /\ Spawn(e, r) /\ Return
      \/ runtime[e] = 0 /\ MayStart(e) /\ HandleExit(e, r, TRUE, Tail(calls)) /\ UNCHANGED procs
  BY DEF Start
<1>3. CASE Return /\ UNCHANGED <<runtime, procs>>
  BY <1>1, <1>3, SameProcsUnchanged, Returns
<1> HIDE DEF r
<1>4. CASE runtime[e] = 0 /\ MayStart(e) /\ Spawn(e, r) /\ Return
  BY <1>1, <1>4, SpawnOrderly
<1>5. CASE runtime[e] = 0 /\ MayStart(e) /\ HandleExit(e, r, TRUE, Tail(calls)) /\ UNCHANGED procs
  BY <1>1, <1>5, StartFailsOrderly
<1>6. QED
  BY <1>2, <1>3, <1>4, <1>5

LEMMA StepOrderly == Typed /\ Orderly /\ Step => Orderly'
BY DrainCallbacksOrderly, ReconcileOrderly, StartOrderly, StopOrderly, PollExitOrderly,
   EnqueueOrderly, RunNextOrderly, DrainOrderly, JobOrderly, ReleaseOrderly, SwapOrderly,
   RemoveOrderly, StopPreviewOrderly, BootOrderly DEF Step

-------------------------------------------------------------------------------
(* Events of the main loop and of the environment *)

\* The calls an event makes are none of those Orderly constrains.
LEMMA EventOrderly == Typed /\ Orderly /\ Event => Orderly'
<1> SUFFICES ASSUME Typed, Orderly, Event PROVE Orderly'
  OBVIOUS
<1>1. CASE \E p \in Procs : ReportExit(p)
  BY <1>1, ReportExitOrderly
<1>2. CASE StartExtensions
  <2>1. SameProcs /\ UNCHANGED <<runtime, pendingStop>>
    BY <1>2, SameProcsUnchanged DEF StartExtensions, lifeVars
  <2>2. \A f, r : CallRec("boot", f, r).op = "boot"
    BY DEF CallRec, Call
  <2>3. \A i \in DOMAIN calls' : calls'[i].op = "boot"
    BY <1>2, <2>2 DEF StartExtensions
  <2>4. QED
    BY <2>1, <2>3, FirstCalls
<1>3. CASE \E e \in Exts :
             \/ \E enabled \in BOOLEAN : ToggleEnabled(e, enabled)
             \/ \E k \in {"install", "update", "uninstall"} : RequestJob(e, k)
             \/ Reload(e)
  <2>1. SameProcs /\ UNCHANGED <<runtime, pendingStop>>
    BY <1>3, SameProcsUnchanged DEF ToggleEnabled, RequestJob, Reload, lifeVars
  <2>2. \E c : calls' = <<c>> /\ c.op \in {"reconcile", "enqueue"}
    <3>1. \A f, k : Call("reconcile", f).op = "reconcile" /\ CallWith("enqueue", f, k).op = "enqueue"
      BY DEF CallWith, Call
    <3>2. \/ \E f : calls' = <<Call("reconcile", f)>>
          \/ \E f, k : calls' = <<CallWith("enqueue", f, k)>>
      BY <1>3 DEF ToggleEnabled, RequestJob, Reload
    <3>3. QED
      BY <3>1, <3>2
  <2>3. \A i \in DOMAIN calls' : calls'[i].op \in {"reconcile", "enqueue"}
    BY <2>2
  <2>4. QED
    BY <2>1, <2>3, FirstCalls
<1>4. CASE \E e \in Exts, k \in 1..MaxPreviews : PreviewExt(e, k)
  <2>1. SameProcs /\ UNCHANGED <<runtime, pendingStop>>
    BY <1>4, SameProcsUnchanged DEF PreviewExt, lifeVars
  <2>2. PICK e \in Exts :
          calls' = (IF preview # NoPreview /\ preview.ext # e
                    THEN <<CallWith("enqueue", preview.ext, "restart")>> ELSE <<>>)
                   \o <<CallWith("enqueue", e, "restart")>>
    BY <1>4 DEF PreviewExt
  <2> DEFINE a == CallWith("enqueue", preview.ext, "restart")
             b == CallWith("enqueue", e, "restart")
  <2>3. a.op = "enqueue" /\ b.op = "enqueue" /\ b \in GoodFrame
    <3>1. b \in GoodFrame
      BY CallWithGood DEF Op, JobKind
    <3>2. QED
      BY <3>1 DEF CallWith, Call
  <2>4. preview # NoPreview => a \in GoodFrame
    BY CallWithGood DEF Typed, Op, JobKind
  <2> HIDE DEF a, b
  <2>5. calls' = <<a, b>> \/ calls' = <<b>>
    <3>1. CASE preview # NoPreview /\ preview.ext # e
      <4>1. calls' = <<a>> \o <<b>>
        BY <2>2, <3>1 DEF a, b
      <4>2. QED
        BY <2>3, <2>4, <3>1, <4>1, TwoCalls
    <3>2. CASE ~(preview # NoPreview /\ preview.ext # e)
      <4>1. calls' = <<>> \o <<b>>
        BY <2>2, <3>2 DEF b
      <4>2. <<b>> \in Seq(GoodFrame)
        BY <2>3
      <4>3. QED
        BY <4>1, <4>2, ConcatEmptySeq
    <3>3. QED
      BY <3>1, <3>2
  <2>6. \A i \in DOMAIN calls' : calls'[i].op = "enqueue"
    BY <2>3, <2>5
  <2>7. QED
    BY <2>1, <2>6, FirstCalls
<1>5. CASE RequestStopPreview
  <2>1. SameProcs /\ UNCHANGED <<runtime, pendingStop>>
    BY <1>5, SameProcsUnchanged DEF RequestStopPreview, lifeVars
  <2>2. \A f : Call("stopPreview", f).op = "stopPreview"
    BY DEF Call
  <2>3. \A i \in DOMAIN calls' : calls'[i].op = "stopPreview"
    BY <1>5, <2>2 DEF RequestStopPreview
  <2>4. QED
    BY <2>1, <2>3, FirstCalls
<1>6. CASE \E e \in Exts : FetchDone(e)
  <2>1. SameProcs /\ UNCHANGED <<runtime, pendingStop>>
    BY <1>6, SameProcsUnchanged DEF FetchDone, lifeVars
  <2>2. \A f, cb : Call(cb, f).op = cb /\ CallWith("stop", f, cb).op = "stop"
    BY DEF CallWith, Call
  <2>3. \E c : calls' = <<c>> /\ c.op \in {"stop", "swap", "release"}
    BY <1>6, <2>2 DEF FetchDone, StopExtension
  <2>4. \A i \in DOMAIN calls' : calls'[i].op \in {"stop", "swap", "release"}
    BY <2>3
  <2>5. QED
    BY <2>1, <2>4, FirstCalls
<1>7. QED
  BY <1>1, <1>2, <1>3, <1>4, <1>5, <1>6 DEF Event

LEMMA EnvironmentOrderly == Typed /\ Orderly /\ Environment => Orderly'
<1> SUFFICES ASSUME Typed, Orderly, Environment PROVE Orderly'
  OBVIOUS
<1>1. UNCHANGED <<runtime, pendingStop, draining, calls, preview>>
  BY DEF Environment, Die, CliInstall, CliUninstall, Cli, lifeVars, jobVars
<1>2. CASE \E p \in Procs : Die(p)
  <2>1. \A r \in Proc : /\ [r EXCEPT !.st = "dead"].st = "dead" /\ [r EXCEPT !.st = "dead"].ext = r.ext
                        /\ [r EXCEPT !.st = "dead"].aborted = r.aborted
    BY DEF Proc
  <2>2. PICK p \in Procs : procs[p].st = "alive" /\ procs' = [procs EXCEPT ![p].st = "dead"]
    BY <1>2 DEF Die
  <2>3. procs[p] \in Proc /\ procs \in [Procs -> Proc]
    BY DEF Typed, TypeOK
  <2>4. procs'[p] = [procs[p] EXCEPT !.st = "dead"] /\ \A q \in Procs : q # p => procs'[q] = procs[q]
    BY <2>2, <2>3
  <2>5. SameProcs
    BY <2>1, <2>2, <2>3, <2>4 DEF SameProcs, Unreported
  <2>6. QED
    BY <1>1, <2>5, StackKept
<1>3. CASE \E e \in Exts : CliInstall(e) \/ CliUninstall(e)
  <2>1. SameProcs
    BY <1>3, SameProcsStale DEF CliInstall, CliUninstall
  <2>2. QED
    BY <1>1, <2>1, StackKept
<1>4. QED
  BY <1>2, <1>3 DEF Environment

LEMMA InitOrderly == Init => Orderly
<1> SUFFICES ASSUME Init PROVE Orderly
  OBVIOUS
<1>1. \A p \in Procs : ~Unreported(p)
  BY DEF Init, NoProc, Unreported
<1>2. calls = <<>> /\ \A e \in Exts : runtime[e] = 0 /\ ~pendingStop[e].on /\ pendingStop[e].cbs = <<>>
  BY DEF Init, NoStop
<1>3. QED
  BY <1>1, <1>2 DEF Orderly, OneProcess, Owned, Drains, Nested, Handled

\* The inductive invariant: unreported processes are registered or being stopped,
\* and what is nested in an exit handler cannot forget one that is being stopped.
THEOREM NestingOrderly == Spec => [](Typed /\ Orderly)
<1>1. Init => Typed /\ Orderly
  BY InitTyped, InitOrderly
<1>2. Typed /\ Orderly /\ [Next]_vars => (Typed /\ Orderly)'
  <2> SUFFICES ASSUME Typed, Orderly, [Next]_vars PROVE (Typed /\ Orderly)'
    OBVIOUS
  <2>1. CASE Step
    BY <2>1, StepTyped, StepOrderly
  <2>2. CASE Event
    BY <2>2, EventTyped, EventOrderly
  <2>3. CASE Environment
    BY <2>3, DieTyped, CliInstallTyped, CliUninstallTyped, EnvironmentOrderly DEF Environment
  <2>4. CASE UNCHANGED vars
    <3>1. Typed'
      BY <2>4 DEF Typed, TypeOK, vars, lifeVars, jobVars, confVars, histVars, reqVars
    <3>2. UNCHANGED <<runtime, pendingStop, draining, calls, preview>> /\ UNCHANGED procs
      BY <2>4 DEF vars, lifeVars, jobVars
    <3>3. QED
      BY <3>1, <3>2, SameProcsUnchanged, StackKept
  <2>5. QED
    BY <2>1, <2>2, <2>3, <2>4 DEF Next, Finished
<1>3. QED
  BY <1>1, <1>2, PTL DEF Spec

\* Two processes of one extension never run at once (OneProcess), however stops,
\* jobs, crashes and previews nest on the main loop.
THEOREM OneProcessSafe == Spec => []OneProcess
<1>1. Typed /\ Orderly => OneProcess
  BY DEF Orderly
<1>2. QED
  BY NestingOrderly, <1>1, PTL
===============================================================================
