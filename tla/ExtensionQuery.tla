----------------------------- MODULE ExtensionQuery -----------------------------
(***************************************************************************)
(* A query from the keystroke to the list on screen: the app's main loop   *)
(* (QueryCore), the process of every extension (ExtensionClient), and the  *)
(* extension service, which stops, starts and loses those processes under  *)
(* the query (ExtensionService.tla models how).                            *)
(***************************************************************************)
EXTENDS QueryCore, ExtensionClient

vars == <<status, toExt, toApp, used, app, client>>

Init == WireInit /\ CoreInit /\ ClientInit

-------------------------------------------------------------------------------
(* The extension service, as the two sides see it *)

\* The process of x is gone, with what was in its socket.
Gone(x, now) ==
  /\ status' = [status EXCEPT ![x] = now]
  /\ toExt' = [toExt EXCEPT ![x] = <<>>]
  /\ toApp' = [toApp EXCEPT ![x] = <<>>]
  /\ client' = [client EXCEPT ![x] = NewClient]

\* _stop, for a restart, an update or a preview: ExtensionMode is not told.
StopExtension(x) ==
  /\ Uses("stops", MaxStops) /\ status[x] = "up"
  /\ Gone(x, "stopped")
  /\ app' = IF app.active = x THEN [app EXCEPT !.open = 0] ELSE app

\* Mutant: the query is not run again.
StartExtensionSilently(x) ==
  /\ status[x] # "up"
  /\ status' = [status EXCEPT ![x] = "up"]
  /\ UNCHANGED <<toExt, toApp, used, app, client>>
\* started(ext_id), from start_extension
StartExtension(x) ==
  /\ status[x] # "up"
  /\ status' = [status EXCEPT ![x] = "up"]
  /\ app' = [app EXCEPT !.reload = @ \/ app.active = x]
  /\ UNCHANGED <<toExt, toApp, used, client>>

\* The process exits on its own or fails to start.
ExtensionFails(x) ==
  /\ Uses("failures", MaxFailures) /\ status[x] # "down"
  /\ Gone(x, "down")
  /\ app' = Errored(app, x)

\* It stays stopped: the extension was disabled or removed.
LeftStopped(x) ==
  /\ Uses("failures", MaxFailures) /\ status[x] = "stopped"
  /\ status' = [status EXCEPT ![x] = "down"]
  /\ UNCHANGED <<toExt, toApp, app, client>>

Service == \E x \in Exts :
  StopExtension(x) \/ StartExtension(x) \/ ExtensionFails(x) \/ LeftStopped(x)

-------------------------------------------------------------------------------
User == (\E text \in Typed : Edit(text)) \/ (\E i \in DOMAIN app.shown.rows : Activate(i))
MainLoop == (\E x \in Exts : Receive(x)) \/ ShowPlaceholder \/ ThrottledPaint \/ LoadingTimeout \/ ReloadQuery
Client(x) == OnMessage(x) \/ Debounced(x) \/ Handler(x) \/ SendResponse(x)

\* Everybody has done what the bounds allow, and waits.
Finished ==
  /\ used.inputs = MaxInputs
  /\ ~app.placeholder /\ ~app.buffer.timer /\ ~app.loading /\ ~app.reload
  /\ \A x \in Exts : /\ toExt[x] = <<>> /\ toApp[x] = <<>> /\ status[x] # "stopped"
                     /\ client[x].debounce = 0 /\ client[x].threads = {} /\ client[x].idle = <<>>
  /\ UNCHANGED vars

Next ==
  \/ (User \/ MainLoop) /\ UNCHANGED client
  \/ (\E x \in Exts : Client(x)) /\ UNCHANGED app
  \/ Service
  \/ Finished

Spec == Init /\ [][Next]_vars

\* Both main loops run what is due, timers included; handlers return (their
\* generators end); the service starts again what it stopped.
FairSpec ==
  /\ Spec
  /\ WF_vars(ShowPlaceholder /\ UNCHANGED client)
  /\ WF_vars(ThrottledPaint /\ UNCHANGED client)
  /\ WF_vars(LoadingTimeout /\ UNCHANGED client)
  /\ WF_vars(ReloadQuery /\ UNCHANGED client)
  /\ \A x \in Exts :
       /\ WF_vars(Receive(x) /\ UNCHANGED client)
       /\ WF_vars(OnMessage(x) /\ UNCHANGED app)
       /\ WF_vars(Debounced(x) /\ UNCHANGED app)
       /\ WF_vars(Handler(x) /\ UNCHANGED app)
       /\ WF_vars(SendResponse(x) /\ UNCHANGED app)
       /\ WF_vars(StartExtension(x))

-------------------------------------------------------------------------------
(* Properties *)

TypeOK == WireTypeOK /\ CoreTypeOK /\ ClientTypeOK

FromExtensions(rows) == {rows[i] : i \in {j \in DOMAIN rows : rows[j].ext # NoExt}}

\* What waits to be painted answers the query in the input field: it comes from
\* the extension of that query, and from the latest request that was sent to it
\* (extension-ipc.md:73: stale batches are dropped on both ends).
BufferLatest ==
  app.buffer.held =>
    \A r \in FromExtensions(app.buffer.rows) : r.ext = app.text /\ r.req = app.req

\* Nothing else is painted either: a step that changes the list on screen leaves
\* only results of the latest request of the query's own extension.
PaintsLatest ==
  [][app'.shown # app.shown =>
       \A r \in FromExtensions(app'.shown.rows) : r.ext = app'.text /\ r.req = app'.req]_vars

\* The list on screen, with what is buffered for it, is the list that the
\* handler has built so far with its appending and replacing batches
\* (extension-ipc.md:65-67): no batch is lost, doubled or put in another order.
StreamFaithful ==
  app.mode = "extension" /\ app.want # <<>> =>
    app.want = IF ~app.buffer.held THEN app.shown.rows
               ELSE (IF Extends(app.buffer) THEN app.shown.rows ELSE <<>>) \o app.buffer.rows

\* "Loading..." never replaces an answer: once a query was answered, its
\* placeholder timer is off, and whatever the list shows stays until more comes.
AnswerStays ==
  [][app'.shown.kind = "loading" /\ app'.shown # app.shown => ~app.answered]_vars

\* Until the closing response of the latest request is there, ExtensionMode
\* waits for it: the request can still be answered (extension-ipc.md:72), unless
\* the query is about to be sent again to an extension that just started.
RequestKept ==
  app.open # 0 /\ ~app.reload => app.pending /\ app.req = app.open

Inputs(messages) == {i \in DOMAIN messages : messages[i].input # 0}

\* On the wire, the responses to inputs are in the order of the inputs, and
\* nothing of a request follows its closing response: a handler that was
\* superseded says nothing any more, however late its thread is.
WireOrdered ==
  \A x \in Exts : \A i, j \in DOMAIN toApp[x] : i < j =>
    /\ {i, j} \subseteq Inputs(toApp[x]) => toApp[x][i].req <= toApp[x][j].req
    /\ toApp[x][i].req = toApp[x][j].req => Streams(toApp[x][i])

Activations == UNION {{t \in client[x].threads : t.input = 0} : x \in Exts}
SameResult(a, b) == <<a.ext, a.req, a.n>> = <<b.ext, b.req, b.n>>

\* Within a request an id names one result ("Ids stay unique for the whole
\* request", extension.py:279-280), also when a replacing batch was sent after
\* the one on screen: a handler never gets a sibling of the row that was activated.
IdsExact ==
  \A t \in Activations :
    t.meant.ext = t.got.ext /\ t.meant.req = t.got.req => SameResult(t.meant, t.got)

\* A query of an extension is answered in the end, or it is given up: the
\* process may be stopped and started in between.
QueryAnswered == (app.mode = "extension" /\ ~app.answered) ~> (app.answered \/ app.mode # "extension")

\* An answer comes in the end, and it is for good: no "Loading..." after it.
AnsweredForGood == QueryAnswered /\ AnswerStays
===============================================================================
