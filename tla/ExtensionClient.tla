---------------------------- MODULE ExtensionClient ----------------------------
(***************************************************************************)
(* The extension's side of a query: ulauncher/api/extension.py in the      *)
(* process of each extension.  Its main loop reads requests, debounces     *)
(* inputs and sends responses; the handlers of the extension run in        *)
(* threads, several at a time, and hand their results to the main loop.    *)
(***************************************************************************)
EXTENDS QueryWire

VARIABLE client
(* Of each extension:
   debounce   the request of the input the debounce timer will dispatch, or 0
   input      _input_request_id
   threads    the handlers that run
   idle       the responses handed to the main loop
   cacheReq   _cache_request_id
   cache      _result_cache: the result with id n is cache[n + 1]          *)

\* A handler: for an input, input is its number among the inputs; for an
\* activation it is 0, meant is the row that was activated and got the result
\* the cache gave for it.
Thread == [req: Nat, input: Nat, meant: Row, got: Row, batches: Nat]

NewClient == [debounce |-> 0, input |-> 0, threads |-> {}, idle |-> <<>>, cacheReq |-> 0, cache |-> <<>>]

ClientInit == client = [x \in Exts |-> NewClient]

ClientTypeOK ==
  client \in [Exts -> [debounce: Nat, input: Nat, threads: SUBSET Thread, idle: Seq(Response),
                       cacheReq: Nat, cache: Seq(Row)]]

\* A response before its results have ids.
Answer(t, type, rows, append, final, query) ==
  [type |-> type, req |-> t.req, input |-> t.input, rows |-> rows,
   append |-> append, final |-> final, query |-> query]
Batch(t, rows, append, final) == Answer(t, "render", rows, append, final, Empty)

\* The n-th result of the handler.
Result(x, t, n) == [ext |-> x, req |-> t.req, n |-> n, id |-> 0]

\* on_message, trigger_event, convert_to_baseevent: an input waits for the
\* debounce timer, in place of the one that waits.  An activation starts its
\* handler at once, if the cache has the result (ValueError otherwise).
OnMessage(x) ==
  /\ toExt[x] # <<>>
  /\ toExt' = [toExt EXCEPT ![x] = Tail(@)]
  /\ LET m == Head(toExt[x])
         c == client[x]
     IN \/ m.type = "input" /\ client' = [client EXCEPT ![x].debounce = m.req]
        \/ /\ m.type = "activation"
           /\ IF m.row.id < Len(c.cache)
              THEN client' = [client EXCEPT ![x].threads =
                     @ \cup {[req |-> m.req, input |-> 0, meant |-> m.row,
                              got |-> c.cache[m.row.id + 1], batches |-> 0]}]
              ELSE UNCHANGED client
  /\ UNCHANGED <<status, toApp, used>>

\* trigger_debounced: the input gets the next number, which supersedes the
\* inputs before it, and its handler starts.
Debounced(x) ==
  LET c == client[x]
      n == c.input + 1
  IN /\ c.debounce # 0
     /\ client' = [client EXCEPT ![x].debounce = 0, ![x].input = n, ![x].threads =
          @ \cup {[req |-> c.debounce, input |-> n, meant |-> LocalRow, got |-> LocalRow, batches |-> 0]}]
     /\ UNCHANGED wireVars

\* Mutant: nothing is superseded.
NeverSuperseded(x, n) == FALSE
\* A later input was dispatched; activations are never superseded.
Superseded(x, n) == n # 0 /\ n # client[x].input

\* The handler t hands rows to the main loop and goes on as the threads next.
Emits(x, t, next, response) ==
  /\ client' = [client EXCEPT ![x].threads = (@ \ {t}) \cup next, ![x].idle = Append(@, response)]
  /\ UNCHANGED wireVars
Ends(x, t) == client' = [client EXCEPT ![x].threads = @ \ {t}] /\ UNCHANGED wireVars

\* The generator yields a result, or a list of one that replaces the list.
YieldsBatch(x, t) ==
  \/ Superseded(x, t.input) /\ Ends(x, t)
  \/ /\ ~Superseded(x, t.input) /\ t.batches < MaxBatches
     /\ \E append \in BOOLEAN :
          Emits(x, t, {[t EXCEPT !.batches = @ + 1]},
                Batch(t, <<Result(x, t, t.batches + 1)>>, append, FALSE))

\* The generator is exhausted: an empty batch closes the stream, also when a
\* later input superseded it since its last yield.
Exhausted(x, t) == Emits(x, t, {}, Batch(t, <<>>, t.batches > 0, TRUE))

\* The handler returns a list, or an effect.
ReturnsList(x, t)  == t.batches = 0 /\ Emits(x, t, {}, Batch(t, <<Result(x, t, 1)>>, FALSE, TRUE))
ReturnsNothing(x, t) == t.batches = 0 /\ Emits(x, t, {}, Answer(t, "nothing", <<>>, FALSE, TRUE, Empty))
ReturnsQuery(x, t) ==
  t.batches = 0 /\ \E text \in Typed : Emits(x, t, {}, Answer(t, "query", <<>>, FALSE, TRUE, text))

\* The handler raises.
Raises(x, t) ==
  /\ used.failures < MaxFailures
  /\ client' = [client EXCEPT ![x].threads = @ \ {t}]
  /\ used' = [used EXCEPT !.failures = @ + 1]
  /\ UNCHANGED <<status, toExt, toApp>>

\* Inputs are answered with results or nothing, activations also with effects.
MayAnswer(t, how) == IF t.input # 0 THEN how # "query" ELSE how \in ActivationReplies

\* run_event_listener and _stream_response, up to the next result.
Handler(x) ==
  \E t \in client[x].threads :
    \/ MayAnswer(t, "stream") /\ (YieldsBatch(x, t) \/ Exhausted(x, t))
    \/ MayAnswer(t, "list") /\ ReturnsList(x, t)
    \/ MayAnswer(t, "nothing") /\ ReturnsNothing(x, t)
    \/ MayAnswer(t, "query") /\ ReturnsQuery(x, t)
    \/ Raises(x, t)

\* Mutant: a replacing batch starts the ids afresh.
CacheForBatch(c, m) == IF m.req = c.cacheReq /\ m.append THEN c.cache ELSE <<>>
\* _assign_result_ids: a request other than the last one starts the ids afresh.
CacheFor(c, m) == IF m.req = c.cacheReq THEN c.cache ELSE <<>>

ResultId(cached, i) == Len(cached) + i - 1

\* _send_response, on the main loop: what a superseded input has to say is
\* dropped; results get the ids after the ones in the cache.
SendResponse(x) ==
  LET c      == client[x]
      m      == Head(c.idle)
      cached == CacheFor(c, m)
      rows   == [i \in DOMAIN m.rows |-> [m.rows[i] EXCEPT !.id = ResultId(cached, i)]]
  IN /\ c.idle # <<>>
     /\ IF Superseded(x, m.input)
        THEN client' = [client EXCEPT ![x].idle = Tail(@)] /\ UNCHANGED toApp
        ELSE /\ client' = [client EXCEPT
                  ![x] = IF m.type = "render"
                         THEN [c EXCEPT !.idle = Tail(@), !.cacheReq = m.req, !.cache = cached \o rows]
                         ELSE [c EXCEPT !.idle = Tail(@)]]
             /\ toApp' = [toApp EXCEPT ![x] = Append(@, [m EXCEPT !.rows = rows])]
     /\ UNCHANGED <<status, toExt, used>>
===============================================================================
