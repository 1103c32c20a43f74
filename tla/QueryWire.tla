------------------------------ MODULE QueryWire -------------------------------
(***************************************************************************)
(* What the app and the extension processes exchange for a query (docs/    *)
(* architecture/extension-ipc.md): the messages of internals/ipc.py on one *)
(* socket pair per extension process.                                      *)
(***************************************************************************)
EXTENDS Integers, Sequences, FiniteSets

CONSTANTS
  Exts,            \* extension ids; the query text x stands for any query with the keyword of x
  Plain, Empty,    \* a query without a keyword, and the empty one
  NoExt,           \* "no extension"
  Typed,           \* the queries the user types
  ActivationReplies, \* what activation handlers answer with
  MaxInputs,       \* bound: edits of the query text
  MaxActivations,  \* bound: activations of a row
  MaxBatches,      \* bound: results a handler yields
  MaxStops,        \* bound: processes stopped by the service
  MaxFailures      \* bound: processes that crash, fail to start or are not started again

ASSUME TextsAssumption == {Plain, Empty, NoExt} \cap Exts = {} /\ Plain # Empty
ASSUME RepliesAssumption == ActivationReplies \subseteq {"stream", "list", "nothing", "query"}
ASSUME LimitsAssumption ==
  {MaxInputs, MaxActivations, MaxBatches, MaxStops, MaxFailures} \subseteq Nat

VARIABLES
  status,   \* of each extension: it runs, is stopped and about to be started, or is not available
  toExt,    \* requests in the socket towards each process
  toApp,    \* responses in the socket towards the app
  used      \* how often each bounded thing happened

wireVars == <<status, toExt, toApp, used>>

Texts == Exts \cup {Plain, Empty}
ASSUME TypedAssumption == Typed \subseteq Texts

\* A row of a result list: the n-th result of a request of an extension, and
\* the __result_id__ the extension stamped on it.
Row       == [ext: Exts \cup {NoExt}, req: Nat, n: Nat, id: Nat]
LocalRow  == [ext |-> NoExt, req |-> 0, n |-> 0, id |-> 0]     \* a launcher result
NoticeRow == [ext |-> NoExt, req |-> 0, n |-> 1, id |-> 0]     \* a message of the app's

Request  == [type: {"input", "activation"}, req: Nat, row: Row]
Response == [type: {"render", "nothing", "query"}, req: Nat, input: Nat,
             rows: Seq(Row), append: BOOLEAN, final: BOOLEAN, query: Texts]

InputRequest(r)           == [type |-> "input", req |-> r, row |-> LocalRow]
ActivationRequest(r, row) == [type |-> "activation", req |-> r, row |-> row]

\* Something that is bounded by max happens once more.
Uses(k, max) == used[k] < max /\ used' = [used EXCEPT ![k] = @ + 1]

WireInit ==
  /\ status = [x \in Exts |-> "up"]
  /\ toExt = [x \in Exts |-> <<>>]
  /\ toApp = [x \in Exts |-> <<>>]
  /\ used = [inputs |-> 0, activations |-> 0, stops |-> 0, failures |-> 0]

WireTypeOK ==
  /\ status \in [Exts -> {"up", "stopped", "down"}]
  /\ toExt \in [Exts -> Seq(Request)]
  /\ toApp \in [Exts -> Seq(Response)]
  /\ used \in [inputs: Nat, activations: Nat, stops: Nat, failures: Nat]
===============================================================================
