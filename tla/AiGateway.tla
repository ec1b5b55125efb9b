------------------------------ MODULE AiGateway ------------------------------
(***************************************************************************)
(* The gateway to the local model (ai/service.py, client.py, runtime.py,   *)
(* tools.py) and the chat routes in front of it (api/routes/ai.py).        *)
(*                                                                         *)
(* A chat request answers with one JSON body, a stream request with SSE    *)
(* events; both run the same tool loop.  Each request is one database      *)
(* transaction from its first query to its COMMIT and keeps a pooled       *)
(* connection for all of it; it holds one of the generation slots while    *)
(* the loop runs.  Runners of background jobs take the same slots.  What   *)
(* the model says is free: an answer, a tool call, a call of a tool that   *)
(* does not exist, a fence that does not parse.                            *)
(***************************************************************************)
EXTENDS Integers, FiniteSets, FiniteSetsExt

CONSTANTS
  Chat, Stream,  \* requests of the two chat routes
  Background,    \* completions asked for by job runners
  Old,           \* a conversation that exists before
  Slots,         \* AI_MAX_CONCURRENT_GENERATIONS
  Connections,   \* size of the connection pool
  Budget         \* tool_iterations of the answer profile

Request == Chat \cup Stream
Actor == Request \cup Background

ASSUME GatewayConstants ==
  /\ Chat \cap Stream = {} /\ Request \cap Background = {} /\ Old \notin Actor
  /\ IsFiniteSet(Actor)
  /\ Slots \in Nat \ {0} /\ Connections \in Nat \ {0} /\ Budget \in Nat \ {0}

VARIABLES
  req,       \* the requests and completions
  slots,     \* value of _generation_semaphore
  active,    \* metrics.generations_active
  pool,      \* connections of the pool that are free
  ready,     \* runtime._ready, shared by all requests
  threads,   \* committed conversations; a new one is named by its request
  messages,  \* committed exchanges: <<request, conversation>>
  audited    \* committed audit rows for the tool calls of each request

gatewayVars == <<req, slots, active, pool, ready, threads, messages, audited>>

-----------------------------------------------------------------------------

InSlot == {"call", "generating", "judge", "tool"}
Working == {"probe", "limit", "wait", "persist", "reply"} \cup InSlot
Ended == {"answered", "refused", "crashed", "gone"}
Said == {"nothing", "answer", "tool", "unknown", "broken"}

Fresh == [pc |-> "idle", thread |-> Old, rounds |-> 0, forced |-> FALSE,
          tools |-> 0, said |-> "nothing"]

GatewayTypeOK ==
  /\ req \in [Actor -> [pc : {"idle"} \cup Working \cup Ended,
                        thread : Request \cup {Old}, rounds : 0 .. Budget,
                        forced : BOOLEAN, tools : 0 .. Budget, said : Said]]
  /\ slots \in 0 .. Slots /\ active \in 0 .. Slots /\ pool \in 0 .. Connections
  /\ ready \in BOOLEAN
  /\ threads \subseteq Request \cup {Old}
  /\ messages \subseteq Request \X (Request \cup {Old})
  /\ audited \in [Request -> 0 .. Budget]

GatewayInit ==
  /\ req = [r \in Actor |-> Fresh]
  /\ slots = Slots /\ active = 0 /\ pool = Connections
  /\ ready \in BOOLEAN
  /\ threads = {Old} /\ messages = {} /\ audited = [r \in Request |-> 0]

-----------------------------------------------------------------------------
(* How a request ends: what it holds is given back, and its transaction is *)
(* committed or rolled back.                                               *)

At(r, pc) == req[r].pc = pc
Goes(r, pc) == req' = [req EXCEPT ![r].pc = pc]

Released(r) == IF req[r].pc \in InSlot THEN slots + 1 ELSE slots
StillActive(r) == IF At(r, "generating") THEN active - 1 ELSE active

RollBack == UNCHANGED <<threads, messages, audited>>

Gives(r, how) ==
  /\ req' = [req EXCEPT ![r].pc = how, ![r].rounds = 0, ![r].forced = FALSE]
  /\ slots' = Released(r) /\ active' = StillActive(r) /\ pool' = pool + 1

(* A typed failure.  The chat route answers 4xx or 503 and drops the       *)
(* session; the stream yields an error event and then commits what has     *)
(* been flushed: the audit rows of its tool calls.                         *)
Refuse(r) ==
  /\ Gives(r, "refused")
  /\ IF r \in Stream
     THEN /\ audited' = [audited EXCEPT ![r] = req[r].tools]
          /\ UNCHANGED <<threads, messages>>
     ELSE RollBack
  /\ UNCHANGED ready

(* An exception nobody expects: 500, or a stream that ends without a word. *)
Crash(r) ==
  /\ Gives(r, "crashed") /\ RollBack
  /\ UNCHANGED ready

NoDb == UNCHANGED <<threads, messages, audited>>
Local(r) == UNCHANGED <<slots, active, pool, ready>> /\ NoDb

-----------------------------------------------------------------------------
(* Authentication, case access and ownership of the conversation come      *)
(* first: a foreign or deleted one is not found.  The chat route also      *)
(* creates a missing conversation now, in its open transaction.            *)
Open_commits(r, t) ==
  /\ At(r, "idle") /\ pool > 0
  /\ t \in (threads \cap {Old}) \cup {r}
  /\ req' = [req EXCEPT ![r].pc = "probe", ![r].thread = t] /\ pool' = pool - 1
  /\ threads' = IF r \in Chat THEN threads \cup {t} ELSE threads
  /\ UNCHANGED <<slots, active, ready, messages, audited>>

Open(r, t) ==
  /\ At(r, "idle") /\ pool > 0
  /\ t \in (threads \cap {Old}) \cup {r}
  /\ req' = [req EXCEPT ![r].pc = "probe", ![r].thread = t] /\ pool' = pool - 1
  /\ UNCHANGED <<slots, active, ready>> /\ NoDb

NotFound(r) ==
  /\ At(r, "idle") /\ pool > 0
  /\ Goes(r, "refused") /\ Local(r)

(* The pool gives up after its timeout.                                    *)
PoolTimeout(r) == At(r, "idle") /\ pool = 0 /\ Goes(r, "crashed") /\ Local(r)

BackgroundOpen(b) ==
  /\ At(b, "idle") /\ pool > 0 /\ pool' = pool - 1 /\ Goes(b, "probe")
  /\ UNCHANGED <<slots, active, ready>> /\ NoDb

(* The health probe writes the flag that every completion looks at.        *)
ensure_ready(r) ==
  /\ At(r, "probe") /\ ready' = TRUE
  /\ Goes(r, IF r \in Background THEN "wait" ELSE "limit")
  /\ UNCHANGED <<slots, active, pool>> /\ NoDb

NotReady(r) ==
  /\ At(r, "probe") /\ ready' = FALSE
  /\ Gives(r, "refused") /\ NoDb

(* The request is within the limit of this minute, or Redis is away and    *)
(* nothing is counted; or it is over the limit.                            *)
check_rate_limit(r) == At(r, "limit") /\ Goes(r, "wait") /\ Local(r)
Limited(r) == At(r, "limit") /\ Refuse(r)

-----------------------------------------------------------------------------
(* The tool loop, inside the semaphore.                                    *)

TakeSlot(r) ==
  /\ At(r, "wait") /\ slots > 0 /\ slots' = slots - 1 /\ Goes(r, "call")
  /\ UNCHANGED <<active, pool, ready>> /\ NoDb

(* _require_client looks at the flag, which any other request may have     *)
(* changed since this one probed.                                          *)
CallModel(r) ==
  /\ At(r, "call") /\ ready /\ active' = active + 1 /\ Goes(r, "generating")
  /\ UNCHANGED <<slots, pool, ready>> /\ NoDb
CallRefused(r) == At(r, "call") /\ ~ready /\ Refuse(r)

(* The completion ends: with a text, or with an error of the transport     *)
(* (which a read timeout brings about in the end).                         *)
ModelSays(r, what) ==
  /\ At(r, "generating") /\ what \in Said \ {"nothing"}
  /\ r \in Request
  /\ req' = [req EXCEPT ![r].pc = "judge", ![r].said = what,
                        ![r].rounds = Min({@ + 1, Budget})]
  /\ active' = active - 1
  /\ UNCHANGED <<slots, pool, ready>> /\ NoDb
ModelFails(r) == At(r, "generating") /\ Refuse(r)
BackgroundEnds(b) ==
  /\ At(b, "generating") /\ b \in Background /\ Gives(b, "answered")
  /\ UNCHANGED ready /\ NoDb

(* What _parse_tool_call makes of the text.                                *)
IsToolCall(r) == req[r].said \in {"tool", "unknown"}
Exhausted_never(r) == FALSE
Exhausted(r) == req[r].rounds >= Budget

(* The last round was announced: another call is a protocol error.         *)
ForcedRoundFails(r) ==
  /\ At(r, "judge") /\ IsToolCall(r) /\ req[r].forced
  /\ Refuse(r)

UnknownTool(r) ==
  /\ At(r, "judge") /\ req[r].said = "unknown" /\ ~req[r].forced
  /\ req' = [req EXCEPT ![r].pc = "call", ![r].forced = @ \/ Exhausted(r)]
  /\ Local(r)

RunTool(r) ==
  /\ At(r, "judge") /\ req[r].said = "tool" /\ ~req[r].forced
  /\ Goes(r, "tool") /\ Local(r)

(* execute_tool: the handler re-checks access and answers or refuses; both *)
(* flush an audit row and are fed back to the model.                       *)
execute_tool(r) ==
  /\ At(r, "tool")
  /\ req' = [req EXCEPT ![r].pc = "call", ![r].tools = Min({@ + 1, Budget}),
                        ![r].forced = @ \/ Exhausted(r)]
  /\ Local(r)

(* A handler raises.  The route of a stream commits all the same, which    *)
(* fails if the exception came from the database.                          *)
ToolRaises(r) ==
  /\ At(r, "tool")
  /\ \/ Crash(r)
     \/ /\ r \in Stream /\ Gives(r, "crashed") /\ UNCHANGED ready
        /\ audited' = [audited EXCEPT ![r] = req[r].tools]
        /\ UNCHANGED <<threads, messages>>

(* Everything else is the answer, a fence that does not parse included.    *)
FinalAnswer(r) ==
  /\ At(r, "judge") /\ ~IsToolCall(r)
  /\ Goes(r, "persist") /\ slots' = slots + 1
  /\ UNCHANGED <<active, pool, ready>> /\ NoDb

-----------------------------------------------------------------------------
(* _persist flushes the exchange: a conversation deleted meanwhile makes   *)
(* the flush fail.  The stream then yields its done event; the COMMIT is   *)
(* the route's.                                                            *)
_persist(r) ==
  /\ At(r, "persist") /\ req[r].thread \in threads \cup {r}
  /\ Goes(r, "reply") /\ Local(r)
PersistFails(r) ==
  /\ At(r, "persist") /\ req[r].thread \notin threads \cup {r}
  /\ Crash(r)

Commit(r) ==
  /\ At(r, "reply") /\ Gives(r, "answered")
  /\ threads' = threads \cup {req[r].thread}
  /\ messages' = messages \cup {<<r, req[r].thread>>}
  /\ audited' = [audited EXCEPT ![r] = req[r].tools]
  /\ UNCHANGED ready

(* The client of a stream goes away: the generator is closed, the task     *)
(* cancelled, nothing committed, even when done has been sent.             *)
Disconnect_keepsSlot(r) ==
  /\ r \in Stream /\ req[r].pc \in Working
  /\ Goes(r, "gone") /\ active' = StillActive(r) /\ pool' = pool + 1
  /\ RollBack /\ UNCHANGED <<slots, ready>>

Disconnect(r) ==
  /\ r \in Stream /\ req[r].pc \in Working
  /\ Gives(r, "gone") /\ RollBack
  /\ UNCHANGED ready

(* The owner deletes a conversation, with its messages.  Flushed but       *)
(* uncommitted messages lock its row.                                      *)
delete_conversation(t) ==
  /\ t \in threads
  /\ \A r \in Request : ~(At(r, "reply") /\ req[r].thread = t)
  /\ threads' = threads \ {t}
  /\ messages' = {m \in messages : m[2] # t}
  /\ UNCHANGED <<req, slots, active, pool, ready, audited>>

-----------------------------------------------------------------------------

Loop(r) ==
  \/ TakeSlot(r) \/ CallModel(r) \/ CallRefused(r) \/ ModelFails(r)
  \/ \E what \in Said \ {"nothing"} : ModelSays(r, what)
  \/ ForcedRoundFails(r) \/ UnknownTool(r) \/ RunTool(r)
  \/ execute_tool(r) \/ ToolRaises(r) \/ FinalAnswer(r)

Steps(r) ==
  \/ ensure_ready(r) \/ NotReady(r)
  \/ check_rate_limit(r) \/ Limited(r)
  \/ Loop(r)
  \/ _persist(r) \/ PersistFails(r) \/ Commit(r)
BackgroundSteps(b) ==
  \/ ensure_ready(b) \/ NotReady(b)
  \/ TakeSlot(b) \/ CallModel(b) \/ CallRefused(b) \/ ModelFails(b) \/ BackgroundEnds(b)

GatewayNext ==
  \/ \E r \in Request : \/ \E t \in {Old, r} : Open(r, t)
                        \/ NotFound(r) \/ PoolTimeout(r) \/ Steps(r) \/ Disconnect(r)
  \/ \E b \in Background : BackgroundOpen(b) \/ BackgroundSteps(b)
  \/ \E t \in threads : delete_conversation(t)

(* Every await of a request returns in the end; the semaphore wakes its    *)
(* waiters in order, and every completion has a read timeout.              *)
GatewayFairness ==
  /\ \A r \in Request : WF_gatewayVars(Steps(r))
  /\ \A b \in Background : WF_gatewayVars(BackgroundSteps(b))

Spec == GatewayInit /\ [][GatewayNext]_gatewayVars /\ GatewayFairness

-----------------------------------------------------------------------------

(* The counter of the semaphore, the gauge of running generations and the  *)
(* pool agree with what the requests hold, whichever way they ended        *)
(* (service.py:884, client.py:130 and 216): no path keeps a slot, so none  *)
(* is lost to a client that disconnects.                                   *)
NothingLeaks ==
  /\ slots + Cardinality({r \in Actor : req[r].pc \in InSlot}) = Slots
  /\ active = Cardinality({r \in Actor : At(r, "generating")})
  /\ pool + Cardinality({r \in Actor : req[r].pc \in Working}) = Connections

(* A request that was answered left its exchange whole: the conversation,  *)
(* its messages and one audit row per tool call, unless the conversation   *)
(* was deleted since; one that was not answered left no message and no     *)
(* empty conversation; and no well-formed tool call is ever the answer.    *)
ExchangesAreWhole ==
  \A r \in Request :
    IF At(r, "answered")
    THEN /\ req[r].thread \in threads => <<r, req[r].thread>> \in messages
         /\ audited[r] = req[r].tools
         /\ ~IsToolCall(r)
    ELSE r \notin threads /\ \A m \in messages : m[1] # r

(* Every request that got past the door ends, whatever the model says:     *)
(* the loop closes after its last round and nobody waits for a slot        *)
(* forever (service.py:884-1023).                                          *)
RequestsAnswered ==
  \A r \in Actor : (req[r].pc \in Working) ~> (req[r].pc \in Ended)
=============================================================================
