---------------------------- MODULE DeviceRuntime ----------------------------
(***************************************************************************)
(* Tool calls that run on a user's device.                                  *)
(*                                                                          *)
(* The device's sidecar (client_backend/services/runtime_bridge.py)         *)
(* registers, opens a WebSocket and publishes its tool catalog.  A server   *)
(* process holds the socket (DeviceRuntimeGateway); another may be running  *)
(* the turn that calls a tool (dispatch_tool_call).  They meet in Redis     *)
(* (RedisClientRuntimeStore): a session record, one request queue per       *)
(* device, a result queue per request.  A Redis command, or MULTI block of  *)
(* commands, is one step here, with three exceptions: the read that decides *)
(* publish_result and _clear_pending_request goes with the block it guards, *)
(* and the SMEMBERS of delete_session with its DELETE.                      *)
(*                                                                          *)
(* One device.  Its sessions are numbered in the order they are registered; *)
(* each has a socket and a gateway of its own, and nothing but time closes  *)
(* an old gateway whose socket is dead before the device reconnects.        *)
(***************************************************************************)
EXTENDS Naturals, Sequences, SequencesExt

CONSTANTS
    Requests,       \* tool calls, one dispatch each
    MaxSessions,    \* how often the device registers
    MaxVersion,     \* catalog publications in one session
    MaxFaults       \* broken sockets, gateway crashes, lost replies, silent intervals,
                    \* Redis errors under a caller

ASSUME BoundsAssumption ==
    MaxSessions \in Nat /\ MaxVersion \in Nat /\ MaxFaults \in Nat

Sessions == 1..MaxSessions
NoSession == 0

(* Whoever finds a session whose heartbeats stopped ends it: the sweep, a    *)
(* dispatch's lookup or a late heartbeat.                                    *)
Reaper == 0
Cleaners == Sessions \union {Reaper}

VARIABLES
    \* Redis
    record,         \* the device's session record
    stale,          \* its last heartbeat is older than two intervals
    issued,         \* the session id a connection may still consume
    queue,          \* the device's request queue
    pending,        \* the device's set of unanswered requests
    owned,          \* requests whose request_device key exists
    withdrawn,      \* requests with a withdrawn marker
    result,         \* the head of each request's result queue
    \* the callers
    dispatch, bound, answer,
    wire,           \* pushes whose caller was cancelled while they travelled
    \* the gateways
    gate, hand, beat, cleaning, snapshot,
    \* the sockets
    link, down, up,
    \* the sidecar
    side, session, mirror, sync, fetched, running,
    \* history
    started,        \* requests the device has begun to run
    dropped,        \* requests whose cancel reached nobody who could run them
    faults          \* how many faults have happened

redis == <<record, stale, issued, queue, pending, owned, withdrawn, result>>
callers == <<dispatch, bound, answer, wire>>
gateways == <<gate, hand, beat, cleaning, snapshot>>
sockets == <<link, down, up>>
sidecar == <<side, session, mirror, sync, fetched, running>>
history == <<started, dropped, faults>>
vars == <<redis, callers, gateways, sockets, sidecar, history>>

Record == [sid : Sessions \union {NoSession}, version : 0..MaxVersion]
NoRecord == [sid |-> NoSession, version |-> 0]

Run(r) == [kind |-> "run", req |-> r]
Cancel(r) == [kind |-> "cancel", req |-> r]
Message == [kind : {"run", "cancel"}, req : Requests]
Empty == <<>>

(* What a result says: "ran" with the tool's own answer or failure,          *)
(* "rejected" with a code that means it never ran, or "maybe", one of        *)
(* OUTCOME_UNKNOWN_CODES.                                                    *)
Result == {"ran", "rejected", "maybe"}

RedisOK ==
    /\ record \in Record
    /\ stale \in BOOLEAN
    /\ issued \in Sessions \union {NoSession}
    /\ queue \in Seq(Message)
    /\ pending \subseteq Requests
    /\ owned \subseteq Requests
    /\ withdrawn \subseteq Requests
    /\ result \in [Requests -> Result \union {"none"}]

CallersOK ==
    /\ dispatch \in [Requests -> {"idle", "bound", "pushing", "waiting", "withdrawing",
                                  "cancelling", "clearing", "over"}]
    /\ bound \in [Requests -> Record]
    /\ answer \in [Requests -> Result \union {"none", "refused", "abandoned", "failed"}]
    /\ wire \subseteq Requests

GatewaysOK ==
    /\ gate \in [Sessions -> {"none", "open", "closed"}]
    /\ hand \in [Sessions -> (Message \X BOOLEAN) \union {Empty}]
    /\ beat \in [Sessions -> Record]
    /\ cleaning \in [Cleaners -> {"idle", "failing", "deleting"}]
    /\ snapshot \in [Cleaners -> SUBSET Requests]

SocketsOK ==
    /\ link \in [Sessions -> {"none", "up", "broken"}]
    /\ down \in [Sessions -> Seq(Message)]
    /\ up \in [Sessions -> SUBSET (Requests \X Result)]

SidecarOK ==
    /\ side \in {"off", "registered", "connected", "syncing", "serving"}
    /\ session \in Sessions \union {NoSession}
    /\ mirror \in 0..MaxVersion
    /\ sync \in {"none", "asked", "read", "written", "failed"}
    /\ fetched \in Record
    /\ running \subseteq Requests

HistoryOK ==
    /\ started \subseteq Requests
    /\ dropped \subseteq Requests
    /\ faults \in 0..MaxFaults

(* Every variable has its type, part by part. *)
TypeOK == RedisOK /\ CallersOK /\ GatewaysOK /\ SocketsOK /\ SidecarOK /\ HistoryOK

Init ==
    /\ record = NoRecord /\ stale = FALSE /\ issued = NoSession
    /\ queue = <<>> /\ pending = {} /\ owned = {} /\ withdrawn = {}
    /\ result = [r \in Requests |-> "none"]
    /\ dispatch = [r \in Requests |-> "idle"]
    /\ bound = [r \in Requests |-> NoRecord]
    /\ answer = [r \in Requests |-> "none"]
    /\ wire = {}
    /\ gate = [s \in Sessions |-> "none"]
    /\ hand = [s \in Sessions |-> Empty]
    /\ beat = [s \in Sessions |-> NoRecord]
    /\ cleaning = [c \in Cleaners |-> "idle"]
    /\ snapshot = [c \in Cleaners |-> {}]
    /\ link = [s \in Sessions |-> "none"]
    /\ down = [s \in Sessions |-> <<>>]
    /\ up = [s \in Sessions |-> {}]
    /\ side = "off" /\ session = NoSession /\ mirror = 0
    /\ sync = "none" /\ fetched = NoRecord /\ running = {}
    /\ started = {} /\ dropped = {} /\ faults = 0

Fault ==
    /\ faults < MaxFaults
    /\ faults' = faults + 1
    /\ UNCHANGED <<started, dropped>>

(* _get_session_async and get_session: a record that can still be used. *)
Alive == record.sid # NoSession /\ ~stale

(* Mutant: the gateway invents a verdict no caller knows. *)
PublishUnlisted(r, res) == result' = [result EXCEPT ![r] = "undecided"]

(* RPUSH to the result queue, of which the caller reads the head. *)
Publish(r, res) == result' = [result EXCEPT ![r] = IF @ = "none" THEN res ELSE @]

(* _clear_pending_request: a request nobody tracks any more is left alone. *)
Untrack(r) ==
    /\ pending' = IF r \in owned THEN pending \ {r} ELSE pending
    /\ owned' = owned \ {r}

-----------------------------------------------------------------------------
(* The caller: a bound client tool and dispatch_request.                     *)

(* The tool is bound to the session and catalog version of the turn. *)
Bind(r) ==
    /\ dispatch[r] = "idle"
    /\ Alive
    /\ bound' = [bound EXCEPT ![r] = record]
    /\ dispatch' = [dispatch EXCEPT ![r] = "bound"]
    /\ UNCHANGED <<redis, answer, wire, gateways, sockets, sidecar, history>>

(* The guards of dispatch_tool_call. *)
Dispatch(r) ==
    /\ dispatch[r] = "bound"
    /\ ~stale
    /\ IF record = bound[r]
         THEN /\ dispatch' = [dispatch EXCEPT ![r] = "pushing"]
              /\ UNCHANGED answer
         ELSE /\ dispatch' = [dispatch EXCEPT ![r] = "over"]
              /\ answer' = [answer EXCEPT ![r] = "refused"]
    /\ UNCHANGED <<redis, bound, wire, gateways, sockets, sidecar, history>>

(* The MULTI block that tracks and queues the request. *)
Enqueue(r) ==
    /\ queue' = Append(queue, Run(r))
    /\ pending' = pending \union {r}
    /\ owned' = owned \union {r}
    /\ UNCHANGED <<record, stale, issued, withdrawn, result>>

Push(r) ==
    /\ dispatch[r] = "pushing"
    /\ Enqueue(r)
    /\ dispatch' = [dispatch EXCEPT ![r] = "waiting"]
    /\ UNCHANGED <<bound, answer, wire, gateways, sockets, sidecar, history>>

(* A push that outlived the caller who was cancelled while it travelled. *)
PushLands(r) ==
    /\ r \in wire
    /\ wire' = wire \ {r}
    /\ Enqueue(r)
    /\ UNCHANGED <<dispatch, bound, answer, gateways, sockets, sidecar, history>>

(* BLPOP on the result queue. *)
TakeResult(r) ==
    /\ dispatch[r] = "waiting"
    /\ result[r] # "none"
    /\ answer' = [answer EXCEPT ![r] = result[r]]
    /\ dispatch' = [dispatch EXCEPT ![r] = "clearing"]
    /\ UNCHANGED <<redis, bound, wire, gateways, sockets, sidecar, history>>

(* The deadline (a TimeoutError, whose outcome is unknown) or the user's     *)
(* Stop, which may cancel the push on the wire.                              *)
GiveUp(r) ==
    /\ \/ /\ dispatch[r] = "waiting"
          /\ UNCHANGED wire
       \/ /\ dispatch[r] = "pushing"
          /\ wire' = wire \union {r}
    /\ answer' = [answer EXCEPT ![r] = "abandoned"]
    /\ dispatch' = [dispatch EXCEPT ![r] = "withdrawing"]
    /\ UNCHANGED <<redis, bound, gateways, sockets, sidecar, history>>

(* Mutant: the request is taken back without leaving a marker. *)
Unmarked(r) == withdrawn

(* The marker lives for _RESULT_TTL_SECONDS (300 s), which is taken to be    *)
(* longer than a push can travel and than a gateway leaves a queue unread:   *)
(* here it does not expire.                                                  *)
Marked(r) == withdrawn \union {r}

(* _withdraw: the marker and LREM in one MULTI block. *)
Withdraw(r) ==
    /\ dispatch[r] = "withdrawing"
    /\ withdrawn' = Marked(r)
    /\ queue' = RemoveFirst(queue, Run(r))
    /\ dispatch' = [dispatch EXCEPT ![r] =
                      IF Run(r) \in ToSet(queue) THEN "clearing" ELSE "cancelling"]
    /\ UNCHANGED <<record, stale, issued, pending, owned, result, bound, answer, wire,
                   gateways, sockets, sidecar, history>>

(* Mutant: what was not in the queue any more is left alone. *)
NothingToCancel(r) == queue

CancelQueued(r) == Append(queue, Cancel(r))

(* The gateway has it: a cancel follows it. *)
PushCancel(r) ==
    /\ dispatch[r] = "cancelling"
    /\ queue' = CancelQueued(r)
    /\ dispatch' = [dispatch EXCEPT ![r] = "clearing"]
    /\ UNCHANGED <<record, stale, issued, pending, owned, withdrawn, result, bound, answer,
                   wire, gateways, sockets, sidecar, history>>

(* The keys of a request that is over are deleted. *)
DropKeys(r) ==
    /\ Untrack(r)
    /\ result' = [result EXCEPT ![r] = "none"]

(* Whatever the ending, nothing is left behind in Redis. *)
Clear(r) ==
    /\ dispatch[r] = "clearing"
    /\ DropKeys(r)
    /\ dispatch' = [dispatch EXCEPT ![r] = "over"]
    /\ UNCHANGED <<record, stale, issued, queue, withdrawn, bound, answer, wire, gateways,
                   sockets, sidecar, history>>

(* A Redis error under any command of dispatch_request. It is no builtin     *)
(* TimeoutError: the caller withdraws nothing, and is told of a failure that *)
(* outcome_may_have_happened takes for a clean one. The push may still be    *)
(* applied, and the clearing may fail as well. A command that is applied and *)
(* whose reply is lost is that command's own step and then this one.         *)
RedisFails(r) ==
    /\ Fault
    /\ \/ /\ dispatch[r] \in {"pushing", "waiting", "withdrawing", "cancelling", "clearing"}
          /\ dispatch' = [dispatch EXCEPT ![r] = "clearing"]
          /\ wire' = IF dispatch[r] = "pushing" THEN wire \union {r} ELSE wire
          /\ UNCHANGED <<pending, owned, result>>
       \/ /\ dispatch[r] = "clearing"
          /\ dispatch' = [dispatch EXCEPT ![r] = "over"]
          /\ DropKeys(r) \/ UNCHANGED <<pending, owned, result>>
          /\ UNCHANGED wire
    /\ answer' = [answer EXCEPT ![r] = "failed"]
    /\ UNCHANGED <<record, stale, issued, queue, withdrawn, bound, gateways, sockets, sidecar>>

-----------------------------------------------------------------------------
(* The gateway of session s.                                                 *)

(* get_next_request: BLPOP. *)
TakeRequest(s) ==
    /\ gate[s] = "open"
    /\ hand[s] = Empty
    /\ queue # <<>>
    /\ queue' = Tail(queue)
    /\ hand' = [hand EXCEPT ![s] = <<Head(queue), Head(queue).kind = "cancel">>]
    /\ dropped' = IF Head(queue).kind = "cancel" /\ s # session
                    THEN dropped \union {Head(queue).req} ELSE dropped
    /\ UNCHANGED <<record, stale, issued, pending, owned, withdrawn, result, callers, gate,
                   beat, cleaning, snapshot, sockets, sidecar, started, faults>>

(* ... and EXISTS on the withdrawn marker, for a request. *)
CheckRequest(s) ==
    /\ gate[s] = "open"
    /\ hand[s] # Empty
    /\ ~hand[s][2]
    /\ hand' = [hand EXCEPT ![s] =
                  IF @[1].req \in withdrawn THEN Empty ELSE <<@[1], TRUE>>]
    /\ UNCHANGED <<redis, callers, gate, beat, cleaning, snapshot, sockets, sidecar, history>>

(* send_message on a socket that works, or is dead and does not show it. *)
Deliver(s) ==
    /\ gate[s] = "open"
    /\ hand[s] # Empty
    /\ hand[s][2]
    /\ down' = [down EXCEPT ![s] =
                  IF link[s] = "up" THEN Append(@, hand[s][1]) ELSE @]
    /\ hand' = [hand EXCEPT ![s] = Empty]
    /\ UNCHANGED <<redis, callers, gate, beat, cleaning, snapshot, link, up, sidecar, history>>

(* send_message raises: a request is answered with the exception's name. *)
DeliveryFails(s) ==
    /\ gate[s] = "open"
    /\ hand[s] # Empty
    /\ hand[s][2]
    /\ link[s] = "broken"
    /\ LET m == hand[s][1] IN
         IF m.kind = "run"
           THEN /\ Publish(m.req, "rejected")
                /\ Untrack(m.req)
           ELSE UNCHANGED <<result, pending, owned>>
    /\ hand' = [hand EXCEPT ![s] = Empty]
    /\ UNCHANGED <<record, stale, issued, queue, withdrawn, callers, gate, beat, cleaning,
                   snapshot, sockets, sidecar, history>>

(* _handle_tool_result: a result for a request not tracked is refused. *)
ReceiveResult(s) ==
    /\ gate[s] = "open"
    /\ beat[s] = NoRecord
    /\ \E m \in up[s] :
         /\ up' = [up EXCEPT ![s] = @ \ {m}]
         /\ IF m[1] \in owned
              THEN /\ Publish(m[1], m[2])
                   /\ Untrack(m[1])
              ELSE UNCHANGED <<result, pending, owned>>
    /\ UNCHANGED <<record, stale, issued, queue, withdrawn, callers, gateways, link, down,
                   sidecar, history>>

(* update_heartbeat reads the record ... *)
ReadHeartbeat(s) ==
    /\ gate[s] = "open"
    /\ link[s] = "up"
    /\ side = "serving" /\ session = s
    /\ beat[s] = NoRecord
    /\ Alive
    /\ beat' = [beat EXCEPT ![s] = record]
    /\ UNCHANGED <<redis, callers, gate, hand, cleaning, snapshot, sockets, sidecar, history>>

(* ... and writes it back whole. *)
WriteHeartbeat(s) ==
    /\ beat[s] # NoRecord
    /\ gate[s] = "open"
    /\ record' = beat[s]
    /\ stale' = FALSE
    /\ beat' = [beat EXCEPT ![s] = NoRecord]
    /\ UNCHANGED <<issued, queue, pending, owned, withdrawn, result, callers, gate, hand,
                   cleaning, snapshot, sockets, sidecar, history>>

(* The receive loop ends: the dispatch loop is cancelled with what it holds, *)
(* and end_session runs if the device has any session.                       *)
CloseGateway(s) ==
    /\ gate[s] = "open"
    /\ beat[s] = NoRecord
    /\ link[s] = "broken"
    /\ gate' = [gate EXCEPT ![s] = "closed"]
    /\ hand' = [hand EXCEPT ![s] = Empty]
    /\ cleaning' = [cleaning EXCEPT ![s] = IF Alive THEN "failing" ELSE "idle"]
    /\ snapshot' = [snapshot EXCEPT ![s] = IF Alive THEN pending ELSE {}]
    /\ up' = [up EXCEPT ![s] = {}]
    /\ UNCHANGED <<redis, callers, beat, link, down, sidecar, history>>

(* The process that holds the socket dies and ends nothing. *)
CrashGateway(s) ==
    /\ gate[s] = "open"
    /\ gate' = [gate EXCEPT ![s] = "closed"]
    /\ hand' = [hand EXCEPT ![s] = Empty]
    /\ beat' = [beat EXCEPT ![s] = NoRecord]
    /\ link' = [link EXCEPT ![s] = "broken"]
    /\ up' = [up EXCEPT ![s] = {}]
    /\ Fault
    /\ UNCHANGED <<redis, callers, cleaning, snapshot, down, sidecar>>

-----------------------------------------------------------------------------
(* Ending a session: fail_pending_requests, then delete_session.  Both name  *)
(* the device, not the session.                                              *)

(* The record is found stale: by the sweep, a lookup or a late heartbeat. *)
Expire ==
    /\ record.sid # NoSession
    /\ stale
    /\ cleaning[Reaper] = "idle"
    /\ cleaning' = [cleaning EXCEPT ![Reaper] = "failing"]
    /\ snapshot' = [snapshot EXCEPT ![Reaper] = pending]
    /\ UNCHANGED <<redis, callers, gate, hand, beat, sockets, sidecar, history>>

(* Mutant: a request lost with its device is reported as never run. *)
DisconnectRefused == "rejected"

(* _disconnect_result: DEVICE_DISCONNECTED does not say whether it ran. *)
DisconnectResult == "maybe"

(* fail_pending_requests, one request at a time. *)
FailRequest(c, r) ==
    /\ cleaning[c] = "failing"
    /\ r \in snapshot[c]
    /\ Publish(r, DisconnectResult)
    /\ Untrack(r)
    /\ snapshot' = [snapshot EXCEPT ![c] = @ \ {r}]
    /\ UNCHANGED <<record, stale, issued, queue, withdrawn, callers, gate, hand, beat,
                   cleaning, sockets, sidecar, history>>

DropPending(c) ==
    /\ cleaning[c] = "failing"
    /\ snapshot[c] = {}
    /\ pending' = {}
    /\ cleaning' = [cleaning EXCEPT ![c] = "deleting"]
    /\ UNCHANGED <<record, stale, issued, queue, owned, withdrawn, result, callers, gate,
                   hand, beat, snapshot, sockets, sidecar, history>>

DeleteSession(c) ==
    /\ cleaning[c] = "deleting"
    /\ record' = NoRecord
    /\ stale' = FALSE
    /\ issued' = NoSession
    /\ queue' = <<>>
    /\ owned' = owned \ pending
    /\ pending' = {}
    /\ dropped' = dropped \union {r \in Requests : Cancel(r) \in ToSet(queue)}
    /\ cleaning' = [cleaning EXCEPT ![c] = "idle"]
    /\ UNCHANGED <<withdrawn, result, callers, gate, hand, beat, snapshot, sockets, sidecar,
                   started, faults>>

(* No heartbeat for two intervals. *)
GoStale ==
    /\ record.sid # NoSession
    /\ ~stale
    /\ stale' = TRUE
    /\ Fault
    /\ UNCHANGED <<record, issued, queue, pending, owned, withdrawn, result, callers,
                   gateways, sockets, sidecar>>

-----------------------------------------------------------------------------
(* The sidecar.                                                              *)

(* register_device issues a session id; the catalog mirror starts over. *)
Register ==
    /\ side = "off"
    /\ session < MaxSessions
    /\ session' = session + 1
    /\ issued' = session + 1
    /\ mirror' = 0
    /\ side' = "registered"
    /\ UNCHANGED <<record, stale, queue, pending, owned, withdrawn, result, callers,
                   gateways, sockets, sync, fetched, running, history>>

(* device_runtime_connect and start_session: GETDEL, then SET. *)
Connect ==
    /\ side = "registered"
    /\ issued' = NoSession
    /\ IF issued = session
         THEN /\ record' = [sid |-> session, version |-> 0]
              /\ stale' = FALSE
              /\ gate' = [gate EXCEPT ![session] = "open"]
              /\ link' = [link EXCEPT ![session] = "up"]
              /\ side' = "connected"
         ELSE /\ side' = "off"
              /\ UNCHANGED <<record, stale, gate, link>>
    /\ UNCHANGED <<queue, pending, owned, withdrawn, result, callers, hand, beat, cleaning,
                   snapshot, down, up, session, mirror, sync, fetched, running, history>>

(* refresh_catalogs holds a lock: at connection, before anything is served ... *)
AskSync ==
    /\ side = "connected"
    /\ sync = "none"
    /\ mirror < MaxVersion
    /\ sync' = "asked"
    /\ side' = "syncing"
    /\ UNCHANGED <<redis, callers, gateways, sockets, session, mirror, fetched, running,
                   history>>

(* ... and whenever the user changes what the device offers, which asks      *)
(* nothing of the connection.                                                *)
AskRefresh ==
    /\ session # NoSession
    /\ sync = "none"
    /\ mirror < MaxVersion
    /\ sync' = "asked"
    /\ UNCHANGED <<redis, callers, gateways, sockets, side, session, mirror, fetched,
                   running, history>>

(* update_tool_catalog reads the record, whichever session it names ... *)
ReadSync ==
    /\ sync = "asked"
    /\ ~stale
    /\ record.version < MaxVersion
    /\ fetched' = record
    /\ sync' = IF Alive THEN "read" ELSE "failed"
    /\ UNCHANGED <<redis, callers, gateways, sockets, side, session, mirror, running, history>>

(* ... and writes it back with the next version. *)
WriteSync ==
    /\ sync = "read"
    /\ record' = [fetched EXCEPT !.version = @ + 1]
    /\ sync' = "written"
    /\ fetched' = NoRecord
    /\ UNCHANGED <<stale, issued, queue, pending, owned, withdrawn, result, callers,
                   gateways, sockets, side, session, mirror, running, history>>

(* The reply arrives: the mirrored version follows. *)
Mirror ==
    /\ sync = "written"
    /\ mirror' = mirror + 1
    /\ sync' = "none"
    /\ side' = IF side = "syncing" THEN "serving" ELSE side
    /\ UNCHANGED <<redis, callers, gateways, sockets, session, fetched, running, history>>

(* The reply is an error, or is lost (a fault): a first publication ends the *)
(* connection, a later one changes nothing here.                             *)
SyncFails ==
    /\ \/ sync = "failed" /\ UNCHANGED history
       \/ sync = "written" /\ Fault
    /\ sync' = "none"
    /\ fetched' = NoRecord
    /\ IF side = "syncing"
         THEN /\ side' = "off"
              /\ link' = [link EXCEPT ![session] = "broken"]
              /\ down' = [down EXCEPT ![session] = <<>>]
         ELSE UNCHANGED <<side, link, down>>
    /\ UNCHANGED <<redis, callers, gateways, up, session, mirror, running>>

(* Mutant: the request's session and catalog version are not looked at. *)
AcceptsAny(r) == TRUE

(* _validate_tool_request *)
Accepts(r) == bound[r].sid = session /\ bound[r].version = mirror

(* A request runs in a task of its own, or is refused: it does not match,    *)
(* or no slot was free before its deadline.                                  *)
ReceiveRequest ==
    /\ side = "serving"
    /\ down[session] # <<>>
    /\ LET m == Head(down[session]) IN
         /\ m.kind = "run"
         /\ \/ /\ Accepts(m.req)
               /\ running' = running \union {m.req}
               /\ started' = started \union {m.req}
               /\ UNCHANGED up
            \/ /\ up' = [up EXCEPT ![session] =
                           IF link[session] = "up" THEN @ \union {<<m.req, "rejected">>} ELSE @]
               /\ UNCHANGED <<running, started>>
    /\ down' = [down EXCEPT ![session] = Tail(@)]
    /\ UNCHANGED <<redis, callers, gateways, link, side, session, mirror, sync, fetched,
                   dropped, faults>>

(* A cancelled request gets no reply. *)
ReceiveCancel ==
    /\ side = "serving"
    /\ down[session] # <<>>
    /\ Head(down[session]).kind = "cancel"
    /\ running' = running \ {Head(down[session]).req}
    /\ down' = [down EXCEPT ![session] = Tail(@)]
    /\ UNCHANGED <<redis, callers, gateways, link, up, side, session, mirror, sync, fetched,
                   history>>

(* The tool answers, fails, or exceeds its time and may still be working. *)
Finish(r) ==
    /\ r \in running
    /\ running' = running \ {r}
    /\ \E res \in {"ran", "maybe"} :
         up' = [up EXCEPT ![session] =
                  IF link[session] = "up" THEN @ \union {<<r, res>>} ELSE @]
    /\ UNCHANGED <<redis, callers, gateways, link, down, side, session, mirror, sync, fetched,
                   history>>

(* The sidecar sees its socket closed: everything in flight is cancelled. *)
Disconnect ==
    /\ side = "serving"
    /\ link[session] = "broken"
    /\ side' = "off"
    /\ running' = {}
    /\ down' = [down EXCEPT ![session] = <<>>]
    /\ UNCHANGED <<redis, callers, gateways, link, up, session, mirror, sync, fetched,
                   history>>

(* The connection breaks; each end finds out in its own time. *)
Break(s) ==
    /\ link[s] = "up"
    /\ link' = [link EXCEPT ![s] = "broken"]
    /\ Fault
    /\ UNCHANGED <<redis, callers, gateways, down, up, sidecar>>

-----------------------------------------------------------------------------
CallerStep(r) ==
    \/ Bind(r) \/ Dispatch(r) \/ Push(r) \/ PushLands(r) \/ TakeResult(r)
    \/ GiveUp(r) \/ Withdraw(r) \/ PushCancel(r) \/ Clear(r) \/ RedisFails(r)

GatewayStep(s) ==
    \/ TakeRequest(s) \/ CheckRequest(s) \/ Deliver(s) \/ DeliveryFails(s)
    \/ ReceiveResult(s) \/ ReadHeartbeat(s) \/ WriteHeartbeat(s)
    \/ CloseGateway(s) \/ CrashGateway(s)

CleanerStep(c) ==
    \/ \E r \in Requests : FailRequest(c, r)
    \/ DropPending(c) \/ DeleteSession(c)

SidecarStep ==
    \/ Register \/ Connect
    \/ AskSync \/ AskRefresh \/ ReadSync \/ WriteSync \/ Mirror \/ SyncFails
    \/ ReceiveRequest \/ ReceiveCancel \/ Disconnect
    \/ \E r \in Requests : Finish(r)

Next ==
    \/ \E r \in Requests : CallerStep(r)
    \/ \E s \in Sessions : GatewayStep(s) \/ Break(s)
    \/ \E c \in Cleaners : CleanerStep(c)
    \/ Expire \/ GoStale
    \/ SidecarStep

Spec == Init /\ [][Next]_vars

-----------------------------------------------------------------------------
(* The messages about r a gateway or a socket still holds. *)
Held(m) ==
    \/ \E s \in Sessions : hand[s] # Empty /\ hand[s][1] = m
    \/ \E s \in Sessions : m \in ToSet(down[s])

(* A gateway has decided to send the request, or has sent it. *)
Committed(r) ==
    \E s \in Sessions : hand[s] = <<Run(r), TRUE>> \/ Run(r) \in ToSet(down[s])

(* The caller missed its deadline or was stopped: nobody waits any more. *)
GaveUp(r) == dispatch[r] = "over" /\ answer[r] = "abandoned"

(* What the caller is told agrees with what the device did: "never ran" is   *)
(* never said of a call that was started or still can be, and a result is    *)
(* never reported for one that was not.                                      *)
AnswerIsHonest ==
    \A r \in Requests :
        /\ answer[r] \in {"rejected", "refused"} =>
             /\ r \notin started
             /\ ~Held(Run(r))
             /\ Run(r) \notin ToSet(queue)
        /\ answer[r] = "ran" => r \in started

(* A request its caller has withdrawn and that no gateway had decided to     *)
(* send stays off the device, also when its push reaches the queue later.    *)
WithdrawnStaysOff ==
    [][\A r \in Requests :
         (GaveUp(r) /\ r \notin started /\ ~Committed(r))
            => (r \notin started' /\ ~Committed(r)')]_vars

(* Every request task running on the device (not the tool it has called,     *)
(* which a cancelled task does not wait for) belongs to the session the      *)
(* device is in now, and was bound to a version of that session's catalog.   *)
NothingRunsAcrossSessions ==
    \A r \in running : side # "off" /\ bound[r].sid = session

(* The dispatch is over and did not end with an outcome its caller knows to  *)
(* be open: told "maybe", or failed by Redis.                                *)
Closed(r) == dispatch[r] = "over" /\ answer[r] \notin {"maybe", "failed"}

(* The device never works on for a caller who takes the call for closed: if  *)
(* it still runs a request whose dispatch is over, a cancel is on its way,   *)
(* except that                                                               *)
(*   - the cancel was lost: with the queue of a session that was ended, or   *)
(*     to a gateway whose device had moved on (dropped);                     *)
(*   - the socket is broken: the sidecar will cancel all it runs when it     *)
(*     finds out;                                                            *)
(*   - the caller was told "maybe": end_session names the device, so that of *)
(*     an old gateway gives up requests of the new session, which run on and *)
(*     which nobody cancels; or Redis failed it, and nothing was withdrawn.  *)
CancelFollows ==
    \A r \in running :
        Closed(r) /\ r \notin dropped =>
            \/ Cancel(r) \in ToSet(queue)
            \/ Held(Cancel(r))
            \/ link[session] = "broken"

=============================================================================
