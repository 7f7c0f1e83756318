------------------------------ MODULE ElectrumWs ------------------------------
(***************************************************************************)
(* The WebSocket transport (transports/ws.js): one object shared by all    *)
(* the operations of an account, which connect, send requests, await their *)
(* replies and close, over sockets whose events arrive when they like.     *)
(*                                                                         *)
(* A step is what JavaScript runs without yielding.  The handlers of every *)
(* socket ever made write the same fields of the object, and the promise   *)
(* of a connection is identified with the socket it waits for.             *)
(***************************************************************************)
EXTENDS Integers, FiniteSets

CONSTANTS
    Callers,        \* the operations using the client
    MaxSockets,     \* bound: sockets ever created
    MaxRequests,    \* bound: requests ever sent
    Operations,     \* what callers do: "connect", "request", "close", "reconnect"
    None            \* null

ASSUME ElectrumWsAssumption ==
    /\ MaxSockets \in Nat /\ MaxRequests \in Nat
    /\ None \notin 1..MaxSockets
    /\ Operations \subseteq {"connect", "request", "close", "reconnect"}

Sockets == 1..MaxSockets

VARIABLES
    ws,         \* _ws
    requestId,  \* _requestId
    pending,    \* _pending: id -> the caller whose promise it settles
    connected,  \* _connected
    connecting, \* _connecting: the socket its promise waits for
    loaded,     \* the module's WebSocket class has been resolved
    ready,      \* each socket's readyState; "none" before it is created
    promise,    \* each socket's connection promise: "pending" or "settled"
    wire,       \* requests the server has and has not answered
    pc,         \* where each caller is suspended
    on,         \* the socket a caller waits to be connected
    asked,      \* history: the serial of the request a caller awaits
    answered,   \* history: the serial its last reply was for
    serial,     \* history: how many requests were sent
    abandoned   \* history: callers whose promise close() forgot

fields     == <<ws, requestId, pending, connected, connecting, loaded>>
sockets    == <<ready, promise, wire>>
histories  == <<asked, answered, serial, abandoned>>
vars       == <<fields, sockets, pc, on, histories>>

\* new Map()
NoPending == [id \in {} |-> None]

Init ==
    /\ ws = None /\ requestId = 0 /\ pending = NoPending
    /\ connected = FALSE /\ connecting = None
    /\ loaded \in BOOLEAN
    /\ ready = [s \in Sockets |-> "none"]
    /\ promise = [s \in Sockets |-> "pending"]
    /\ wire = {}
    /\ pc = [c \in Callers |-> "idle"]
    /\ on = [c \in Callers |-> None]
    /\ asked = [c \in Callers |-> 0]
    /\ answered = [c \in Callers |-> 0]
    /\ serial = 0
    /\ abandoned = {}

Callable(c) == pc[c] \in {"idle", "ready"}

Unused == {s \in Sockets : ready[s] = "none"}

\* The socket the object refers to is open.
IsOpen == \E s \in Sockets : s = ws /\ ready[s] = "open"

Live == {s \in Sockets : ready[s] \in {"connecting", "open"}}

\* The bound on sockets, for a caller about to create one: those that others
\* are about to create are set aside.
MayCreate ==
    Cardinality({c \in Callers : pc[c] \in {"loading", "reconnecting"}})
        < Cardinality(Unused)

\* The callers whose promise is in the table.
PendingCallers == {pending[id] : id \in DOMAIN pending}

\* Faulty variant: the table keeps what it held.
KeepPending == UNCHANGED pending

ClearPending == pending' = NoPending

----------------------------------------------------------------------------
(* Calls *)

\* connect(), up to the await of getWebSocket.
Connect(c) ==
    /\ \/ Callable(c) /\ "connect" \in Operations
       \/ pc[c] = "reconnecting"
    /\ \/ /\ connected
          /\ pc' = [pc EXCEPT ![c] = "ready"]
          /\ UNCHANGED on
       \/ /\ ~connected /\ connecting # None
          /\ pc' = [pc EXCEPT ![c] = "waiting"]
          /\ on' = [on EXCEPT ![c] = connecting]
       \/ /\ ~connected /\ connecting = None
          /\ pc[c] = "reconnecting" \/ MayCreate
          /\ pc' = [pc EXCEPT ![c] = "loading"]
          /\ UNCHANGED on
    /\ UNCHANGED <<fields, sockets, histories>>

\* connect() after the await: the socket is made without looking again.
CreateSocket(c) ==
    LET s == CHOOSE s \in Unused : TRUE
    IN  /\ pc[c] = "loading" /\ Unused # {}
        /\ loaded' = TRUE
        /\ ws' = s /\ connecting' = s
        /\ ready' = [ready EXCEPT ![s] = "connecting"]
        /\ pc' = [pc EXCEPT ![c] = "waiting"]
        /\ on' = [on EXCEPT ![c] = s]
        /\ UNCHANGED <<requestId, pending, connected, promise, wire, histories>>

\* Instead: there is no WebSocket class, or its constructor throws, which is of
\* the URL, so that no socket was ever made.
CreateFails(c) ==
    /\ pc[c] = "loading"
    /\ \/ ~loaded /\ UNCHANGED loaded
       \/ Unused = Sockets /\ loaded' = TRUE
    /\ pc' = [pc EXCEPT ![c] = "idle"]
    /\ UNCHANGED <<ws, requestId, pending, connected, connecting, sockets, on,
                   histories>>

\* Faulty variants: the id is read before it is incremented; the id is the
\* first one the table has free.
IdBeforeIncrement == requestId

FreeId == Cardinality(DOMAIN pending) + 1

NextId == requestId + 1

\* _request: refused unless the current socket is open, sent otherwise.
Request(c) ==
    /\ Callable(c) /\ "request" \in Operations
    /\ \/ /\ ~IsOpen
          /\ pc' = [pc EXCEPT ![c] = "idle"]
          /\ UNCHANGED <<requestId, pending, wire, asked, serial>>
       \/ /\ IsOpen
          /\ serial < MaxRequests
          /\ serial' = serial + 1
          /\ requestId' = requestId + 1
          /\ pending' = [id \in DOMAIN pending \cup {NextId} |->
                            IF id = NextId THEN c ELSE pending[id]]
          /\ wire' = wire \cup {[id |-> NextId, socket |-> ws, serial |-> serial']}
          /\ asked' = [asked EXCEPT ![c] = serial']
          /\ pc' = [pc EXCEPT ![c] = "awaiting"]
    /\ UNCHANGED <<ws, connected, connecting, loaded, ready, promise, on,
                   answered, abandoned>>

\* What close() does to the object and its socket: the pending promises are
\* forgotten, and nothing settles them any more.
CloseFields ==
    /\ ready' = [s \in Sockets |-> IF s = ws /\ s \in Live THEN "closing"
                                  ELSE ready[s]]
    /\ ws' = None
    /\ ClearPending
    /\ connected' = FALSE /\ connecting' = None
    /\ abandoned' = abandoned \cup PendingCallers
    /\ UNCHANGED <<requestId, loaded, promise, wire, on, asked, answered, serial>>

Close(c) ==
    /\ Callable(c) /\ "close" \in Operations
    /\ CloseFields
    /\ pc' = [pc EXCEPT ![c] = "idle"]

\* reconnect(): close, then connect.
Reconnect(c) ==
    /\ Callable(c) /\ "reconnect" \in Operations
    /\ MayCreate
    /\ CloseFields
    /\ pc' = [pc EXCEPT ![c] = "reconnecting"]

----------------------------------------------------------------------------
(* Socket events, each a task of its own: none runs while a caller has only *)
(* microtasks before it.  Loading the class the first time is not one.      *)

NoMicrotask ==
    \A c \in Callers : /\ pc[c] # "reconnecting"
                       /\ pc[c] = "loading" => ~loaded

\* The callers a connection promise resumes.
Waiters(s) == {c \in Callers : pc[c] = "waiting" /\ on[c] = s}

\* onopen, and the .finally of the connection promise.
OnOpen(s) ==
    /\ NoMicrotask
    /\ ready[s] = "connecting"
    /\ ready' = [ready EXCEPT ![s] = "open"]
    /\ connected' = TRUE
    /\ promise' = [promise EXCEPT ![s] = "settled"]
    /\ connecting' = None
    /\ pc' = [c \in Callers |-> IF c \in Waiters(s) THEN "ready" ELSE pc[c]]
    /\ UNCHANGED <<ws, requestId, pending, loaded, wire, on, histories>>

\* Faulty variants of what onclose does: the object still counts as
\* connected; the promises are forgotten without being rejected.
StillConnected == UNCHANGED connected

NobodyRejected == {}

MarkDisconnected == connected' = FALSE

RejectedOnClose == PendingCallers

\* onclose, after onerror when the socket never opened: every pending promise
\* is rejected, whichever socket its request went to.
OnClose(s) ==
    /\ NoMicrotask
    /\ ready[s] \in {"connecting", "open", "closing"}
    /\ ready' = [ready EXCEPT ![s] = "closed"]
    /\ MarkDisconnected
    /\ ClearPending
    /\ wire' = {m \in wire : m.socket # s}
    /\ connecting' = IF promise[s] = "pending" THEN None ELSE connecting
    /\ promise' = [promise EXCEPT ![s] = "settled"]
    /\ pc' = [c \in Callers |->
                IF c \in RejectedOnClose \/ c \in Waiters(s) THEN "idle" ELSE pc[c]]
    /\ UNCHANGED <<ws, requestId, loaded, on, histories>>

\* onmessage: the reply to a request, result or error alike, settles the
\* promise registered under its id; an unknown id is dropped.
OnMessage(s) ==
    /\ NoMicrotask
    /\ ready[s] \in {"open", "closing"}
    /\ \E m \in wire :
        /\ m.socket = s
        /\ wire' = wire \ {m}
        /\ \/ /\ m.id \notin DOMAIN pending
              /\ UNCHANGED <<pending, pc, answered>>
           \/ /\ m.id \in DOMAIN pending
              /\ pending' = [id \in DOMAIN pending \ {m.id} |-> pending[id]]
              /\ pc' = [pc EXCEPT ![pending[m.id]] = "idle"]
              /\ answered' = [answered EXCEPT ![pending[m.id]] = m.serial]
    /\ UNCHANGED <<ws, requestId, connected, connecting, loaded, ready, promise,
                   on, asked, serial, abandoned>>

----------------------------------------------------------------------------
Next ==
    \/ \E c \in Callers : \/ Connect(c) \/ CreateSocket(c) \/ CreateFails(c)
                          \/ Request(c) \/ Close(c) \/ Reconnect(c)
    \/ \E s \in Sockets : OnOpen(s) \/ OnClose(s) \/ OnMessage(s)

Spec == Init /\ [][Next]_vars

\* Started calls go on; a handshake ends, a closing socket closes, and the
\* server answers while its socket is open.  The code has no timeout of its
\* own: without these nothing below would hold.
FairSpec ==
    /\ Spec
    /\ \A c \in Callers : WF_vars(CreateSocket(c) \/ CreateFails(c))
                          /\ WF_vars(pc[c] = "reconnecting" /\ Connect(c))
    /\ \A s \in Sockets :
        /\ WF_vars(OnOpen(s) \/ (ready[s] # "open" /\ OnClose(s)))
        /\ WF_vars(OnMessage(s))

----------------------------------------------------------------------------
(* Properties *)

Message == [id : 1..MaxRequests, socket : Sockets, serial : 1..MaxRequests]

\* Every variable has its type; the ids of pending are requests already sent.
TypeOK ==
    /\ ws \in Sockets \cup {None}
    /\ requestId \in 0..MaxRequests
    /\ DOMAIN pending \subseteq 1..requestId
    /\ \A id \in DOMAIN pending : pending[id] \in Callers
    /\ connected \in BOOLEAN
    /\ connecting \in Sockets \cup {None}
    /\ loaded \in BOOLEAN
    /\ ready \in [Sockets -> {"none", "connecting", "open", "closing", "closed"}]
    /\ promise \in [Sockets -> {"pending", "settled"}]
    /\ wire \subseteq Message
    /\ pc \in [Callers -> {"idle", "loading", "waiting", "ready", "reconnecting",
                           "awaiting"}]
    /\ on \in [Callers -> Sockets \cup {None}]
    /\ asked \in [Callers -> 0..MaxRequests]
    /\ answered \in [Callers -> 0..MaxRequests]
    /\ serial \in 0..MaxRequests
    /\ abandoned \subseteq Callers

\* A reply only ever settles the promise of the request it answers, though old
\* sockets keep delivering into the same table after close() and reconnect().
NoCrossTalk ==
    [][\A c \in Callers : answered'[c] # answered[c] =>
            pc[c] = "awaiting" /\ answered'[c] = asked[c]]_vars

\* A request still pending went to a socket that can still answer it or report
\* its end: no promise outlives every event that could settle it.
PendingCanSettle ==
    \A id \in DOMAIN pending :
        \E m \in wire : m.id = id /\ ready[m.socket] \in {"open", "closing"}

\* Every call comes to an end, whatever sockets fail, race or are replaced,
\* except a request whose promise a close() forgot.
CallsSettle ==
    \A c \in Callers :
        /\ pc[c] \in {"loading", "reconnecting", "waiting"} ~> Callable(c)
        /\ pc[c] = "awaiting" ~> (Callable(c) \/ c \in abandoned)

\* "Establishes the connection": a connect() that returns leaves the client
\* with an open socket.
ConnectEstablishes ==
    [][\A c \in Callers : pc[c] # "ready" /\ pc'[c] = "ready" =>
            IsOpen']_vars

\* A request is failed by a closed connection only if it is its own.
OnlyOwnSocketFails ==
    [][\A id \in DOMAIN pending, s \in Sockets :
            (ready[s] # "closed" /\ ready'[s] = "closed" /\ id \notin DOMAIN pending')
                => \E m \in wire : m.id = id /\ m.socket = s]_vars

\* Once every other socket is closed, _connected is never TRUE without an open
\* socket of the client's own, however many calls and replaced sockets wrote it.
\* The converse fails: an old socket that closes last resets it for the new one.
ConnectedMeansOpen ==
    (connected /\ \A s \in Sockets :
        ready[s] \in {"connecting", "open", "closing"} => s = ws) => IsOpen
=============================================================================
