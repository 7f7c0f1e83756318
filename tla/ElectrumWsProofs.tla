--------------------------- MODULE ElectrumWsProofs ---------------------------
(***************************************************************************)
(* What holds of the WebSocket transport for any number of callers,        *)
(* sockets and requests: its types, that a pending request can still be    *)
(* settled, that a reply settles only the request it answers, and that     *)
(* _connected claims no socket once the other sockets are closed.          *)
(***************************************************************************)
EXTENDS ElectrumWs, TLAPS

\* No id is used twice: the table's counter is the number of requests sent.
IdsAreSerials ==
    /\ requestId = serial
    /\ \A m \in wire : m.serial = m.id

\* The promise under an id belongs to the caller awaiting that very request.
PendingAwaited ==
    \A id \in DOMAIN pending :
        asked[pending[id]] = id /\ pc[pending[id]] = "awaiting"

\* The inductive invariant.
IInv ==
    /\ TypeOK /\ IdsAreSerials /\ PendingAwaited /\ PendingCanSettle
    /\ ConnectedMeansOpen

LEMMA InitIInv == Init => IInv
  <1> SUFFICES ASSUME Init PROVE IInv
    OBVIOUS
  <1>1. MaxSockets \in Nat /\ MaxRequests \in Nat
    BY ElectrumWsAssumption
  <1>2. DOMAIN pending = {}
    BY DEF Init, NoPending
  <1>3. TypeOK
    <2>1. requestId = 0 /\ serial = 0 /\ 0 \in 0..MaxRequests
      BY <1>1 DEF Init
    <2>2. /\ asked \in [Callers -> 0..MaxRequests]
          /\ answered \in [Callers -> 0..MaxRequests]
      BY <2>1 DEF Init
    <2>3. /\ ready \in [Sockets -> {"none", "connecting", "open", "closing", "closed"}]
          /\ promise \in [Sockets -> {"pending", "settled"}]
          /\ pc \in [Callers -> {"idle", "loading", "waiting", "ready",
                                 "reconnecting", "awaiting"}]
          /\ on \in [Callers -> Sockets \cup {None}]
      BY DEF Init
    <2> QED BY <1>2, <2>1, <2>2, <2>3 DEF Init, TypeOK
  <1> QED BY <1>2, <1>3
      DEF Init, IInv, IdsAreSerials, PendingAwaited, PendingCanSettle, ConnectedMeansOpen

LEMMA ConnectIInv == ASSUME IInv, NEW c \in Callers, Connect(c) PROVE IInv'
  <1>1. TypeOK'
    BY DEF IInv, TypeOK, Connect, Callable, fields, sockets, histories
  <1>2. pc[c] # "awaiting"
    BY DEF Connect, Callable
  <1>3. PendingAwaited'
    BY <1>2 DEF IInv, TypeOK, PendingAwaited, Connect, fields, sockets, histories
  <1>4. (IdsAreSerials /\ PendingCanSettle)'
    BY DEF IInv, IdsAreSerials, PendingCanSettle, Connect, fields, sockets, histories
  <1>5. ConnectedMeansOpen'
    BY DEF IInv, ConnectedMeansOpen, IsOpen, Connect, fields, sockets, histories
  <1> QED BY <1>1, <1>3, <1>4, <1>5 DEF IInv

LEMMA CreateSocketIInv == ASSUME IInv, NEW c \in Callers, CreateSocket(c) PROVE IInv'
  <1> DEFINE s == CHOOSE s \in Unused : TRUE
  <1>1. s \in Sockets /\ ready[s] = "none"
    BY DEF CreateSocket, Unused
  <1>2. TypeOK'
    BY <1>1 DEF IInv, TypeOK, CreateSocket, histories
  <1>3. PendingAwaited'
    BY DEF IInv, TypeOK, PendingAwaited, CreateSocket, histories
  <1>4. PendingCanSettle'
    <2> SUFFICES ASSUME NEW id \in DOMAIN pending
                 PROVE \E m \in wire : m.id = id /\ ready'[m.socket] \in {"open", "closing"}
      BY DEF PendingCanSettle, CreateSocket
    <2>1. PICK m \in wire : m.id = id /\ ready[m.socket] \in {"open", "closing"}
      BY DEF IInv, PendingCanSettle
    <2>2. m.socket # s
      BY <2>1, <1>1
    <2> QED BY <2>1, <2>2, <1>1 DEF IInv, TypeOK, Message, CreateSocket
  <1>5. IdsAreSerials'
    BY DEF IInv, IdsAreSerials, CreateSocket, histories
  \* A connected client leaves a socket behind: the one that was open, or the
  \* other one that kept it from being alone.
  <1>6. ConnectedMeansOpen'
    <2> SUFFICES ASSUME connected
                 PROVE \E r \in Sockets : /\ ready'[r] \in {"connecting", "open", "closing"}
                                          /\ r # ws'
      BY DEF ConnectedMeansOpen, CreateSocket
    <2>1. PICK r \in Sockets : ready[r] \in {"connecting", "open", "closing"}
      BY DEF IInv, ConnectedMeansOpen, IsOpen
    <2>2. r # s /\ ws' = s /\ ready' = [ready EXCEPT ![s] = "connecting"]
      BY <1>1, <2>1 DEF CreateSocket
    <2> QED BY <2>1, <2>2, <1>1 DEF IInv, TypeOK
  <1> QED BY <1>2, <1>3, <1>4, <1>5, <1>6 DEF IInv

LEMMA CreateFailsIInv == ASSUME IInv, NEW c \in Callers, CreateFails(c) PROVE IInv'
  <1>1. TypeOK'
    BY DEF IInv, TypeOK, CreateFails, sockets, histories
  <1>2. PendingAwaited'
    BY DEF IInv, TypeOK, PendingAwaited, CreateFails, sockets, histories
  <1>3. (IdsAreSerials /\ PendingCanSettle)'
    BY DEF IInv, IdsAreSerials, PendingCanSettle, CreateFails, sockets, histories
  <1>4. ConnectedMeansOpen'
    BY DEF IInv, ConnectedMeansOpen, IsOpen, CreateFails, sockets
  <1> QED BY <1>1, <1>2, <1>3, <1>4 DEF IInv

LEMMA RequestIInv == ASSUME IInv, NEW c \in Callers, Request(c) PROVE IInv'
  <1> USE DEF Callable
  <1>1. CASE ~IsOpen
    <2>1. UNCHANGED <<requestId, pending, wire, asked, serial, ready>>
      BY <1>1 DEF Request
    <2>2. TypeOK'
      BY <1>1, <2>1 DEF IInv, TypeOK, Request
    <2>3. PendingAwaited'
      BY <1>1, <2>1 DEF IInv, TypeOK, PendingAwaited, Request
    <2>4. ConnectedMeansOpen'
      BY <1>1, <2>1 DEF IInv, ConnectedMeansOpen, IsOpen, Request
    <2> QED BY <2>1, <2>2, <2>3, <2>4 DEF IInv, IdsAreSerials, PendingCanSettle
  <1>2. CASE IsOpen
    <2> DEFINE n == requestId + 1
    <2>1. PICK s \in Sockets : s = ws /\ ready[s] = "open"
      BY <1>2 DEF IsOpen
    <2>2. /\ serial = requestId /\ serial < MaxRequests /\ requestId \in Nat
          /\ MaxRequests \in Nat
      BY <1>2, ElectrumWsAssumption DEF IInv, TypeOK, IdsAreSerials, Request
    <2>3. /\ n \in 1..MaxRequests /\ requestId' = n /\ serial' = n
          /\ n \notin DOMAIN pending
      BY <1>2, <2>2 DEF IInv, TypeOK, Request, NextId
    <2>4. /\ DOMAIN pending' = DOMAIN pending \cup {n}
          /\ pending'[n] = c
          /\ \A id \in DOMAIN pending : pending'[id] = pending[id]
      BY <1>2, <2>3 DEF Request, NextId
    <2>5. wire' = wire \cup {[id |-> n, socket |-> s, serial |-> n]}
      BY <1>2, <2>1, <2>3 DEF Request, NextId
    <2>6. wire' \subseteq Message
      BY <2>5, <2>3 DEF IInv, TypeOK, Message
    <2>7. DOMAIN pending' \subseteq 1..requestId'
      BY <2>2, <2>3, <2>4 DEF IInv, TypeOK
    <2>8. /\ asked' = [asked EXCEPT ![c] = n]
          /\ pc' = [pc EXCEPT ![c] = "awaiting"] /\ pc[c] # "awaiting"
      BY <1>2, <2>3 DEF Request
    <2>9. TypeOK'
      <3>1. \A id \in DOMAIN pending' : pending'[id] \in Callers
        BY <2>4 DEF IInv, TypeOK
      <3>2. asked' \in [Callers -> 0..MaxRequests] /\ serial' \in 0..MaxRequests
        BY <2>2, <2>3, <2>8 DEF IInv, TypeOK
      <3> QED BY <1>2, <2>3, <2>6, <2>7, <2>8, <3>1, <3>2 DEF IInv, TypeOK, Request
    <2>10. PendingAwaited'
      <3> SUFFICES ASSUME NEW id \in DOMAIN pending'
                   PROVE asked'[pending'[id]] = id /\ pc'[pending'[id]] = "awaiting"
        BY DEF PendingAwaited
      <3>1. CASE id = n
        BY <3>1, <2>4, <2>8 DEF IInv, TypeOK
      <3>2. CASE id # n
        <4>1. /\ id \in DOMAIN pending /\ pending'[id] = pending[id]
              /\ pending[id] \in Callers /\ pending[id] # c
          BY <3>2, <2>4, <2>8 DEF IInv, TypeOK, PendingAwaited
        <4> QED BY <4>1, <2>8 DEF IInv, TypeOK, PendingAwaited
      <3> QED BY <3>1, <3>2
    <2>11. PendingCanSettle'
      <3> SUFFICES ASSUME NEW id \in DOMAIN pending'
                   PROVE \E m \in wire' : m.id = id /\ ready[m.socket] \in {"open", "closing"}
        BY DEF PendingCanSettle, Request
      <3>1. CASE id = n
        <4> DEFINE m == [id |-> n, socket |-> s, serial |-> n]
        <4>1. m \in wire' /\ m.id = id /\ m.socket = s
          BY <3>1, <2>5
        <4> QED BY <4>1, <2>1
      <3>2. CASE id # n
        BY <3>2, <2>4, <2>5 DEF IInv, PendingCanSettle
      <3> QED BY <3>1, <3>2
    <2>12. IdsAreSerials'
      BY <2>3, <2>5 DEF IInv, IdsAreSerials
    <2>13. ConnectedMeansOpen'
      BY <1>2 DEF ConnectedMeansOpen, IsOpen, Request
    <2> QED BY <2>9, <2>10, <2>11, <2>12, <2>13 DEF IInv
  <1> QED BY <1>1, <1>2

\* close() and reconnect() differ only in where they leave their caller.
LEMMA CloseFieldsIInv ==
  ASSUME IInv, CloseFields, NEW c \in Callers, NEW place \in {"idle", "reconnecting"},
         pc' = [pc EXCEPT ![c] = place]
  PROVE  IInv'
  <1>1. DOMAIN pending' = {}
    BY DEF CloseFields, ClearPending, NoPending
  <1>2. ready' \in [Sockets -> {"none", "connecting", "open", "closing", "closed"}]
    BY DEF IInv, TypeOK, CloseFields
  <1>3. abandoned' \subseteq Callers
    BY DEF IInv, TypeOK, CloseFields, PendingCallers
  <1>4. TypeOK'
    BY <1>1, <1>2, <1>3 DEF IInv, TypeOK, CloseFields
  <1>5. (PendingAwaited /\ PendingCanSettle)'
    BY <1>1 DEF PendingAwaited, PendingCanSettle
  <1>6. IdsAreSerials'
    BY DEF IInv, IdsAreSerials, CloseFields
  <1>7. ConnectedMeansOpen'
    BY DEF ConnectedMeansOpen, CloseFields
  <1> QED BY <1>4, <1>5, <1>6, <1>7 DEF IInv

LEMMA OnOpenIInv == ASSUME IInv, NEW s \in Sockets, OnOpen(s) PROVE IInv'
  <1>1. TypeOK'
    BY DEF IInv, TypeOK, OnOpen, histories
  <1>2. PendingAwaited'
    BY DEF IInv, TypeOK, PendingAwaited, OnOpen, Waiters, histories
  <1>3. PendingCanSettle'
    BY DEF IInv, TypeOK, Message, PendingCanSettle, OnOpen
  <1>4. IdsAreSerials'
    BY DEF IInv, IdsAreSerials, OnOpen, histories
  <1>5. ConnectedMeansOpen'
    <2>1. ready'[s] = "open" /\ ws' = ws
      BY DEF IInv, TypeOK, OnOpen
    <2> QED BY <2>1 DEF ConnectedMeansOpen, IsOpen
  <1> QED BY <1>1, <1>2, <1>3, <1>4, <1>5 DEF IInv

LEMMA OnCloseIInv == ASSUME IInv, NEW s \in Sockets, OnClose(s) PROVE IInv'
  <1>1. DOMAIN pending' = {}
    BY DEF OnClose, ClearPending, NoPending
  <1>2. TypeOK'
    BY <1>1 DEF IInv, TypeOK, OnClose, MarkDisconnected, histories
  <1>3. (PendingAwaited /\ PendingCanSettle)'
    BY <1>1 DEF PendingAwaited, PendingCanSettle
  <1>4. IdsAreSerials'
    BY DEF IInv, IdsAreSerials, OnClose, histories
  <1>5. ConnectedMeansOpen'
    BY DEF ConnectedMeansOpen, OnClose, MarkDisconnected
  <1> QED BY <1>2, <1>3, <1>4, <1>5 DEF IInv

LEMMA OnMessageIInv == ASSUME IInv, NEW s \in Sockets, OnMessage(s) PROVE IInv'
  <1>1. PICK m \in wire :
          /\ wire' = wire \ {m}
          /\ \/ m.id \notin DOMAIN pending /\ UNCHANGED <<pending, pc, answered>>
             \/ /\ m.id \in DOMAIN pending
                /\ pending' = [id \in DOMAIN pending \ {m.id} |-> pending[id]]
                /\ pc' = [pc EXCEPT ![pending[m.id]] = "idle"]
                /\ answered' = [answered EXCEPT ![pending[m.id]] = m.serial]
    BY DEF OnMessage
  <1>2. UNCHANGED <<ws, requestId, connected, connecting, loaded, ready, promise,
                    on, asked, serial, abandoned>>
    BY DEF OnMessage
  <1>3. /\ DOMAIN pending' \subseteq DOMAIN pending \ {m.id}
        /\ \A id \in DOMAIN pending' : pending'[id] = pending[id]
    BY <1>1
  <1>4. TypeOK'
    <2>1. m.serial \in 0..MaxRequests
      BY ElectrumWsAssumption DEF IInv, TypeOK, Message
    <2>2. /\ answered' \in [Callers -> 0..MaxRequests]
          /\ pc' \in [Callers -> {"idle", "loading", "waiting", "ready",
                                  "reconnecting", "awaiting"}]
      BY <1>1, <2>1 DEF IInv, TypeOK
    <2> QED BY <1>1, <1>2, <1>3, <2>2 DEF IInv, TypeOK
  <1>5. PendingAwaited'
    <2> SUFFICES ASSUME NEW id \in DOMAIN pending'
                 PROVE asked[pending[id]] = id /\ pc'[pending[id]] = "awaiting"
      BY <1>2, <1>3 DEF PendingAwaited
    <2>1. id \in DOMAIN pending /\ id # m.id
      BY <1>3
    <2>2. asked[pending[id]] = id /\ pc[pending[id]] = "awaiting" /\ pending[id] \in Callers
      BY <2>1 DEF IInv, TypeOK, PendingAwaited
    <2>3. m.id \in DOMAIN pending => pending[id] # pending[m.id]
      BY <2>1, <2>2 DEF IInv, PendingAwaited
    <2> QED BY <1>1, <2>2, <2>3 DEF IInv, TypeOK
  <1>6. PendingCanSettle'
    BY <1>1, <1>2, <1>3 DEF IInv, PendingCanSettle
  <1>7. IdsAreSerials'
    BY <1>1, <1>2 DEF IInv, IdsAreSerials
  <1>8. ConnectedMeansOpen'
    BY <1>2 DEF IInv, ConnectedMeansOpen, IsOpen
  <1> QED BY <1>4, <1>5, <1>6, <1>7, <1>8 DEF IInv

LEMMA StutterIInv == ASSUME IInv, UNCHANGED vars PROVE IInv'
  BY DEF IInv, TypeOK, IdsAreSerials, PendingAwaited, PendingCanSettle,
         ConnectedMeansOpen, IsOpen, vars, fields, sockets, histories

\* One step of any caller or socket keeps the inductive invariant.
LEMMA NextIInv == IInv /\ [Next]_vars => IInv'
  <1> SUFFICES ASSUME IInv, [Next]_vars PROVE IInv'
    OBVIOUS
  <1>1. ASSUME NEW c \in Callers, Connect(c) PROVE IInv'
    BY <1>1, ConnectIInv
  <1>2. ASSUME NEW c \in Callers, CreateSocket(c) PROVE IInv'
    BY <1>2, CreateSocketIInv
  <1>3. ASSUME NEW c \in Callers, Request(c) PROVE IInv'
    BY <1>3, RequestIInv
  <1>4. ASSUME NEW c \in Callers, Close(c) PROVE IInv'
    BY <1>4, CloseFieldsIInv DEF Close
  <1>5. ASSUME NEW c \in Callers, Reconnect(c) PROVE IInv'
    BY <1>5, CloseFieldsIInv DEF Reconnect
  <1>6. ASSUME NEW s \in Sockets, OnOpen(s) PROVE IInv'
    BY <1>6, OnOpenIInv
  <1>7. ASSUME NEW s \in Sockets, OnClose(s) PROVE IInv'
    BY <1>7, OnCloseIInv
  <1>8. ASSUME NEW s \in Sockets, OnMessage(s) PROVE IInv'
    BY <1>8, OnMessageIInv
  <1>9. ASSUME NEW c \in Callers, CreateFails(c) PROVE IInv'
    BY <1>9, CreateFailsIInv
  <1>10. CASE UNCHANGED vars
    BY <1>10, StutterIInv
  <1> QED BY <1>1, <1>2, <1>3, <1>4, <1>5, <1>6, <1>7, <1>8, <1>9, <1>10 DEF Next

\* IInv is an invariant: it holds at the start and every step keeps it.
THEOREM Invariance == Spec => []IInv
  BY InitIInv, NextIInv, PTL DEF Spec

\* Types: in particular no id in the table was not given out by the counter
\* (ws.js _request).
THEOREM TypeCorrect == Spec => []TypeOK
  BY Invariance, PTL DEF IInv

\* No promise outlives every event that could settle it, with any number of
\* sockets opened, lost and replaced (ws.js onclose and close).
THEOREM NoLostPromise == Spec => []PendingCanSettle
  BY Invariance, PTL DEF IInv

\* However many connects, closes and reconnects overlap, as soon as the other
\* sockets are closed _connected is TRUE only if the client's own is open; FALSE
\* with an open one remains possible (ws.js onopen, onclose, close).
THEOREM FlagNotOverstated == Spec => []ConnectedMeansOpen
  BY Invariance, PTL DEF IInv

\* A reply settles the request it answers and no other, whichever socket it
\* comes from and whatever was closed meanwhile (ws.js _handleSingleMessage).
THEOREM RepliesMatch == Spec => NoCrossTalk
  <1> DEFINE Own == \A c \in Callers : answered'[c] # answered[c] =>
                        pc[c] = "awaiting" /\ answered'[c] = asked[c]
  <1>1. IInv /\ [Next]_vars => [Own]_vars
    <2> SUFFICES ASSUME IInv, Next, NEW c \in Callers, answered'[c] # answered[c]
                 PROVE pc[c] = "awaiting" /\ answered'[c] = asked[c]
      OBVIOUS
    <2>1. PICK s \in Sockets : OnMessage(s)
      <3>1. \A d \in Callers : ~(Connect(d) \/ CreateSocket(d) \/ CreateFails(d)
                                  \/ Request(d) \/ Close(d) \/ Reconnect(d))
        BY DEF Connect, CreateSocket, CreateFails, sockets, Request, Close, Reconnect, CloseFields, histories
      <3>2. \A s \in Sockets : ~(OnOpen(s) \/ OnClose(s))
        BY DEF OnOpen, OnClose, histories
      <3> QED BY <3>1, <3>2 DEF Next
    <2>2. PICK m \in wire :
            /\ m.id \in DOMAIN pending
            /\ answered' = [answered EXCEPT ![pending[m.id]] = m.serial]
      BY <2>1 DEF OnMessage
    <2>3. c = pending[m.id] /\ answered'[c] = m.serial
      BY <2>2 DEF IInv, TypeOK
    <2> QED BY <2>2, <2>3 DEF IInv, IdsAreSerials, PendingAwaited
  <1> QED BY <1>1, Invariance, PTL DEF Spec, NoCrossTalk
=============================================================================
