------------------------ MODULE MempoolElectrumClient ------------------------
(***************************************************************************)
(* The TCP and TLS transport (transports/mempool-electrum-client.js): the  *)
(* memo of one connection, kept by the code, over a library's client that  *)
(* holds the socket and reconnects by itself after a loss.                 *)
(*                                                                         *)
(* An attempt is one call of initElectrum, with its .then, .catch and      *)
(* .finally.  close() and the making of a new socket interrupt the         *)
(* attempts in flight: what becomes of those is the library's affair, and  *)
(* left open here.                                                         *)
(***************************************************************************)
EXTENDS Integers, FiniteSets

CONSTANTS
    Callers,        \* the operations using the client
    MaxAttempts,    \* bound: calls of initElectrum ever made
    MaxRetry,       \* maxRetry of the configuration
    None            \* null

ASSUME MempoolElectrumAssumption ==
    /\ MaxAttempts \in Nat /\ MaxRetry \in Nat
    /\ None \notin Nat

Attempts == 1..MaxAttempts

VARIABLES
    connected,  \* _connected
    connecting, \* _connecting: the attempt whose promise it is
    repair,     \* the library's reconnect is still its own
    session,    \* the library's socket: "down" or "open"
    retries,    \* reconnections the library may still try
    retrying,   \* it is about to call its reconnect
    redial,     \* its reconnect has made a socket and awaits the handshake
    made,       \* attempts made
    running,    \* attempts whose promise is not settled
    closed,     \* attempts whose socket close() closed before they settled
    replaced,   \* attempts whose socket was replaced before they settled
    pc,         \* where each caller is suspended
    on,         \* the attempt it waits for
    setBy,      \* history: the attempt that set _connected
    lost,       \* history: the session was lost, and not restored since
    shut        \* history: nobody asked for a connection since the last close()

library  == <<repair, session, retries, retrying, redial>>
attempts == <<made, running, closed, replaced>>
vars     == <<connected, connecting, library, attempts, pc, on, setBy, lost, shut>>

Init ==
    /\ connected = FALSE /\ connecting = None
    /\ repair = TRUE /\ session = "down"
    /\ retries = MaxRetry /\ retrying = FALSE /\ redial = FALSE
    /\ made = 0
    /\ running = {} /\ closed = {} /\ replaced = {}
    /\ pc = [c \in Callers |-> "idle"]
    /\ on = [c \in Callers |-> None]
    /\ setBy = None /\ lost = FALSE /\ shut = FALSE

Callable(c) == pc[c] \in {"idle", "ready"}

\* The attempts in flight over the library's present socket.
Fresh == running \ (closed \cup replaced)

\* The library may call its reconnect when its present socket closes, if one is
\* in use and retries are left.
MayRetry == retries > 0 /\ (session = "open" \/ redial \/ Fresh # {})

\* The callers an attempt's promise resumes.
Waiters(n) == {c \in Callers : pc[c] = "waiting" /\ on[c] = n}

----------------------------------------------------------------------------
(* Calls: each is one step, as nothing is awaited before its last line. *)

\* A call of initElectrum, whose promise becomes _connecting.  Whether the
\* library counts its retries anew is left open.
InitElectrum(c) ==
    /\ made < MaxAttempts
    /\ made' = made + 1
    /\ running' = running \cup {made'}
    /\ connecting' = made'
    /\ retries' \in {retries, MaxRetry}
    /\ pc' = [pc EXCEPT ![c] = "waiting"]
    /\ on' = [on EXCEPT ![c] = made']
    /\ shut' = FALSE

\* Faulty variant: the handshake under way is not shared.
NeverShared == FALSE

HandshakeUnderWay == connecting # None

\* connect()
Connect(c) ==
    /\ Callable(c)
    /\ \/ /\ connected
          /\ pc' = [pc EXCEPT ![c] = "ready"]
          /\ UNCHANGED <<connecting, made, running, retries, on, shut>>
       \/ /\ ~connected /\ HandshakeUnderWay
          /\ pc' = [pc EXCEPT ![c] = "waiting"]
          /\ on' = [on EXCEPT ![c] = connecting]
          /\ UNCHANGED <<connecting, made, running, retries, shut>>
       \/ ~connected /\ ~HandshakeUnderWay /\ InitElectrum(c)
    /\ UNCHANGED <<connected, repair, session, retrying, redial, closed, replaced,
                   setBy, lost>>

\* Faulty variants of the fields close() writes: the library still reconnects
\* by itself; the promise and the flag of the connection are left.
StillRepairs == UNCHANGED repair

PromiseLeft == UNCHANGED connecting

StillConnected == UNCHANGED connected

NoRepair == repair' = FALSE

ForgetPromise == connecting' = None

Disconnected == connected' = FALSE

\* close(): the library ends its present socket, also one it redials over, sees
\* it close, and calls the reconnect that does nothing any more.
Close(c) ==
    /\ Callable(c)
    /\ session' = "down" /\ redial' = FALSE
    /\ retrying' \in {retrying, MayRetry}
    /\ closed' = closed \cup Fresh
    /\ NoRepair /\ Disconnected /\ ForgetPromise
    /\ pc' = [pc EXCEPT ![c] = "idle"]
    /\ lost' = FALSE /\ shut' = TRUE
    /\ UNCHANGED <<retries, made, running, replaced, on, setBy>>

\* reconnect(): a new socket, then connect(), which finds both fields reset.
\* The old socket is not closed: what it still delivers is heard, and when it
\* closes the library may call its reconnect.
Reconnect(c) ==
    /\ Callable(c)
    /\ connected' = FALSE
    /\ session' = "down" /\ redial' = FALSE
    /\ retrying' \in {retrying, MayRetry}
    /\ replaced' = replaced \cup Fresh
    /\ InitElectrum(c)
    /\ lost' = FALSE
    /\ UNCHANGED <<repair, closed, setBy>>

----------------------------------------------------------------------------
(* The end of an attempt *)

\* Faulty variant: the promise of a settled attempt is kept.
PromiseKept == connecting

ForgottenPromise == None

Settle(n, outcome) ==
    /\ running' = running \ {n}
    /\ connecting' = ForgottenPromise
    /\ pc' = [c \in Callers |-> IF c \in Waiters(n) THEN outcome ELSE pc[c]]
    /\ UNCHANGED <<repair, retries, made, closed, replaced, on, shut>>

\* The handshake ends well.  A socket that was replaced may still answer; one
\* that was closed does not, but its attempt may be answered over the next.
Succeed(n) ==
    /\ n \in running
    /\ n \in closed => session = "open"
    /\ session' = IF n \in Fresh THEN "open" ELSE session
    /\ lost' = IF n \in Fresh THEN FALSE ELSE lost
    /\ connected' = TRUE /\ setBy' = n
    /\ Settle(n, "ready")
    /\ UNCHANGED <<retrying, redial>>

\* It fails; a rejected certificate only gets another error.  A library with
\* retries left may go on by itself.
Fail(n) ==
    /\ n \in running
    /\ Settle(n, "idle")
    /\ retrying' \in {retrying, retries > 0}
    /\ UNCHANGED <<connected, session, redial, setBy, lost>>

----------------------------------------------------------------------------
(* The library, external *)

\* The session ends; the library will call its reconnect if it may.
Lose ==
    /\ session = "open"
    /\ session' = "down" /\ lost' = TRUE
    /\ retrying' = (retries > 0) /\ redial' = FALSE
    /\ UNCHANGED <<connected, connecting, repair, retries, attempts, pc, on, setBy,
                   shut>>

\* One call of its reconnect: a new socket, even if an attempt of the client's
\* has restored the session meanwhile, or nothing after a close().
Retry ==
    /\ retrying /\ retries > 0
    /\ retries' = retries - 1 /\ retrying' = FALSE
    /\ \/ /\ ~repair
          /\ UNCHANGED <<session, redial, replaced, lost>>
       \/ /\ repair
          /\ session' = "down" /\ redial' = TRUE
          /\ replaced' = replaced \cup Fresh
          /\ lost' = (lost \/ session = "open")
    /\ UNCHANGED <<connected, connecting, repair, made, running, closed, pc, on,
                   setBy, shut>>

\* The new socket has its session, or closes.
Redialled ==
    /\ redial /\ redial' = FALSE
    /\ \/ session' = "open" /\ lost' = FALSE /\ UNCHANGED retrying
       \/ /\ session' = "down" /\ lost' = (lost \/ session = "open")
          /\ retrying' = (retries > 0)
    /\ UNCHANGED <<connected, connecting, repair, retries, attempts, pc, on, setBy,
                   shut>>

Next ==
    \/ \E c \in Callers : Connect(c) \/ Close(c) \/ Reconnect(c)
    \/ \E n \in Attempts : Succeed(n) \/ Fail(n)
    \/ Lose
    \/ Retry \/ Redialled

Spec == Init /\ [][Next]_vars

----------------------------------------------------------------------------
(* Properties *)

\* Every variable has its type; only attempts that were made are in flight.
TypeOK ==
    /\ connected \in BOOLEAN
    /\ connecting \in running \cup {None}
    /\ repair \in BOOLEAN
    /\ session \in {"down", "open"}
    /\ retries \in 0..MaxRetry
    /\ retrying \in BOOLEAN /\ redial \in BOOLEAN
    /\ made \in 0..MaxAttempts
    /\ running \subseteq 1..made
    /\ closed \subseteq 1..made /\ replaced \subseteq 1..made
    /\ pc \in [Callers -> {"idle", "waiting", "ready"}]
    /\ on \in [Callers -> 0..MaxAttempts \cup {None}]
    /\ setBy \in 1..made \cup {None}
    /\ lost \in BOOLEAN /\ shut \in BOOLEAN

\* The attempts a close() or a new socket interrupted, and which have settled.
Interrupted == (closed \cup replaced) \ running

\* Callers share one handshake.  An interrupted attempt that settles late clears
\* the promise of the next one, and costs one more handshake, never two.  The
\* bound counts over the whole history: every interruption so far allows one.
HandshakesShared == Cardinality(Fresh) <= 1 + Cardinality(Interrupted)

\* _connected without a session is of two kinds only: the session was lost since,
\* of which the code is not told, or the attempt that set the flag had its socket
\* replaced before it answered.  A session that the code itself ends takes the
\* flag with it.
ConnectedMeansSession ==
    connected => session = "open" \/ lost \/ setBy \in replaced

\* A closed client stays closed: until somebody connects again, neither the
\* library's retries nor a late handshake opens a session.
ClosedStaysDown == shut => session = "down"

\* Nobody who connects after a close() waits for a handshake it ended.
NoWaitOnClosed ==
    [][\A c \in Callers :
            pc[c] # "waiting" /\ pc'[c] = "waiting" => on'[c] \notin closed']_vars

\* "Establishes the connection": a connect() that returns leaves a session, or
\* one the library is about to restore.
ConnectEstablishes ==
    [][\A c \in Callers : pc[c] # "ready" /\ pc'[c] = "ready" =>
            session' = "open" \/ redial' \/ (repair' /\ retrying')]_vars
=============================================================================
