------------------------ MODULE MempoolElectrumProofs ------------------------
(***************************************************************************)
(* The TCP and TLS transport, for any number of callers, attempts and      *)
(* retries: one handshake is shared, a closed client stays closed, and     *)
(* what can make _connected lie.                                           *)
(***************************************************************************)
EXTENDS MempoolElectrumClient, TLAPS, FiniteSetTheorems

\* One more than the attempts that were interrupted and settled, while the
\* promise of one is kept: HandshakesShared with what makes it inductive.
SharedStrictly ==
    Cardinality(Fresh) <=
        Cardinality(Interrupted) + IF connecting = None THEN 0 ELSE 1

\* close() leaves nothing that could open a session.
ShutOK == shut => session = "down" /\ repair = FALSE /\ ~redial /\ Fresh = {}

\* The promise that is kept is of an attempt close() did not end.
PromiseLives == connecting \notin closed

IInv == TypeOK /\ SharedStrictly /\ ShutOK /\ PromiseLives /\ ConnectedMeansSession

----------------------------------------------------------------------------
(* Sets of attempts *)

LEMMA FiniteAttempts ==
  ASSUME TypeOK, NEW S, S \subseteq 1..made
  PROVE  IsFiniteSet(S) /\ Cardinality(S) \in Nat
  <1>1. made \in Nat
    BY MempoolElectrumAssumption DEF TypeOK
  <1>2. IsFiniteSet(1..made)
    BY <1>1, FS_Interval
  <1> QED BY <1>2, FS_Subset, FS_CardinalityType

LEMMA NoneIsNoAttempt == TypeOK => None \notin 1..made
  <1> SUFFICES ASSUME TypeOK PROVE None \notin 1..made
    OBVIOUS
  <1>1. 1..made \subseteq Nat
    BY MempoolElectrumAssumption DEF TypeOK
  <1> QED BY <1>1, MempoolElectrumAssumption

LEMMA FreshAndInterrupted ==
  ASSUME TypeOK
  PROVE  /\ Fresh \subseteq 1..made /\ Interrupted \subseteq 1..made
         /\ IsFiniteSet(Fresh) /\ Cardinality(Fresh) \in Nat
         /\ IsFiniteSet(Interrupted) /\ Cardinality(Interrupted) \in Nat
  <1>1. Fresh \subseteq 1..made /\ Interrupted \subseteq 1..made
    BY DEF TypeOK, Fresh, Interrupted
  <1> QED BY <1>1, FiniteAttempts

\* What a new attempt, the end of one and an interruption make of the bound.
LEMMA Grown ==
  ASSUME TypeOK, NEW n, n \notin Fresh
  PROVE  Cardinality(Fresh \cup {n}) = Cardinality(Fresh) + 1
  BY FreshAndInterrupted, FS_AddElement

LEMMA NoneInFlight == Cardinality({}) = 0
  BY FS_EmptySet

LEMMA InitIInv == Init => IInv
  <1> SUFFICES ASSUME Init PROVE IInv
    OBVIOUS
  <1>1. MaxAttempts \in Nat /\ MaxRetry \in Nat
    BY MempoolElectrumAssumption
  <1>2. Fresh = {} /\ Interrupted = {}
    BY DEF Init, Fresh, Interrupted
  <1>3. TypeOK
    <2>1. pc \in [Callers -> {"idle", "waiting", "ready"}]
      BY DEF Init
    <2>2. on \in [Callers -> 0..MaxAttempts \cup {None}]
      BY DEF Init
    <2>3. retries \in 0..MaxRetry /\ made \in 0..MaxAttempts
      BY <1>1 DEF Init
    <2> QED BY <2>1, <2>2, <2>3 DEF Init, TypeOK
  <1>4. SharedStrictly
    BY <1>2, NoneInFlight DEF Init, SharedStrictly
  <1> QED BY <1>2, <1>3, <1>4
          DEF Init, IInv, ShutOK, PromiseLives, ConnectedMeansSession

----------------------------------------------------------------------------
(* Each operation keeps the invariant *)

LEMMA NewAttempt ==
  ASSUME TypeOK, NEW c \in Callers, InitElectrum(c)
  PROVE  /\ made' \in 1..MaxAttempts /\ made' = made + 1
         /\ 1..made \subseteq 1..made' /\ made' \in 1..made' /\ made' \notin 1..made
         /\ made' # None
  BY MempoolElectrumAssumption DEF TypeOK, InitElectrum

LEMMA ConnectIInv == ASSUME IInv, NEW c \in Callers, Connect(c) PROVE IInv'
  <1> USE DEF IInv
  <1>1. UNCHANGED <<connected, repair, session, retrying, redial, closed, replaced,
                    setBy, lost>>
    BY DEF Connect
  <1>2. CASE UNCHANGED <<connecting, made, running, retries, shut>>
    <2>1. on' \in [Callers -> 0..MaxAttempts \cup {None}]
      BY <1>2, MempoolElectrumAssumption DEF Connect, TypeOK, InitElectrum
    <2>2. pc' \in [Callers -> {"idle", "waiting", "ready"}]
      BY DEF Connect, TypeOK, InitElectrum
    <2>3. TypeOK'
      BY <1>1, <1>2, <2>1, <2>2 DEF TypeOK
    <2>4. Fresh' = Fresh /\ Interrupted' = Interrupted
      BY <1>1, <1>2 DEF Fresh, Interrupted
    <2> QED BY <1>1, <1>2, <2>3, <2>4
            DEF SharedStrictly, ShutOK, PromiseLives, ConnectedMeansSession
  <1>3. CASE connecting = None /\ InitElectrum(c)
    <2>1. /\ made' \in 1..MaxAttempts /\ made' = made + 1
          /\ 1..made \subseteq 1..made' /\ made' \in 1..made' /\ made' \notin 1..made
          /\ made' # None
      BY <1>3, NewAttempt
    <2>2. TypeOK'
      <3>1. on' \in [Callers -> 0..MaxAttempts \cup {None}]
        BY <1>3, <2>1, MempoolElectrumAssumption DEF TypeOK, InitElectrum
      <3>2. pc' \in [Callers -> {"idle", "waiting", "ready"}]
        BY <1>3 DEF TypeOK, InitElectrum
      <3>3. retries' \in 0..MaxRetry
        BY <1>3, MempoolElectrumAssumption DEF TypeOK, InitElectrum
      <3> QED BY <1>1, <1>3, <2>1, <3>1, <3>2, <3>3 DEF TypeOK, InitElectrum
    <2>3. Fresh' = Fresh \cup {made'} /\ made' \notin Fresh
      BY <1>1, <1>3, <2>1 DEF TypeOK, Fresh, InitElectrum
    <2>4. Interrupted' = Interrupted
      BY <1>1, <1>3, <2>1 DEF TypeOK, Interrupted, InitElectrum
    <2>5. connecting' = made' /\ shut' = FALSE
      BY <1>3 DEF InitElectrum
    <2>6. SharedStrictly'
      BY <1>3, <2>1, <2>3, <2>4, <2>5, Grown, FreshAndInterrupted DEF SharedStrictly
    <2>7. PromiseLives'
      BY <1>1, <2>1, <2>5 DEF TypeOK, PromiseLives
    <2> QED BY <1>1, <2>2, <2>5, <2>6, <2>7 DEF ShutOK, ConnectedMeansSession
  <1> QED BY <1>2, <1>3 DEF Connect, HandshakeUnderWay

LEMMA CloseIInv == ASSUME IInv, NEW c \in Callers, Close(c) PROVE IInv'
  <1> USE DEF IInv
  <1>1. /\ session' = "down" /\ closed' = closed \cup Fresh
        /\ repair' = FALSE /\ connected' = FALSE /\ connecting' = None
        /\ redial' = FALSE
        /\ UNCHANGED <<retries, made, running, replaced, on, setBy>>
    BY DEF Close, NoRepair, Disconnected, ForgetPromise
  <1>2. Fresh' = {} /\ Interrupted' = Interrupted
    BY <1>1 DEF Fresh, Interrupted
  <1>3. retrying' \in BOOLEAN /\ lost' \in BOOLEAN /\ shut' \in BOOLEAN
    <2>1. retrying' \in {retrying, MayRetry}
      BY DEF Close
    <2>2. MayRetry \in BOOLEAN
      BY DEF MayRetry
    <2>3. retrying' \in BOOLEAN
      BY <2>1, <2>2, Zenon DEF TypeOK
    <2> QED BY <2>3 DEF Close, TypeOK
  <1>4. pc' \in [Callers -> {"idle", "waiting", "ready"}]
    BY DEF Close, TypeOK
  <1>5. TypeOK'
    BY <1>1, <1>3, <1>4, FreshAndInterrupted DEF TypeOK
  <1>6. SharedStrictly'
    BY <1>1, <1>2, NoneInFlight, FreshAndInterrupted DEF SharedStrictly
  <1>7. None \notin closed'
    BY <1>1, FreshAndInterrupted, NoneIsNoAttempt DEF TypeOK
  <1> QED BY <1>1, <1>2, <1>5, <1>6, <1>7
          DEF ShutOK, PromiseLives, ConnectedMeansSession

LEMMA ReconnectIInv == ASSUME IInv, NEW c \in Callers, Reconnect(c) PROVE IInv'
  <1> USE DEF IInv
  <1>1. /\ connected' = FALSE /\ session' = "down" /\ lost' = FALSE
        /\ redial' = FALSE /\ replaced' = replaced \cup Fresh
        /\ UNCHANGED <<repair, closed, setBy>>
        /\ InitElectrum(c)
    BY DEF Reconnect
  <1>2. /\ made' \in 1..MaxAttempts /\ made' = made + 1
        /\ 1..made \subseteq 1..made' /\ made' \in 1..made' /\ made' \notin 1..made
        /\ made' # None
    BY <1>1, NewAttempt
  <1>3. TypeOK'
    <2>1. on' \in [Callers -> 0..MaxAttempts \cup {None}]
      BY <1>1, <1>2, MempoolElectrumAssumption DEF TypeOK, InitElectrum
    <2>2. pc' \in [Callers -> {"idle", "waiting", "ready"}]
      BY <1>1 DEF TypeOK, InitElectrum
    <2>3. retries' \in 0..MaxRetry
      BY <1>1, MempoolElectrumAssumption DEF TypeOK, InitElectrum
    <2>4. retrying' \in {retrying, MayRetry} /\ MayRetry \in BOOLEAN
      BY DEF Reconnect, MayRetry
    <2>5. retrying' \in BOOLEAN
      BY <2>4, Zenon DEF TypeOK
    <2> QED BY <1>1, <1>2, <2>1, <2>2, <2>3, <2>5, FreshAndInterrupted
            DEF TypeOK, InitElectrum
  <1>4. Fresh' = {made'}
    BY <1>1, <1>2, FreshAndInterrupted DEF TypeOK, Fresh, InitElectrum
  <1>5. Interrupted' = Interrupted
    BY <1>1, <1>2 DEF TypeOK, Fresh, Interrupted, InitElectrum
  <1>6. connecting' = made' /\ shut' = FALSE
    BY <1>1 DEF InitElectrum
  <1>7. Cardinality({made'}) = 1
    BY FS_Singleton
  <1>8. SharedStrictly'
    BY <1>2, <1>4, <1>5, <1>6, <1>7, FreshAndInterrupted DEF SharedStrictly
  <1>9. PromiseLives'
    BY <1>1, <1>2, <1>6 DEF TypeOK, PromiseLives
  <1> QED BY <1>1, <1>3, <1>6, <1>8, <1>9 DEF ShutOK, ConnectedMeansSession

\* The end of an attempt, well or badly: its own handshake is over, or an
\* interrupted one has cost the promise of the next.
LEMMA SettleKeeps ==
  ASSUME IInv, NEW n \in running, NEW outcome \in {"idle", "ready"}, Settle(n, outcome)
  PROVE  /\ Fresh' = Fresh \ {n}
         /\ SharedStrictly' /\ PromiseLives'
         /\ pc' \in [Callers -> {"idle", "waiting", "ready"}]
         /\ UNCHANGED <<repair, retries, made, closed, replaced, on, shut>>
         /\ connecting' = None /\ running' = running \ {n}
  <1> USE DEF IInv
  <1>1. /\ running' = running \ {n} /\ connecting' = None
        /\ UNCHANGED <<repair, retries, made, closed, replaced, on, shut>>
    BY DEF Settle, ForgottenPromise
  <1>2. pc' \in [Callers -> {"idle", "waiting", "ready"}]
    BY DEF Settle, TypeOK
  <1>3. Fresh' = Fresh \ {n}
    BY <1>1 DEF Fresh
  <1>4. PromiseLives'
    BY <1>1, NoneIsNoAttempt DEF TypeOK, PromiseLives
  <1>5. CASE n \in Fresh
    <2>1. Interrupted' = Interrupted
      BY <1>1, <1>5 DEF Fresh, Interrupted
    <2>2. Cardinality(Fresh \ {n}) = Cardinality(Fresh) - 1
      BY <1>5, FreshAndInterrupted, FS_RemoveElement
    <2> QED BY <1>1, <1>2, <1>3, <1>4, <2>1, <2>2, FreshAndInterrupted
            DEF SharedStrictly
  <1>6. CASE n \notin Fresh
    <2>1. Interrupted' = Interrupted \cup {n} /\ n \notin Interrupted
      BY <1>1, <1>6 DEF Fresh, Interrupted
    <2>2. Cardinality(Interrupted \cup {n}) = Cardinality(Interrupted) + 1
      BY <2>1, FreshAndInterrupted, FS_AddElement
    <2>3. Fresh' = Fresh
      BY <1>3, <1>6
    <2>4. Cardinality(Fresh) <= Cardinality(Interrupted) + 1
      BY FreshAndInterrupted DEF SharedStrictly
    <2>5. SharedStrictly'
      BY <1>1, <2>1, <2>2, <2>3, <2>4, FreshAndInterrupted DEF SharedStrictly
    <2> QED BY <1>1, <1>2, <1>3, <1>4, <2>5
  <1> QED BY <1>5, <1>6

LEMMA SucceedIInv == ASSUME IInv, NEW n \in Attempts, Succeed(n) PROVE IInv'
  <1> USE DEF IInv
  <1>1. n \in running /\ Settle(n, "ready")
    BY DEF Succeed
  <1>2. /\ Fresh' = Fresh \ {n} /\ SharedStrictly' /\ PromiseLives'
        /\ pc' \in [Callers -> {"idle", "waiting", "ready"}]
        /\ UNCHANGED <<repair, retries, made, closed, replaced, on, shut>>
        /\ connecting' = None /\ running' = running \ {n}
    BY <1>1, SettleKeeps
  <1>3. session' \in {"down", "open"} /\ lost' \in BOOLEAN
    BY DEF Succeed, TypeOK
  <1>4. connected' = TRUE /\ setBy' = n /\ UNCHANGED <<retrying, redial>>
    BY DEF Succeed
  <1>5. TypeOK'
    <2>1. setBy' \in 1..made'
      BY <1>1, <1>2, <1>4 DEF TypeOK
    <2> QED BY <1>2, <1>3, <1>4, <2>1 DEF TypeOK
  <1>6. ShutOK'
    BY <1>2 DEF ShutOK, Succeed
  <1>7. ConnectedMeansSession'
    BY <1>1, <1>2, <1>4 DEF ConnectedMeansSession, Succeed, Fresh
  <1> QED BY <1>2, <1>5, <1>6, <1>7

LEMMA FailIInv == ASSUME IInv, NEW n \in Attempts, Fail(n) PROVE IInv'
  <1> USE DEF IInv
  <1>1. n \in running /\ Settle(n, "idle")
    BY DEF Fail
  <1>2. /\ Fresh' = Fresh \ {n} /\ SharedStrictly' /\ PromiseLives'
        /\ pc' \in [Callers -> {"idle", "waiting", "ready"}]
        /\ UNCHANGED <<repair, retries, made, closed, replaced, on, shut>>
        /\ connecting' = None /\ running' = running \ {n}
    BY <1>1, SettleKeeps
  <1>3. UNCHANGED <<connected, session, redial, setBy, lost>> /\ retrying' \in BOOLEAN
    <2>1. retrying' \in {retrying, retries > 0}
      BY DEF Fail
    <2>2. (retries > 0) \in BOOLEAN
      OBVIOUS
    <2>3. retrying' \in BOOLEAN
      BY <2>1, <2>2, Zenon DEF TypeOK
    <2> QED BY <2>3 DEF Fail
  <1>4. TypeOK'
    BY <1>2, <1>3 DEF TypeOK
  <1> QED BY <1>2, <1>3, <1>4 DEF ShutOK, ConnectedMeansSession

LEMMA LoseIInv == ASSUME IInv, Lose PROVE IInv'
  <1> USE DEF IInv
  <1>1. Fresh' = Fresh /\ Interrupted' = Interrupted
    BY DEF Lose, attempts, Fresh, Interrupted
  <1>2. TypeOK'
    <2>1. (retries > 0) \in BOOLEAN
      OBVIOUS
    <2>2. retrying' \in BOOLEAN
      BY <2>1, Zenon DEF Lose
    <2> QED BY <2>2 DEF Lose, attempts, TypeOK
  <1> QED BY <1>1, <1>2 DEF Lose, attempts, SharedStrictly, ShutOK, PromiseLives,
                            ConnectedMeansSession

LEMMA RetryIInv == ASSUME IInv, Retry PROVE IInv'
  <1> USE DEF IInv
  <1>1. /\ UNCHANGED <<connected, connecting, repair, made, running, closed, pc, on,
                       setBy, shut>>
        /\ retrying' = FALSE
    BY DEF Retry
  <1>2. retries' \in 0..MaxRetry
    BY MempoolElectrumAssumption DEF Retry, TypeOK
  <1>3. CASE UNCHANGED <<session, redial, replaced, lost>>
    <2>1. Fresh' = Fresh /\ Interrupted' = Interrupted
      BY <1>1, <1>3 DEF Fresh, Interrupted
    <2>2. TypeOK'
      BY <1>1, <1>2, <1>3 DEF TypeOK
    <2> QED BY <1>1, <1>3, <2>1, <2>2
            DEF SharedStrictly, ShutOK, PromiseLives, ConnectedMeansSession
  <1>4. CASE /\ repair /\ session' = "down" /\ redial' = TRUE
             /\ replaced' = replaced \cup Fresh
             /\ lost' = (lost \/ session = "open")
    <2>1. Fresh' = {} /\ Interrupted' = Interrupted
      BY <1>1, <1>4 DEF Fresh, Interrupted
    <2>2. TypeOK'
      BY <1>1, <1>2, <1>4, FreshAndInterrupted DEF TypeOK
    <2>3. SharedStrictly'
      BY <1>1, <2>1, NoneInFlight, FreshAndInterrupted DEF SharedStrictly
    <2>4. ShutOK'
      BY <1>1, <1>4 DEF ShutOK, TypeOK
    <2>5. ConnectedMeansSession'
      BY <1>1, <1>4 DEF ConnectedMeansSession, TypeOK
    <2> QED BY <1>1, <2>2, <2>3, <2>4, <2>5 DEF PromiseLives
  <1> QED BY <1>3, <1>4 DEF Retry

LEMMA RedialledIInv == ASSUME IInv, Redialled PROVE IInv'
  <1> USE DEF IInv
  <1>1. /\ UNCHANGED <<connected, connecting, repair, retries, attempts, pc, on, setBy,
                       shut>>
        /\ redial /\ redial' = FALSE
    BY DEF Redialled
  <1>2. Fresh' = Fresh /\ Interrupted' = Interrupted
    BY <1>1 DEF attempts, Fresh, Interrupted
  <1>3. retrying' \in BOOLEAN /\ lost' \in BOOLEAN /\ session' \in {"down", "open"}
    <2>1. (retries > 0) \in BOOLEAN /\ (lost \/ session = "open") \in BOOLEAN
      OBVIOUS
    <2> QED BY <2>1, Zenon DEF Redialled, TypeOK
  <1>4. TypeOK'
    BY <1>1, <1>3 DEF attempts, TypeOK
  <1>5. ConnectedMeansSession'
    <2>1. session' = "open" \/ lost' = (lost \/ session = "open")
      BY DEF Redialled
    <2>2. UNCHANGED <<connected, replaced, setBy>>
      BY <1>1 DEF attempts
    <2> QED BY <2>1, <2>2 DEF ConnectedMeansSession, TypeOK
  <1> QED BY <1>1, <1>2, <1>4, <1>5 DEF attempts, SharedStrictly, ShutOK, PromiseLives

LEMMA NextIInv == IInv /\ [Next]_vars => IInv'
  <1> SUFFICES ASSUME IInv, [Next]_vars PROVE IInv'
    OBVIOUS
  <1>1. ASSUME NEW c \in Callers, Connect(c) PROVE IInv'
    BY <1>1, ConnectIInv
  <1>2. ASSUME NEW c \in Callers, Close(c) PROVE IInv'
    BY <1>2, CloseIInv
  <1>3. ASSUME NEW c \in Callers, Reconnect(c) PROVE IInv'
    BY <1>3, ReconnectIInv
  <1>4. ASSUME NEW n \in Attempts, Succeed(n) PROVE IInv'
    BY <1>4, SucceedIInv
  <1>5. ASSUME NEW n \in Attempts, Fail(n) PROVE IInv'
    BY <1>5, FailIInv
  <1>6. CASE Lose
    BY <1>6, LoseIInv
  <1>7. CASE Retry
    BY <1>7, RetryIInv
  <1>8. CASE Redialled
    BY <1>8, RedialledIInv
  <1>9. CASE UNCHANGED vars
    <2>1. Fresh' = Fresh /\ Interrupted' = Interrupted
      BY <1>9 DEF vars, attempts, Fresh, Interrupted
    <2>2. TypeOK'
      BY <1>9 DEF IInv, TypeOK, vars, library, attempts
    <2> QED BY <1>9, <2>1, <2>2 DEF IInv, SharedStrictly, ShutOK, PromiseLives,
               ConnectedMeansSession, vars, library, attempts
  <1> QED BY <1>1, <1>2, <1>3, <1>4, <1>5, <1>6, <1>7, <1>8, <1>9 DEF Next

\* IInv is an invariant: it holds at the start and every step keeps it.
THEOREM Invariance == Spec => []IInv
  BY InitIInv, NextIInv, PTL DEF Spec

----------------------------------------------------------------------------
(* Results *)

\* Types: _connecting is the promise of an attempt still in flight
\* (mempool-electrum-client.js connect, its .finally).
THEOREM TypeCorrect == Spec => []TypeOK
  BY Invariance, PTL DEF IInv

\* Overlapping connect() calls share one handshake, but for one more with every
\* interrupted attempt that settled late (connect, close, reconnect).
THEOREM OneHandshake == Spec => []HandshakesShared
  <1>1. IInv => HandshakesShared
    BY FreshAndInterrupted DEF IInv, SharedStrictly, HandshakesShared
  <1> QED BY <1>1, Invariance, PTL

\* While _connected is set without a session, either a session was lost, of which
\* the code is not told, or the very attempt that set it had its socket replaced
\* by reconnect() or the library (connect, close, reconnect).
THEOREM FlagLiesInTwoWays == Spec => []ConnectedMeansSession
  BY Invariance, PTL DEF IInv

\* close() is final until the next connect() or reconnect(): replacing the
\* library's reconnect stops its retries.
THEOREM CloseIsFinal == Spec => []ClosedStaysDown
  <1>1. IInv => ClosedStaysDown
    BY DEF IInv, ShutOK, ClosedStaysDown
  <1> QED BY <1>1, Invariance, PTL

\* A step makes a caller wait only for an attempt close() has not ended.
LEMMA WaitsForLive == ASSUME IInv, [Next]_vars PROVE
    \A c \in Callers :
        pc[c] # "waiting" /\ pc'[c] = "waiting" => on'[c] \notin closed'
  <1> SUFFICES ASSUME NEW c \in Callers, pc[c] # "waiting", pc'[c] = "waiting"
               PROVE  on'[c] \notin closed'
    OBVIOUS
  <1>0. pc \in [Callers -> {"idle", "waiting", "ready"}]
        /\ on \in [Callers -> 0..MaxAttempts \cup {None}]
    BY DEF IInv, TypeOK
  <1>1. ASSUME NEW b \in Callers, Connect(b) PROVE on'[c] \notin closed'
    <2>1. closed' = closed
      BY <1>1 DEF Connect
    <2>2. CASE InitElectrum(b)
      <3>1. made' \notin closed
        BY <2>2, NewAttempt DEF IInv, TypeOK
      <3> QED BY <1>0, <2>1, <2>2, <3>1 DEF InitElectrum
    <2>3. CASE pc' = [pc EXCEPT ![b] = "ready"]
      BY <1>0, <2>3
    <2>4. CASE /\ pc' = [pc EXCEPT ![b] = "waiting"]
               /\ on' = [on EXCEPT ![b] = connecting]
      BY <1>0, <2>1, <2>4 DEF IInv, PromiseLives
    <2> QED BY <1>1, <2>2, <2>3, <2>4 DEF Connect
  <1>2. ASSUME NEW b \in Callers, Close(b) PROVE on'[c] \notin closed'
    BY <1>0, <1>2 DEF Close
  <1>3. ASSUME NEW b \in Callers, Reconnect(b) PROVE on'[c] \notin closed'
    <2>1. InitElectrum(b) /\ closed' = closed
      BY <1>3 DEF Reconnect
    <2>2. made' \notin closed
      BY <2>1, NewAttempt DEF IInv, TypeOK
    <2> QED BY <1>0, <2>1, <2>2 DEF InitElectrum
  <1>4. ASSUME NEW n \in Attempts, Succeed(n) \/ Fail(n) PROVE on'[c] \notin closed'
    BY <1>0, <1>4 DEF Succeed, Fail, Settle
  <1>5. CASE Lose \/ Retry \/ Redialled \/ UNCHANGED vars
    BY <1>0, <1>5 DEF Lose, Retry, Redialled, vars
  <1> QED BY <1>1, <1>2, <1>3, <1>4, <1>5 DEF Next

\* After a close(), connect() never returns the promise of a handshake it ended
\* (close: this._connecting = null).
THEOREM WaitersCanSettle == Spec => NoWaitOnClosed
  <1>1. IInv /\ [Next]_vars =>
          [\A c \in Callers :
            pc[c] # "waiting" /\ pc'[c] = "waiting" => on'[c] \notin closed']_vars
    BY WaitsForLive
  <1> QED BY <1>1, Invariance, PTL DEF Spec, NoWaitOnClosed
=============================================================================
