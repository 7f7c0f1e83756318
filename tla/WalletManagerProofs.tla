------------------------- MODULE WalletManagerProofs -------------------------
(***************************************************************************)
(* The ownership of keys, for any number of callers, names, paths and      *)
(* derivations: the wallet never erases a signer it was given, and never   *)
(* closes a client it was given, whatever the list of clients.             *)
(***************************************************************************)
EXTENDS WalletManager, TLAPS

\* The account that owns its signer is the one that was derived for it.
OwnedAreDerived ==
    /\ \A a \in accounts : a.owned => a.signer \in 1..derived
    /\ \A c \in Callers : call[c] # None => call[c].child \in 1..derived

\* Every connect() awaited since dispose() was awaited then or called later.
AwaitedAreLate == disposed => awaited \subseteq late

\* The part of it on connections.
Connections == DisposedLeavesNoConnection /\ AwaitedAreLate

\* The inductive invariant.
IInv == TypeOK /\ OwnedAreDerived /\ ForeignSignersKept /\ Connections

LEMMA SameConnections ==
  ASSUME Connections, UNCHANGED <<disposed, connections>> PROVE Connections'
  BY DEF Connections, DisposedLeavesNoConnection, AwaitedAreLate, connections

\* Derived signers are numbers and the caller's are not.
LEMMA Disjoint == \A n \in Nat : n \notin Foreign /\ n \notin Signers
  BY WalletManagerAssumption DEF Foreign, Signers

\* What dispose() closes: the manager, all it made; an account and a copy, none.
LEMMA ClosedClients ==
  /\ Closed(Given) = (DOMAIN Given) \ External
  /\ Closed(AccountList) = {}
  /\ Closed(CopyList) = {}
  <1>1. Closed(Given) = (DOMAIN Given) \ External
    BY DEF Closed, IsExternalClient, External
  <1>2. Closed(AccountList) = {}
    <2>1. \A i \in DOMAIN Given : CreateClient(Given[i]) = "instance"
      BY WalletManagerAssumption DEF CreateClient
    <2> QED BY <2>1 DEF Closed, IsExternalClient, AccountList, Created
  <1>3. \A j \in DOMAIN CopyList : CopyList[j] = "instance"
    BY DEF CopyList
  <1>4. Closed(CopyList) = {}
    BY <1>3 DEF Closed, IsExternalClient
  <1> QED BY <1>1, <1>2, <1>4

\* The actions on connections leave the keys alone.
LEMMA KeysIInv ==
  ASSUME IInv, UNCHANGED keys, Connections', open' \subseteq DOMAIN Given,
         awaited' \subseteq DOMAIN Given, late' \subseteq DOMAIN Given
  PROVE  IInv'
  BY DEF IInv, TypeOK, OwnedAreDerived, ForeignSignersKept, keys

LEMMA UseIInv == ASSUME IInv, NEW i \in DOMAIN Given, Use(i) PROVE IInv'
  <1>1. /\ UNCHANGED <<keys, open>>
        /\ awaited' = awaited \cup {i}
        /\ late' = IF disposed THEN late \cup {i} ELSE late
    BY DEF Use
  <1>2. awaited' \subseteq DOMAIN Given /\ late' \subseteq DOMAIN Given
    BY <1>1 DEF IInv, TypeOK
  <1>3. Connections'
    BY <1>1 DEF IInv, Connections, DisposedLeavesNoConnection, AwaitedAreLate, keys
  <1> QED BY <1>1, <1>2, <1>3, KeysIInv DEF IInv, TypeOK

\* What connects after dispose() was awaited then, or called later.
LEMMA ConnectedIInv == ASSUME IInv, NEW i \in DOMAIN Given, Connected(i) PROVE IInv'
  <1>1. /\ UNCHANGED <<keys, late>>
        /\ i \in awaited /\ open' \subseteq open \cup {i} /\ awaited' \subseteq awaited
    BY DEF Connected
  <1>2. Connections'
    BY <1>1 DEF IInv, Connections, DisposedLeavesNoConnection, AwaitedAreLate, keys
  <1> QED BY <1>1, <1>2, KeysIInv DEF IInv, TypeOK

\* A close leaves what is awaited alone.
LEMMA FewerOpenIInv ==
  ASSUME IInv, UNCHANGED <<keys, awaited, late>>, open' \subseteq open PROVE IInv'
  <1>1. Connections'
    BY DEF IInv, Connections, DisposedLeavesNoConnection, AwaitedAreLate, keys
  <1> QED BY <1>1, KeysIInv DEF IInv, TypeOK

LEMMA StoreKeeps ==
  ASSUME NEW S, \A k \in DOMAIN cache : cache[k] \in S, NEW a \in S, NEW r
  PROVE  \A k \in DOMAIN Store(r, a) : Store(r, a)[k] \in S
  BY DEF Store

LEMMA InitIInv == Init => IInv
  <1> SUFFICES ASSUME Init PROVE IInv
    OBVIOUS
  <1>1. MaxDerived \in Nat
    BY WalletManagerAssumption
  <1>2. /\ accounts = {} /\ derived = 0 /\ alive = Signers /\ DOMAIN cache = {}
        /\ \A c \in Callers : call[c] = None
    BY DEF Init
  <1>3. /\ call \in [Callers -> [request : Request, child : 1..MaxDerived] \cup {None}]
        /\ got \in [Callers -> accounts \cup {Failed, None}]
    BY DEF Init
  <1>4. 0 \in 0..MaxDerived
    BY <1>1
  <1>5. TypeOK
    BY <1>2, <1>3, <1>4 DEF Init, TypeOK
  <1>6. OwnedAreDerived /\ ForeignSignersKept /\ Connections
    BY <1>2 DEF Init, OwnedAreDerived, ForeignSignersKept, Foreign, Signers,
                Connections, DisposedLeavesNoConnection, AwaitedAreLate
  <1> QED BY <1>5, <1>6 DEF IInv

LEMMA GetAccountByNameIInv ==
  ASSUME IInv, NEW c \in Callers, NEW r \in Request, GetAccountByName(c, r)
  PROVE  IInv'
  <1> DEFINE a == [signer |-> r.signer, owned |-> OwnsItsSigner, request |-> r]
  <1>1. UNCHANGED <<registered, alive, derived, call, disposed, wiped, connections>>
    BY DEF GetAccountByName
  <1>2. CASE UNCHANGED <<cache, accounts>>
    <2>1. \/ got' = [got EXCEPT ![c] = Failed]
          \/ KeyOf(r) \in DOMAIN cache /\ got' = [got EXCEPT ![c] = cache[KeyOf(r)]]
          \/ accounts' = accounts \cup {a} /\ got' = [got EXCEPT ![c] = a]
      BY DEF GetAccountByName
    <2>2. got' \in [Callers -> accounts \cup {Failed, None}]
      BY <1>2, <2>1 DEF IInv, TypeOK
    <2> QED BY <1>1, <1>2, <2>2, SameConnections
            DEF IInv, TypeOK, OwnedAreDerived, ForeignSignersKept, connections
  <1>3. CASE /\ Known(r.signer)
             /\ accounts' = accounts \cup {a}
             /\ cache' = Store(r, a)
             /\ got' = [got EXCEPT ![c] = a]
    <2>1. a \in Account
      BY <1>3 DEF IInv, TypeOK, Known, Signers, Account, OwnsItsSigner
    <2>2. \A k \in DOMAIN cache' : cache'[k] \in accounts'
      BY <1>3, StoreKeeps DEF IInv, TypeOK
    <2>3. got' \in [Callers -> accounts' \cup {Failed, None}]
      BY <1>3 DEF IInv, TypeOK
    <2>4. TypeOK'
      BY <1>1, <1>3, <2>1, <2>2, <2>3 DEF IInv, TypeOK, connections
    <2>5. OwnedAreDerived'
      BY <1>1, <1>3 DEF IInv, OwnedAreDerived, OwnsItsSigner
    <2>6. (ForeignSignersKept /\ Connections)'
      BY <1>1, SameConnections DEF IInv, ForeignSignersKept
    <2> QED BY <2>4, <2>5, <2>6 DEF IInv
  <1> QED BY <1>2, <1>3 DEF GetAccountByName

LEMMA GetAccountByPathIInv ==
  ASSUME IInv, NEW c \in Callers, NEW r \in Request, GetAccountByPath(c, r)
  PROVE  IInv'
  <1>1. UNCHANGED <<registered, cache, accounts, disposed, wiped, connections>>
    BY DEF GetAccountByPath
  <1>2. CASE UNCHANGED <<alive, derived, call>>
    <2>1. \/ got' = [got EXCEPT ![c] = Failed]
          \/ got' = [got EXCEPT ![c] = None]
          \/ KeyOf(r) \in DOMAIN cache /\ got' = [got EXCEPT ![c] = cache[KeyOf(r)]]
      BY DEF GetAccountByPath
    <2>2. got' \in [Callers -> accounts \cup {Failed, None}]
      BY <2>1 DEF IInv, TypeOK
    <2> QED BY <1>1, <1>2, <2>2, SameConnections
            DEF IInv, TypeOK, OwnedAreDerived, ForeignSignersKept, connections
  <1>3. CASE /\ derived < MaxDerived
             /\ derived' = derived + 1
             /\ alive' = alive \cup {derived'}
             /\ call' = [call EXCEPT ![c] = [request |-> r, child |-> derived']]
             /\ got' = [got EXCEPT ![c] = None]
    <2>1. /\ derived \in Nat /\ MaxDerived \in Nat /\ derived' \in 1..MaxDerived
          /\ derived' \in 1..derived' /\ 1..derived \subseteq 1..derived'
      BY <1>3, WalletManagerAssumption DEF IInv, TypeOK
    <2>2. call' \in [Callers -> [request : Request, child : 1..MaxDerived] \cup {None}]
      BY <1>3, <2>1 DEF IInv, TypeOK
    <2>3. TypeOK'
      BY <1>1, <1>3, <2>1, <2>2 DEF IInv, TypeOK, connections
    <2>4. OwnedAreDerived'
      BY <1>1, <1>3, <2>1 DEF IInv, TypeOK, OwnedAreDerived
    <2>5. (ForeignSignersKept /\ Connections)'
      BY <1>1, <1>3, SameConnections DEF IInv, ForeignSignersKept
    <2> QED BY <2>3, <2>4, <2>5 DEF IInv
  <1> QED BY <1>2, <1>3 DEF GetAccountByPath

LEMMA FinishGetAccountIInv ==
  ASSUME IInv, NEW c \in Callers, FinishGetAccount(c) PROVE IInv'
  <1> DEFINE r == call[c].request
             a == [signer |-> call[c].child, owned |-> TRUE, request |-> r]
  <1>1. /\ UNCHANGED <<registered, alive, derived, disposed, wiped, connections>>
        /\ accounts' = accounts \cup {a}
        /\ cache' = Store(r, a)
        /\ got' = [got EXCEPT ![c] = a]
        /\ call' = [call EXCEPT ![c] = None]
    BY DEF FinishGetAccount
  <1>2. /\ call[c] \in [request : Request, child : 1..MaxDerived]
        /\ call[c].child \in 1..derived
    BY DEF IInv, TypeOK, OwnedAreDerived, FinishGetAccount
  <1>3. a \in Account
    BY <1>2 DEF Account
  <1>4. \A k \in DOMAIN cache' : cache'[k] \in accounts'
    BY <1>1, StoreKeeps DEF IInv, TypeOK
  <1>5. /\ got' \in [Callers -> accounts' \cup {Failed, None}]
        /\ call' \in [Callers -> [request : Request, child : 1..MaxDerived] \cup {None}]
    BY <1>1 DEF IInv, TypeOK
  <1>6. TypeOK'
    BY <1>1, <1>3, <1>4, <1>5 DEF IInv, TypeOK, connections
  <1>7. OwnedAreDerived'
    BY <1>1, <1>2 DEF IInv, TypeOK, OwnedAreDerived
  <1>8. (ForeignSignersKept /\ Connections)'
    BY <1>1, SameConnections DEF IInv, ForeignSignersKept
  <1> QED BY <1>6, <1>7, <1>8 DEF IInv

\* A dispose only erases what is not the caller's.
LEMMA ErasedIsOwn ==
  ASSUME IInv, NEW S \in SUBSET accounts PROVE ErasedBy(S) \cap Foreign = {}
  <1> SUFFICES ASSUME NEW a \in S, a.owned PROVE a.signer \notin Foreign
    BY DEF ErasedBy
  <1>1. a.signer \in 1..derived
    BY DEF IInv, OwnedAreDerived
  <1>2. a.signer \in Nat
    BY <1>1
  <1> QED BY <1>2, Disjoint

LEMMA DisposeAccountIInv ==
  ASSUME IInv, NEW a \in accounts, DisposeAccount(a) PROVE IInv'
  <1>1. ErasedBy({a}) \cap Foreign = {}
    BY ErasedIsOwn
  <1>2. open' = open
    BY ClosedClients DEF DisposeAccount
  <1>3. Connections'
    BY <1>2, SameConnections DEF IInv, DisposeAccount, connections
  <1> QED BY <1>1, <1>2, <1>3 DEF IInv, TypeOK, OwnedAreDerived, ForeignSignersKept,
                                  DisposeAccount

LEMMA WipeSignerIInv ==
  ASSUME IInv, NEW s \in Signers, WipeSigner(s) PROVE IInv'
  BY SameConnections
     DEF IInv, TypeOK, OwnedAreDerived, ForeignSignersKept, WipeSigner, connections

LEMMA DisposeIInv == ASSUME IInv, NEW c \in Callers, Dispose(c) PROVE IInv'
  <1>1. ErasedBy(CachedAccounts) \cap Foreign = {}
    BY ErasedIsOwn DEF IInv, TypeOK, CachedAccounts
  <1>2. ErasedByManager \cap Foreign = {}
    BY WalletManagerAssumption DEF ErasedByManager, Foreign
  <1>3. \A k \in DOMAIN cache' : cache'[k] \in accounts
    BY DEF IInv, TypeOK, Dispose
  <1>4. got' \in [Callers -> accounts \cup {Failed, None}]
    BY DEF IInv, TypeOK, Dispose
  <1>5. TypeOK'
    BY <1>3, <1>4 DEF IInv, TypeOK, Dispose
  <1>6. (OwnedAreDerived /\ ForeignSignersKept)'
    BY <1>1, <1>2 DEF IInv, OwnedAreDerived, ForeignSignersKept, Dispose
  <1>7. Connections'
    BY ClosedClients
       DEF IInv, TypeOK, Connections, DisposedLeavesNoConnection, AwaitedAreLate, Dispose
  <1> QED BY <1>5, <1>6, <1>7 DEF IInv

\* One step of a caller, an account or an owner keeps the inductive invariant.
LEMMA NextIInv == IInv /\ [Next]_vars => IInv'
  <1> SUFFICES ASSUME IInv, [Next]_vars PROVE IInv'
    OBVIOUS
  <1>1. ASSUME NEW n \in Names, AddSigner(n) PROVE IInv'
    BY <1>1, SameConnections
       DEF IInv, TypeOK, OwnedAreDerived, ForeignSignersKept, AddSigner, connections
  <1>2. ASSUME NEW c \in Callers, NEW r \in Request, GetAccountByName(c, r) PROVE IInv'
    BY <1>2, GetAccountByNameIInv
  <1>3. ASSUME NEW c \in Callers, NEW r \in Request, GetAccountByPath(c, r) PROVE IInv'
    BY <1>3, GetAccountByPathIInv
  <1>4. ASSUME NEW c \in Callers, FinishGetAccount(c) PROVE IInv'
    BY <1>4, FinishGetAccountIInv
  <1>5. ASSUME NEW c \in Callers, Dispose(c) PROVE IInv'
    BY <1>5, DisposeIInv
  <1>6. ASSUME NEW a \in accounts, DisposeAccount(a) PROVE IInv'
    BY <1>6, DisposeAccountIInv
  <1>7. ASSUME NEW s \in Signers, WipeSigner(s) PROVE IInv'
    BY <1>7, WipeSignerIInv
  <1>8. ASSUME NEW i \in DOMAIN Given,
               Use(i) \/ Connected(i) \/ DisposeCopy(i) \/ CloseOwn(i)
        PROVE  IInv'
    BY <1>8, UseIInv, ConnectedIInv, FewerOpenIInv DEF DisposeCopy, CloseOwn
  <1>9. CASE UNCHANGED vars
    BY <1>9, FewerOpenIInv DEF vars, connections
  <1> QED BY <1>1, <1>2, <1>3, <1>4, <1>5, <1>6, <1>7, <1>8, <1>9 DEF Next

\* A step that closes a connection is its owner's.
LEMMA ClosedByOwner ==
  ASSUME IInv, [Next]_vars, NEW k \in open, k \notin open'
  PROVE  \/ CloseOwn(k)
         \/ k \notin External /\ \E c \in Callers : Dispose(c)
  <1>1. ASSUME NEW n \in Names, AddSigner(n) PROVE open' = open
    BY <1>1 DEF AddSigner, connections
  <1>2. ASSUME NEW c \in Callers, NEW r \in Request,
               GetAccountByName(c, r) \/ GetAccountByPath(c, r) PROVE open' = open
    BY <1>2 DEF GetAccountByName, GetAccountByPath, connections
  <1>3. ASSUME NEW c \in Callers, FinishGetAccount(c) PROVE open' = open
    BY <1>3 DEF FinishGetAccount, connections
  <1>4. ASSUME NEW c \in Callers, Dispose(c) PROVE k \notin External
    BY <1>4, ClosedClients DEF Dispose
  <1>5. ASSUME NEW a \in accounts, DisposeAccount(a) PROVE open' = open
    BY <1>5, ClosedClients DEF DisposeAccount
  <1>6. ASSUME NEW s \in Signers, WipeSigner(s) PROVE open' = open
    BY <1>6 DEF WipeSigner, connections
  <1>7. ASSUME NEW i \in DOMAIN Given, Use(i) \/ Connected(i) PROVE k \in open'
    BY <1>7 DEF Use, Connected
  <1>8. ASSUME NEW i \in DOMAIN Given, DisposeCopy(i) PROVE open' = open
    BY <1>8, ClosedClients DEF DisposeCopy
  <1>9. ASSUME NEW i \in DOMAIN Given, CloseOwn(i) PROVE i = k
    BY <1>9 DEF CloseOwn
  <1>10. CASE UNCHANGED vars
    BY <1>10 DEF vars, connections
  <1> QED BY <1>1, <1>2, <1>3, <1>4, <1>5, <1>6, <1>7, <1>8, <1>9, <1>10 DEF Next

\* IInv is an invariant: it holds at the start and every step keeps it.
THEOREM Invariance == Spec => []IInv
  BY InitIInv, NextIInv, PTL DEF Spec

\* Types: every account in the cache was made by the manager, and only derived
\* signers are numbered (wallet-manager-btc.js).
THEOREM TypeCorrect == Spec => []TypeOK
  BY Invariance, PTL DEF IInv

\* A signer the caller supplied loses its key by the caller's own dispose only,
\* through any number of accounts, calls and disposes (wallet-manager-btc.js
\* dispose, wallet-account-btc.js dispose).
THEOREM ForeignSignersAreKept == Spec => []ForeignSignersKept
  BY Invariance, PTL DEF IInv

\* A connection of the manager's own that is open after its dispose() is of a
\* client whose connect() was awaited at that moment or called afterwards, for
\* any list of clients (wallet-manager-btc.js dispose, _isExternalClient).
THEOREM NothingLeftOpen == Spec => []DisposedLeavesNoConnection
  BY Invariance, PTL DEF IInv, Connections

\* No dispose of an account or a copy closes a connection, and no dispose at all
\* one of the caller's (wallet-account-read-only-btc.js dispose and
\* _isExternalClient, wallet-account-btc.js toReadOnlyAccount).
THEOREM OwnersClose == Spec => OnlyOwnersClose
  <1> DEFINE A == \A i \in open \ open' :
                    \/ CloseOwn(i)
                    \/ i \notin External /\ \E c \in Callers : Dispose(c)
  <1>1. IInv /\ [Next]_vars => [A]_vars
    BY ClosedByOwner
  <1> QED BY <1>1, Invariance, PTL DEF Spec, OnlyOwnersClose

----------------------------------------------------------------------------
(* What the manager promises a user that awaits each call before the next:  *)
(* a key is derived once, and none is left after dispose().  With two       *)
(* callers neither holds (run manager_dispose), and the step that fails is  *)
(* Unseen: the key of a pending call is not yet in the cache when it is     *)
(* stored.  That the account returned is the one asked for needs no such    *)
(* hypothesis.                                                              *)


\* The account a pending call will make is not in the cache, and a disposed
\* manager has none pending for its default signer, whose key is gone.
Unseen ==
    \A c \in Callers : call[c] # None => KeyOf(call[c].request) \notin DOMAIN cache

DefaultGone ==
    FromSeed /\ disposed =>
        /\ Default \notin alive
        /\ \A c \in Callers : call[c] # None => call[c].request.signer # Default

\* An account that owns a key and has left the cache has lost the key.
KeysCached ==
    /\ \A a \in accounts : a.request.overload = "path" => a.owned
    /\ \A a \in accounts : a.owned /\ a \notin CachedAccounts => a.signer \notin alive

\* Until dispose(), every request that was served has its place in the cache.
Indexed == ~disposed => \A a \in accounts : KeyOf(a.request) \in DOMAIN cache

\* The inductive invariant for one caller.
Tidy ==
    /\ Unseen /\ DefaultGone /\ KeysCached /\ Indexed
    /\ DisposedHoldsNoKey /\ DerivedOnce

\* Storing under a key that is not there only adds.
LEMMA StoreAdds ==
  ASSUME NEW r, KeyOf(r) \notin DOMAIN cache, NEW a, cache' = Store(r, a)
  PROVE  /\ CachedAccounts' = CachedAccounts \cup {a}
         /\ DOMAIN cache' = DOMAIN cache \cup {KeyOf(r)}
  <1>1. DOMAIN cache' = DOMAIN cache \cup {KeyOf(r)}
    BY DEF Store
  <1>2. /\ cache'[KeyOf(r)] = a
        /\ \A k \in DOMAIN cache : cache'[k] = cache[k]
    BY DEF Store
  <1> QED BY <1>1, <1>2 DEF CachedAccounts

LEMMA InitTidy == Init => Tidy
  BY DEF Init, Tidy, Unseen, DefaultGone, KeysCached, Indexed, DisposedHoldsNoKey,
         DerivedOnce

LEMMA GetAccountByNameTidy ==
  ASSUME NEW c \in Callers, Callers = {c}, IInv, Tidy,
         NEW r \in Request, GetAccountByName(c, r)
  PROVE  Tidy'
  <1> DEFINE a == [signer |-> r.signer, owned |-> OwnsItsSigner, request |-> r]
  <1>1. UNCHANGED <<alive, call, disposed>> /\ call[c] = None
    BY DEF GetAccountByName
  <1>2. Unseen' /\ DefaultGone'
    BY <1>1 DEF Tidy, Unseen, DefaultGone
  <1>3. CASE UNCHANGED <<cache, accounts>>
    BY <1>1, <1>2, <1>3
       DEF Tidy, KeysCached, CachedAccounts, Indexed, DisposedHoldsNoKey, DerivedOnce
  <1>4. CASE /\ KeyOf(r) \notin DOMAIN cache
             /\ accounts' = accounts \cup {a}
             /\ cache' = Store(r, a)
    <2>1. /\ CachedAccounts' = CachedAccounts \cup {a}
          /\ DOMAIN cache' = DOMAIN cache \cup {KeyOf(r)}
      BY <1>4, StoreAdds
    <2>2. a.request = r /\ ~a.owned /\ r.overload = "name"
      BY DEF GetAccountByName, OwnsItsSigner
    <2>3. KeysCached'
      BY <1>1, <1>4, <2>1, <2>2 DEF Tidy, KeysCached
    <2>4. Indexed'
      BY <1>1, <1>4, <2>1, <2>2 DEF Tidy, Indexed
    <2>5. DisposedHoldsNoKey'
      BY <1>1, <1>4, <2>2 DEF Tidy, DisposedHoldsNoKey
    <2>6. DerivedOnce'
      BY <1>1, <1>4, <2>2 DEF Tidy, DerivedOnce, Indexed
    <2> QED BY <1>2, <2>3, <2>4, <2>5, <2>6 DEF Tidy
  <1> QED BY <1>3, <1>4 DEF GetAccountByName

LEMMA GetAccountByPathTidy ==
  ASSUME NEW c \in Callers, Callers = {c}, IInv, Tidy,
         NEW r \in Request, GetAccountByPath(c, r)
  PROVE  Tidy'
  <1>1. UNCHANGED <<cache, accounts, disposed>>
    BY DEF GetAccountByPath
  <1>2. Indexed' /\ DerivedOnce'
    BY <1>1 DEF Tidy, Indexed, DerivedOnce
  <1>3. CASE UNCHANGED <<alive, call>>
    BY <1>1, <1>2, <1>3
       DEF Tidy, Unseen, DefaultGone, KeysCached, CachedAccounts, DisposedHoldsNoKey
  <1>4. CASE /\ KeyOf(r) \notin DOMAIN cache
             /\ r.signer \in alive
             /\ derived' = derived + 1
             /\ alive' = alive \cup {derived'}
             /\ call' = [call EXCEPT ![c] = [request |-> r, child |-> derived']]
    <2>1. derived \in Nat /\ derived' \in Nat
      BY <1>4 DEF IInv, TypeOK
    <2>2. \A a \in accounts : a.owned => a.signer # derived'
      BY <1>4, <2>1 DEF IInv, OwnedAreDerived
    <2>3. call' = [call EXCEPT ![c] = [request |-> r, child |-> derived']]
            /\ call \in [Callers -> [request : Request, child : 1..MaxDerived] \cup {None}]
      BY <1>4 DEF IInv, TypeOK
    <2>4. call'[c].request = r
      BY <2>3
    <2>5. Unseen'
      BY <1>1, <1>4, <2>4 DEF Unseen, KeyOf
    <2>6. Default \in alive' => Default \in alive
      BY <1>4, <2>1, WalletManagerAssumption DEF Signers
    <2>7. DefaultGone'
      BY <1>1, <1>4, <2>4, <2>6 DEF Tidy, DefaultGone
    <2>8. KeysCached'
      BY <1>1, <1>4, <2>2 DEF Tidy, KeysCached, CachedAccounts
    <2>9. DisposedHoldsNoKey'
      BY <1>1, <1>4, <2>2 DEF Tidy, DisposedHoldsNoKey, KeysCached
    <2> QED BY <1>2, <2>5, <2>7, <2>8, <2>9 DEF Tidy
  <1> QED BY <1>3, <1>4 DEF GetAccountByPath

LEMMA FinishGetAccountTidy ==
  ASSUME NEW c \in Callers, Callers = {c}, IInv, Tidy, FinishGetAccount(c)
  PROVE  Tidy'
  <1> DEFINE r == call[c].request
             a == [signer |-> call[c].child, owned |-> TRUE, request |-> r]
  <1>1. /\ UNCHANGED <<alive, disposed>>
        /\ accounts' = accounts \cup {a}
        /\ cache' = Store(r, a)
        /\ call[c] # None
    BY DEF FinishGetAccount
  <1>2. call'[c] = None
    BY DEF FinishGetAccount, IInv, TypeOK
  <1>3. KeyOf(r) \notin DOMAIN cache
    BY <1>1 DEF Tidy, Unseen
  <1>4. /\ CachedAccounts' = CachedAccounts \cup {a}
        /\ DOMAIN cache' = DOMAIN cache \cup {KeyOf(r)}
    BY <1>1, <1>3, StoreAdds
  <1>5. a.request = r /\ a.owned
    OBVIOUS
  <1> HIDE DEF a, r
  <1>6. Unseen' /\ DefaultGone'
    BY <1>1, <1>2 DEF Tidy, Unseen, DefaultGone
  <1>7. KeysCached'
    BY <1>1, <1>4, <1>5 DEF Tidy, KeysCached
  <1>8. Indexed'
    BY <1>1, <1>4, <1>5 DEF Tidy, Indexed
  <1>9. DisposedHoldsNoKey'
    <2>1. FromSeed /\ disposed => r.signer # Default
      BY <1>1 DEF Tidy, DefaultGone, r
    <2> QED BY <1>1, <1>5, <2>1 DEF Tidy, DisposedHoldsNoKey
  <1>10. DerivedOnce'
    BY <1>1, <1>3, <1>5 DEF Tidy, DerivedOnce, Indexed
  <1> QED BY <1>6, <1>7, <1>8, <1>9, <1>10 DEF Tidy

\* dispose() erases what the cache holds, which is every key still owned.
LEMMA DisposeTidy ==
  ASSUME NEW c \in Callers, Callers = {c}, IInv, Tidy, Dispose(c)
  PROVE  Tidy'
  <1>1. /\ disposed' /\ call[c] = None /\ UNCHANGED <<accounts, call>>
        /\ alive' = alive \ (ErasedByManager \cup ErasedBy(CachedAccounts))
    BY DEF Dispose
  <1>2. FromSeed => Default \notin alive'
    BY <1>1 DEF ErasedByManager
  <1>3. \A a \in accounts : a.owned => a.signer \notin alive'
    BY <1>1 DEF Tidy, KeysCached, ErasedBy
  <1>4. Unseen' /\ DefaultGone' /\ Indexed' /\ DerivedOnce'
    BY <1>1, <1>2 DEF Unseen, DefaultGone, Indexed, DerivedOnce
  <1>5. KeysCached' /\ DisposedHoldsNoKey'
    BY <1>1, <1>3 DEF Tidy, KeysCached, DisposedHoldsNoKey
  <1> QED BY <1>4, <1>5 DEF Tidy

\* The other steps touch neither cache nor accounts nor calls, and erase at most.
LEMMA OthersTidy ==
  ASSUME Tidy, UNCHANGED <<cache, accounts, call, disposed>>, alive' \subseteq alive
  PROVE  Tidy'
  <1>1. Unseen' /\ DefaultGone'
    BY DEF Tidy, Unseen, DefaultGone
  <1>2. KeysCached'
    BY DEF Tidy, KeysCached, CachedAccounts
  <1>3. Indexed' /\ DisposedHoldsNoKey' /\ DerivedOnce'
    BY DEF Tidy, Indexed, DisposedHoldsNoKey, DerivedOnce
  <1> QED BY <1>1, <1>2, <1>3 DEF Tidy

LEMMA NextTidy ==
  ASSUME NEW c, Callers = {c}, IInv, Tidy, [Next]_vars PROVE Tidy'
  <1>0. c \in Callers
    OBVIOUS
  <1>1. ASSUME NEW n \in Names, AddSigner(n) PROVE Tidy'
    BY <1>1, OthersTidy DEF AddSigner
  <1>2. ASSUME NEW r \in Request, GetAccountByName(c, r) PROVE Tidy'
    BY <1>0, <1>2, GetAccountByNameTidy
  <1>3. ASSUME NEW r \in Request, GetAccountByPath(c, r) PROVE Tidy'
    BY <1>0, <1>3, GetAccountByPathTidy
  <1>4. ASSUME FinishGetAccount(c) PROVE Tidy'
    BY <1>0, <1>4, FinishGetAccountTidy
  <1>5. ASSUME Dispose(c) PROVE Tidy'
    BY <1>0, <1>5, DisposeTidy
  <1>6. ASSUME NEW a \in accounts, DisposeAccount(a) PROVE Tidy'
    BY <1>6, OthersTidy DEF DisposeAccount
  <1>7. ASSUME NEW s \in Signers, WipeSigner(s) PROVE Tidy'
    BY <1>7, OthersTidy DEF WipeSigner
  <1>8. ASSUME NEW i \in DOMAIN Given,
               Use(i) \/ Connected(i) \/ DisposeCopy(i) \/ CloseOwn(i)
        PROVE  Tidy'
    BY <1>8, OthersTidy DEF Use, Connected, DisposeCopy, CloseOwn, keys
  <1>9. CASE UNCHANGED vars
    BY <1>9, OthersTidy DEF vars, keys
  <1> QED BY <1>1, <1>2, <1>3, <1>4, <1>5, <1>6, <1>7, <1>8, <1>9 DEF Next

LEMMA AlwaysTidy ==
  ASSUME NEW c, Callers = {c} PROVE Spec => []Tidy
  <1>1. IInv /\ Tidy /\ [Next]_vars => Tidy'
    BY NextTidy
  <1> QED BY <1>1, InitTidy, Invariance, PTL DEF Spec

\* After dispose() of a manager made from a seed, no account ever made from its
\* default signer can sign, if its user awaits each call (wallet-manager-btc.js
\* dispose, getAccountByPath).
THEOREM NoKeyLeft ==
  ASSUME NEW c, Callers = {c} PROVE Spec => []DisposedHoldsNoKey
  <1>1. Tidy => DisposedHoldsNoKey
    BY DEF Tidy
  <1> QED BY <1>1, AlwaysTidy, PTL

\* Until dispose(), the same request gives the same account, for a user that
\* awaits each call (wallet-manager-btc.js getAccount, getAccountByPath).
THEOREM OneAccountEach ==
  ASSUME NEW c, Callers = {c} PROVE Spec => []DerivedOnce
  <1>1. Tidy => DerivedOnce
    BY DEF Tidy
  <1> QED BY <1>1, AlwaysTidy, PTL

----------------------------------------------------------------------------
(* The account asked for, for any number of callers and any names *)

\* Every account in the cache is under the key of the request it was made for,
\* and a derived account was made for a valid path.
Valid(r) == r.overload = "path" => r.path \in Paths

Labelled ==
    /\ \A k \in DOMAIN cache : KeyOf(cache[k].request) = k
    /\ \A a \in accounts : Valid(a.request)
    /\ \A c \in Callers : call[c] # None => Valid(call[c].request)

\* Requests with one key are one, or one string by different routes: the colon
\* before a valid path ends the signer's name.
LEMMA KeysDiffer ==
  ASSUME NEW r \in Request, NEW t \in Request, Valid(t), KeyOf(r) = KeyOf(t)
  PROVE  r = t \/ SameString(r, t)
  <1> SUFFICES ASSUME r.overload = t.overload, Valid(r) PROVE r = t
    BY DEF SameString, Valid
  <1>1. CASE r.overload = "name"
    <2>1. r \in [overload : {"name"}, signer : Texts, path : {None}]
          /\ t \in [overload : {"name"}, signer : Texts, path : {None}]
      BY <1>1 DEF Request
    <2>2. r.signer = t.signer
      BY <1>1 DEF KeyOf
    <2> QED BY <2>1, <2>2
  <1>2. CASE r.overload = "path"
    <2>1. r \in [overload : {"path"}, signer : Texts \cup {Default}, path : Texts]
          /\ t \in [overload : {"path"}, signer : Texts \cup {Default}, path : Texts]
      BY <1>2 DEF Request
    <2>2. r.path \in Paths /\ t.path \in Paths
      BY <1>2 DEF Valid
    <2>3. /\ KeyOf(r) = IF r.signer = Default THEN r.path ELSE Composed[r.signer, r.path]
          /\ KeyOf(t) = IF t.signer = Default THEN t.path ELSE Composed[t.signer, t.path]
      BY <1>2 DEF KeyOf
    <2>4. r.signer = Default <=> t.signer = Default
      <3>1. ASSUME NEW u \in Texts, NEW p \in Texts
            PROVE  Composed[u, p] \notin Paths
        <4>1. <<u, p>> \in Texts \X Texts
          OBVIOUS
        <4> QED BY <4>1, ComposedAssumption, Zenon
      <3> QED BY <2>1, <2>2, <2>3, <3>1
    <2>5. ASSUME r.signer # Default PROVE r.signer = t.signer /\ r.path = t.path
      <3>1. r.signer \in Texts /\ t.signer \in Texts
        BY <2>1, <2>4, <2>5
      <3>2. Composed[r.signer, r.path] = Composed[t.signer, t.path]
        BY <2>3, <2>4, <2>5
      <3>3. <<r.signer, r.path>> \in Texts \X Paths /\ <<t.signer, t.path>> \in Texts \X Paths
        BY <2>2, <3>1
      <3>4. <<r.signer, r.path>> = <<t.signer, t.path>>
        BY <3>2, <3>3, ComposedAssumption
      <3> QED BY <3>4
    <2>6. r.signer = t.signer /\ r.path = t.path
      BY <2>3, <2>4, <2>5
    <2> QED BY <2>1, <2>6
  <1> QED BY <1>1, <1>2 DEF Request

LEMMA StoreLabels ==
  ASSUME Labelled, NEW r, NEW a, a.request = r, cache' = Store(r, a)
  PROVE  \A k \in DOMAIN cache' : KeyOf(cache'[k].request) = k
  BY Zenon DEF Labelled, Store, KeyOf

LEMMA NextLabelled ==
  ASSUME IInv, Labelled, [Next]_vars PROVE Labelled'
  <1>1. CASE UNCHANGED <<cache, accounts, call>>
    BY <1>1 DEF Labelled, KeyOf
  <1>2. ASSUME NEW c \in Callers, NEW r \in Request, GetAccountByName(c, r),
               ~(UNCHANGED <<cache, accounts, call>>)
        PROVE  Labelled'
    <2> DEFINE a == [signer |-> r.signer, owned |-> OwnsItsSigner, request |-> r]
    <2>1. /\ accounts' = accounts \cup {a} /\ cache' = Store(r, a)
          /\ call' = call
      BY <1>2 DEF GetAccountByName
    <2>2. Valid(r)
      BY <1>2 DEF GetAccountByName, Valid
    <2>3. a.request = r
      OBVIOUS
    <2> HIDE DEF a
    <2> QED BY <2>1, <2>2, <2>3, StoreLabels DEF Labelled
  <1>3. ASSUME NEW c \in Callers, FinishGetAccount(c) PROVE Labelled'
    <2> DEFINE r == call[c].request
               a == [signer |-> call[c].child, owned |-> TRUE, request |-> r]
    <2>1. accounts' = accounts \cup {a} /\ cache' = Store(r, a)
      BY <1>3 DEF FinishGetAccount
    <2>2. a.request = r
      OBVIOUS
    <2>3. Valid(r)
      BY <1>3 DEF FinishGetAccount, Labelled
    <2>4. call' = [call EXCEPT ![c] = None] /\ DOMAIN call = Callers
      BY <1>3 DEF FinishGetAccount, IInv, TypeOK
    <2>5. \A d \in Callers : call'[d] # None => Valid(call'[d].request)
      BY <2>4 DEF Labelled
    <2> HIDE DEF a, r
    <2> QED BY <2>1, <2>2, <2>3, <2>5, StoreLabels DEF Labelled
  <1>4. ASSUME NEW c \in Callers, Dispose(c) PROVE Labelled'
    BY <1>4 DEF Dispose, Labelled, KeyOf
  <1>5. ASSUME NEW c \in Callers, NEW r \in Request, GetAccountByPath(c, r) PROVE Labelled'
    <2>1. /\ cache' = cache /\ accounts' = accounts /\ DOMAIN call = Callers
          /\ \/ call' = call
             \/ /\ r.path \in Paths
                /\ call' = [call EXCEPT ![c] = [request |-> r, child |-> derived']]
      BY <1>5 DEF GetAccountByPath, IInv, TypeOK
    <2>2. \A d \in Callers : call'[d] # None => Valid(call'[d].request)
      BY <2>1 DEF Labelled, Valid
    <2> QED BY <2>1, <2>2 DEF Labelled, KeyOf
  <1> QED BY <1>1, <1>2, <1>3, <1>4, <1>5
          DEF Next, vars, keys, AddSigner, DisposeAccount, WipeSigner,
              Use, Connected, DisposeCopy, CloseOwn

LEMMA FoundIsAsked ==
  ASSUME IInv, Labelled, NEW c \in Callers, NEW r \in Request,
         GetAccountByName(c, r) \/ GetAccountByPath(c, r),
         got'[c] \notin {Failed, None}
  PROVE  got'[c].request = r \/ SameString(r, got'[c].request)
  <1>1. got \in [Callers -> accounts \cup {Failed, None}]
    BY DEF IInv, TypeOK
  <1>2. CASE KeyOf(r) \in DOMAIN cache /\ got'[c] = cache[KeyOf(r)]
    <2> DEFINE t == cache[KeyOf(r)].request
    <2>1. cache[KeyOf(r)] \in accounts
      BY <1>2 DEF IInv, TypeOK
    <2>2. t \in Request /\ Valid(t) /\ KeyOf(t) = KeyOf(r)
      BY <1>2, <2>1 DEF Labelled, IInv, TypeOK, Account
    <2>3. r = t \/ SameString(r, t)
      BY <2>2, KeysDiffer
    <2> QED BY <1>2, <2>3
  <1>3. CASE got'[c] = [signer |-> r.signer, owned |-> OwnsItsSigner, request |-> r]
    BY <1>3
  <1> QED BY <1>1, <1>2, <1>3 DEF GetAccountByName, GetAccountByPath

\* Whatever overlaps, and whatever strings are signer names, the account a call
\* finds or makes at once is the one asked for, but for a name that is a path or
\* a composed string, and a path that is none (wallet-manager-btc.js getAccount,
\* getAccountByPath: the key of the cache).
THEOREM AccountAskedFor == Spec => ReturnsWhatWasAsked
  <1> DEFINE A == \A c \in Callers, r \in Request :
                    (GetAccountByName(c, r) \/ GetAccountByPath(c, r))
                        /\ got'[c] \notin {Failed, None}
                    => got'[c].request = r \/ SameString(r, got'[c].request)
  <1>1. Init => Labelled
    BY DEF Init, Labelled
  <1>2. IInv /\ Labelled /\ [Next]_vars => Labelled'
    BY NextLabelled
  <1>3. IInv /\ Labelled /\ [Next]_vars => [A]_vars
    BY FoundIsAsked
  <1> QED BY <1>1, <1>2, <1>3, Invariance, PTL DEF Spec, ReturnsWhatWasAsked
=============================================================================
