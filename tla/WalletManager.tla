---------------------------- MODULE WalletManager ----------------------------
(***************************************************************************)
(* The wallet manager (wallet-manager-btc.js) as the keeper of keys: its   *)
(* cache of accounts, the signers it derives and those it was given, and   *)
(* what a dispose erases.  Calls of getAccount may overlap: deriving the   *)
(* child signer is awaited between the look in the cache and the store.    *)
(*                                                                         *)
(* A private key is in memory while its signer is in alive.  Derived       *)
(* signers are numbered.  Signer names, derivation paths and the keys made *)
(* of both are strings of one table, so a name may be any of them.         *)
(*                                                                         *)
(* The manager is also the keeper of connections: it makes a client from   *)
(* each descriptor it is given and shares all of its clients with its      *)
(* accounts, and they share theirs with their read-only copies.            *)
(***************************************************************************)
EXTENDS Integers, Sequences

CONSTANTS
    Callers,        \* users of the manager, one call each at a time
    Default,        \* the default signer
    Texts,          \* the strings that callers pass
    Names,          \* those that are signer names, each the name of one signer
    Paths,          \* those that are valid derivation paths
    Composed,       \* the string `${name}:${path}` of each two
    Derivable,      \* the signers that support derivation
    FromSeed,       \* the manager was made from a seed, not from a signer
    MaxDerived,     \* bound: signers ever derived
    Given,          \* config.client, a list: "instance" or "descriptor" each
    Failed,         \* a call that throws
    None

Signers == Names \cup {Default}

ASSUME WalletManagerAssumption ==
    /\ Names \subseteq Texts /\ Paths \subseteq Texts
    /\ Default \notin Texts /\ Derivable \subseteq Signers
    /\ FromSeed \in BOOLEAN /\ MaxDerived \in Nat
    /\ Signers \cap Nat = {}
    /\ Given \in Seq({"instance", "descriptor"})

\* A valid path holds no colon: before a path the last colon ends the name, and
\* no string with a colon is a path.  A name may hold colons, and be a path or
\* a composed string itself.
ASSUME ComposedAssumption ==
    /\ DOMAIN Composed = Texts \X Texts
    /\ \A u, v \in Texts \X Paths : Composed[u] = Composed[v] => u = v
    /\ \A u \in Texts \X Texts : Composed[u] \notin Paths

\* getAccount(name), and getAccountByPath(path, { signerName }), to which
\* getAccount(index) comes down, with whatever strings.
Request ==
    [overload : {"name"}, signer : Texts, path : {None}]
        \cup [overload : {"path"}, signer : Texts \cup {Default}, path : Texts]

VARIABLES
    registered, \* names given to addSigner
    cache,      \* _accounts: key -> account
    accounts,   \* every account made: its signer, whether it owns it, its request
    alive,      \* signers whose private key is in memory
    derived,    \* how many signers were derived
    call,       \* the request each caller awaits, with the child derived for it
    got,        \* what its last call gave: an account, Failed or None
    disposed,   \* the manager has been disposed
    wiped,      \* history: signers their owner disposed of
    open,       \* the clients, by their place in Given, with a connection
    awaited,    \* the clients whose connect() some operation awaits
    late        \* history: those awaited at the last dispose(), or used since

keys        == <<registered, cache, accounts, alive, derived, call, got, disposed, wiped>>
connections == <<open, awaited, late>>
vars        == <<keys, connections>>

Init ==
    /\ registered = {}
    /\ cache = [k \in {} |-> None]
    /\ accounts = {}
    /\ alive = Signers
    /\ derived = 0
    /\ call = [c \in Callers |-> None]
    /\ got = [c \in Callers |-> None]
    /\ disposed = FALSE
    /\ wiped = {}
    /\ open = {} /\ awaited = {} /\ late = {}

\* The signers their owner, the caller, must dispose of.
Foreign == IF FromSeed THEN Names ELSE Signers

\* Faulty variant: the signer's name is left out of the key.
KeyByPath(r) == IF r.overload = "name" THEN r.signer ELSE r.path

\* The key of the cache.
KeyOf(r) ==
    CASE r.overload = "name"  -> r.signer
      [] r.overload = "path" /\ r.signer = Default -> r.path
      [] OTHER -> Composed[r.signer, r.path]

----------------------------------------------------------------------------
(* Clients *)

\* _createClient: an instance is taken as it is, a descriptor becomes one.
CreateClient(entry) == IF entry = "descriptor" THEN "instance" ELSE entry

\* The _clientList of an object with this config.client.
Created(list) == [i \in DOMAIN list |-> CreateClient(list[i])]

\* Faulty variants: no client is taken for the caller's; a list is taken for one.
NeverExternal(list) == [i \in DOMAIN list |-> FALSE]
OneClient(list) == [i \in {1} |-> list[1] = "instance"]

\* _isExternalClient: the entries of config.client that had connect() already.
IsExternalClient(list) == [i \in DOMAIN list |-> list[i] = "instance"]

\* The clients dispose() closes, of an object whose config.client is this list.
Closed(list) == {i \in DOMAIN IsExternalClient(list) : ~IsExternalClient(list)[i]}

\* client: this._clientList, in the configuration of every account.
AccountList == Created(Given)

\* client: this._client, in the configuration of an account's read-only copy.
CopyList == <<"instance">>

External == {i \in DOMAIN Given : Given[i] = "instance"}

\* Any operation of an account or of its copy first awaits connect() of the
\* client that the failover provider, if there are several, is on.
Use(i) ==
    /\ accounts # {}
    /\ awaited' = awaited \cup {i}
    /\ late' = IF disposed THEN late \cup {i} ELSE late
    /\ UNCHANGED <<keys, open>>

\* It has connected or failed, whatever was closed meanwhile; others may still
\* await the same client.
Connected(i) ==
    /\ i \in awaited
    /\ open' \in {open, open \cup {i}}
    /\ awaited' \in {awaited, awaited \ {i}}
    /\ UNCHANGED <<keys, late>>

\* dispose() of a read-only copy, whose client i is the account's.
DisposeCopy(i) ==
    /\ accounts # {}
    /\ open' = open \ {i : j \in Closed(CopyList)}
    /\ UNCHANGED <<keys, awaited, late>>

\* The caller closes a client it made.
CloseOwn(i) ==
    /\ i \in External
    /\ open' = open \ {i}
    /\ UNCHANGED <<keys, awaited, late>>

----------------------------------------------------------------------------
\* addSigner(name, signer), of the base class (external).
AddSigner(n) ==
    /\ n \notin registered
    /\ registered' = registered \cup {n}
    /\ UNCHANGED <<cache, accounts, alive, derived, call, got, disposed, wiped,
                   connections>>

\* getSigner(name), of the base class (external), throws for other names.
Known(s) == s = Default \/ s \in registered

\* Faulty variants: an account is cached under no key; an account made for a
\* signer of the caller's owns it; the option left out is not made a boolean.
Forget(r, account) == cache

OwnsNamed == TRUE

OwnsRaw == None

Store(r, account) ==
    [k \in DOMAIN cache \cup {KeyOf(r)} |-> IF k = KeyOf(r) THEN account ELSE cache[k]]

OwnsItsSigner == FALSE

\* getAccount(name): runs without awaiting anything.
GetAccountByName(c, r) ==
    LET account == [signer |-> r.signer, owned |-> OwnsItsSigner, request |-> r]
    IN  /\ call[c] = None /\ r.overload = "name"
        /\ \/ /\ KeyOf(r) \in DOMAIN cache
              /\ got' = [got EXCEPT ![c] = cache[KeyOf(r)]]
              /\ UNCHANGED <<cache, accounts>>
           \/ /\ KeyOf(r) \notin DOMAIN cache
              /\ ~Known(r.signer)
              /\ got' = [got EXCEPT ![c] = Failed]
              /\ UNCHANGED <<cache, accounts>>
           \/ /\ KeyOf(r) \notin DOMAIN cache
              /\ Known(r.signer)
              /\ accounts' = accounts \cup {account}
              /\ cache' = Store(r, account)
              /\ got' = [got EXCEPT ![c] = account]
        /\ UNCHANGED <<registered, alive, derived, call, disposed, wiped, connections>>

\* getAccountByPath up to the await: the child's key exists already.
GetAccountByPath(c, r) ==
    /\ call[c] = None /\ r.overload = "path"
    /\ \/ /\ KeyOf(r) \in DOMAIN cache
          /\ got' = [got EXCEPT ![c] = cache[KeyOf(r)]]
          /\ UNCHANGED <<alive, derived, call>>
       \/ /\ KeyOf(r) \notin DOMAIN cache
          /\ \/ ~Known(r.signer) \/ r.signer \notin Derivable \cap alive
             \/ r.path \notin Paths
          /\ got' = [got EXCEPT ![c] = Failed]
          /\ UNCHANGED <<alive, derived, call>>
       \/ /\ KeyOf(r) \notin DOMAIN cache
          /\ Known(r.signer) /\ r.signer \in Derivable \cap alive /\ r.path \in Paths
          /\ derived < MaxDerived
          /\ derived' = derived + 1
          /\ alive' = alive \cup {derived'}
          /\ call' = [call EXCEPT ![c] = [request |-> r, child |-> derived']]
          /\ got' = [got EXCEPT ![c] = None]
    /\ UNCHANGED <<registered, cache, accounts, disposed, wiped, connections>>

\* getAccountByPath after the await: stored without looking again.
FinishGetAccount(c) ==
    /\ call[c] # None
    /\ LET r == call[c].request
           account == [signer |-> call[c].child, owned |-> TRUE, request |-> r]
       IN  /\ accounts' = accounts \cup {account}
           /\ cache' = Store(r, account)
           /\ got' = [got EXCEPT ![c] = account]
    /\ call' = [call EXCEPT ![c] = None]
    /\ UNCHANGED <<registered, alive, derived, disposed, wiped, connections>>

\* The signers the dispose of these accounts erases.
ErasedBy(as) == {a.signer : a \in {b \in as : b.owned}}

\* account.dispose().
DisposeAccount(a) ==
    /\ alive' = alive \ ErasedBy({a})
    /\ open' = open \ Closed(AccountList)
    /\ UNCHANGED <<registered, cache, accounts, derived, call, got, disposed, wiped,
                   awaited, late>>

\* The owner of a signer disposes of it.
WipeSigner(s) ==
    /\ s \in Foreign
    /\ alive' = alive \ {s}
    /\ wiped' = wiped \cup {s}
    /\ UNCHANGED <<registered, cache, accounts, derived, call, got, disposed, connections>>

ErasedByManager == IF FromSeed THEN {Default} ELSE {}

\* Faulty variant: the accounts are not disposed of.
NoAccounts == {}

CachedAccounts == {cache[k] : k \in DOMAIN cache}

\* dispose(): its own clients, the default signer when it was made from a seed,
\* then every cached account (super.dispose); whether the base class then
\* empties the cache is left open.
Dispose(c) ==
    /\ call[c] = None
    /\ disposed' = TRUE
    /\ open' = open \ Closed(Given)
    /\ late' = awaited
    /\ alive' = alive \ (ErasedByManager \cup ErasedBy(CachedAccounts))
    /\ cache' \in {cache, [k \in {} |-> None]}
    /\ got' = [got EXCEPT ![c] = None]
    /\ UNCHANGED <<registered, accounts, derived, call, wiped, awaited>>

Next ==
    \/ \E n \in Names : AddSigner(n)
    \/ \E c \in Callers : \/ \E r \in Request : \/ GetAccountByName(c, r)
                                                \/ GetAccountByPath(c, r)
                          \/ FinishGetAccount(c)
                          \/ Dispose(c)
    \/ \E a \in accounts : DisposeAccount(a)
    \/ \E s \in Signers : WipeSigner(s)
    \/ \E i \in DOMAIN Given : \/ Use(i) \/ Connected(i)
                            \/ DisposeCopy(i) \/ CloseOwn(i)

Spec == Init /\ [][Next]_vars

----------------------------------------------------------------------------
(* Properties *)

Account == [signer : Signers \cup (1..MaxDerived), owned : BOOLEAN, request : Request]

\* Every variable has its type; only derived signers are numbered.
TypeOK ==
    /\ registered \subseteq Names
    /\ \A k \in DOMAIN cache : cache[k] \in accounts
    /\ accounts \subseteq Account
    /\ alive \subseteq Signers \cup (1..derived)
    /\ derived \in 0..MaxDerived
    /\ call \in [Callers -> [request : Request, child : 1..MaxDerived] \cup {None}]
    /\ got \in [Callers -> accounts \cup {Failed, None}]
    /\ disposed \in BOOLEAN
    /\ wiped \subseteq Signers
    /\ open \subseteq DOMAIN Given
    /\ awaited \subseteq DOMAIN Given /\ late \subseteq DOMAIN Given

\* A signer the caller supplied, as the default or under a name, loses its key
\* only when the caller disposes of it: no dispose of an account or of the
\* manager reaches it, through whatever accounts were made from it.
ForeignSignersKept == Foreign \ alive \subseteq wiped

\* A disposed manager made from a seed leaves no key: no account it ever made
\* from its default signer can still sign.
DisposedHoldsNoKey ==
    FromSeed /\ disposed =>
        \A a \in accounts :
            a.request.overload = "path" /\ a.request.signer = Default
                => a.signer \notin alive

\* Two requests that are one string in the table: a name and a path; or a path
\* that is none, which the other request's name ends.
SameString(r, t) ==
    /\ KeyOf(r) = KeyOf(t)
    /\ r.overload # t.overload \/ (r.overload = "path" /\ r.path \notin Paths)

\* Whatever strings are passed, and whatever names signers have, an account made
\* for one request answers another only if the two are the same string: two
\* names, or two signers' valid paths, are never taken for each other.
ReturnsWhatWasAsked ==
    [][\A c \in Callers, r \in Request :
            (GetAccountByName(c, r) \/ GetAccountByPath(c, r))
                /\ got'[c] \notin {Failed, None}
            => got'[c].request = r \/ SameString(r, got'[c].request)]_vars

\* A connection is closed by its owner alone: a client the caller passed by the
\* caller's close(), one the manager made by the manager's dispose(). An account
\* or a copy that is disposed of cuts nobody off, whatever mix of the two the
\* list is and whichever of its clients the failover provider is on.
OnlyOwnersClose ==
    [][\A i \in open \ open' :
            \/ CloseOwn(i)
            \/ i \notin External /\ \E c \in Callers : Dispose(c)]_vars

\* A manager disposed of leaves no connection of its own, but of a client whose
\* connect() an operation awaited when it was disposed of, or that an operation
\* was called on afterwards: those may connect after the close.
DisposedLeavesNoConnection == disposed => open \subseteq External \cup late

\* Calls one after the other return the same account for the same request until
\* the manager is disposed: a key is derived only once.
DerivedOnce ==
    \A a, b \in accounts : ~disposed /\ a.request = b.request => a = b
=============================================================================
