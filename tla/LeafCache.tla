----------------------------- MODULE LeafCache -----------------------------
(***************************************************************************)
(* ca.LeafCache: the proxy's per-host leaf certificates.  Every CONNECT    *)
(* goroutine calls TLSConfig: a lookup under the lock, the mint outside    *)
(* it, then a second lookup and the insertion under the lock again, which  *)
(* evicts when the cache is full.                                          *)
(***************************************************************************)
EXTENDS Integers, FiniteSets

CONSTANTS
  Threads,      \* goroutines serving CONNECT
  Names,        \* r.Host as clients write it, with or without a port
  Hosts,        \* canonical hosts
  Canon,        \* canonicalHost, as a function
  EmptyHost,    \* the key "" that a name like ":443" has
  NoCert,       \* a config without certificate
  MaxEntries,   \* leafCacheMaxEntries
  Lifetime,     \* NotAfter is this long after minting
  MaxClock      \* bound: ticks of the clock

Certs == [host : Hosts, by : Threads, until : Nat]

ASSUME LeafCacheAssumption ==
  /\ NoCert \notin Certs
  /\ Canon \in [Names -> Hosts]
  /\ MaxEntries \in Nat \ {0}
  /\ Lifetime \in Nat \ {0}
  /\ MaxClock \in Nat

VARIABLES
  clock,        \* time.Now()
  lastUsed,     \* of an entry; 0 where the map has none
  leaf,         \* certificate of an entry
  at,           \* where each goroutine is in TLSConfig
  name,         \* its argument
  cfg           \* the certificate it minted, or returns

cacheVars == <<clock, lastUsed, leaf, at, name, cfg>>

Cached == {h \in Hosts : lastUsed[h] > 0}

CacheInit ==
  /\ clock = 1
  /\ lastUsed = [h \in Hosts |-> 0]
  /\ leaf = [h \in Hosts |-> NoCert]
  /\ at = [t \in Threads |-> "idle"]
  /\ name \in [Threads -> Names]
  /\ cfg = [t \in Threads |-> NoCert]

Tick ==
  /\ clock < MaxClock
  /\ clock' = clock + 1
  /\ UNCHANGED <<lastUsed, leaf, at, name, cfg>>

\* Mutant: the zero value of a missing entry is taken for a hit.
HitUnchecked(t, h) ==
  /\ lastUsed' = [lastUsed EXCEPT ![h] = clock]
  /\ cfg' = [cfg EXCEPT ![t] = leaf[h]]
  /\ at' = [at EXCEPT ![t] = "serve"]
  /\ UNCHANGED <<clock, leaf>>

\* A hit refreshes the entry and returns its config.
Hit(t, h) ==
  /\ h \in Cached
  /\ lastUsed' = [lastUsed EXCEPT ![h] = clock]
  /\ cfg' = [cfg EXCEPT ![t] = leaf[h]]
  /\ at' = [at EXCEPT ![t] = "serve"]
  /\ UNCHANGED <<clock, leaf>>

Lookup(t) ==
  /\ at[t] = "idle"
  /\ \E n \in Names :
       /\ name' = [name EXCEPT ![t] = n]
       /\ \/ Hit(t, Canon[n])
          \/ /\ Canon[n] \notin Cached
             /\ at' = [at EXCEPT ![t] = "mint"]
             /\ UNCHANGED <<clock, lastUsed, leaf, cfg>>

Mint(t) ==
  /\ at[t] = "mint"
  /\ cfg' = [cfg EXCEPT ![t] = [host |-> Canon[name[t]], by |-> t, until |-> clock + Lifetime]]
  /\ at' = [at EXCEPT ![t] = "insert"]
  /\ UNCHANGED <<clock, lastUsed, leaf, name>>

\* The mint failed: the handshake goes on without a certificate.
MintFails(t) ==
  /\ at[t] = "mint"
  /\ at' = [at EXCEPT ![t] = "serve"]
  /\ UNCHANGED <<clock, lastUsed, leaf, name, cfg>>

Oldest(S) == {h \in S : \A g \in S : lastUsed[h] <= lastUsed[g]}

\* What evictOldestLocked may delete.  It scans the map in any order and marks
\* "nothing found yet" with the key "": when the entry of that very key is the
\* oldest of the hosts P scanned before it, the scan starts over behind it.
Victims ==
  LET others == Cached \ {EmptyHost}
      after(P) == IF \A g \in P : lastUsed[EmptyHost] < lastUsed[g]
                  THEN others \ P ELSE others
  IN  IF EmptyHost \notin Cached THEN {{h} : h \in Oldest(Cached)}
      ELSE UNION {IF after(P) = {} THEN {{}} ELSE {{h} : h \in Oldest(after(P))} :
                    P \in SUBSET others}

Add(t, h, gone) ==
  /\ lastUsed' = [g \in Hosts |-> IF g = h THEN clock
                                  ELSE IF g \in gone THEN 0 ELSE lastUsed[g]]
  /\ leaf' = [g \in Hosts |-> IF g = h THEN cfg[t]
                              ELSE IF g \in gone THEN NoCert ELSE leaf[g]]

\* Mutant: no second lookup after the mint.
InsertBlindly(t) ==
  LET h == Canon[name[t]] IN
  /\ at[t] = "insert"
  /\ IF Cardinality(Cached) >= MaxEntries
     THEN \E gone \in Victims : Add(t, h, gone)
     ELSE Add(t, h, {})
  /\ at' = [at EXCEPT ![t] = "serve"]
  /\ UNCHANGED <<clock, cfg, name>>

\* Mutant: room is made only once the cache is over its limit.
InsertEvictsLate(t) ==
  LET h == Canon[name[t]] IN
  /\ at[t] = "insert"
  /\ \/ Hit(t, h)
     \/ /\ h \notin Cached
        /\ IF Cardinality(Cached) > MaxEntries
           THEN \E gone \in Victims : Add(t, h, gone)
           ELSE Add(t, h, {})
        /\ at' = [at EXCEPT ![t] = "serve"]
        /\ UNCHANGED <<clock, cfg>>
  /\ UNCHANGED name

\* Back under the lock: another goroutine may have inserted the host meanwhile.
Insert(t) ==
  LET h == Canon[name[t]] IN
  /\ at[t] = "insert"
  /\ \/ Hit(t, h)
     \/ /\ h \notin Cached
        /\ IF Cardinality(Cached) >= MaxEntries
           THEN \E gone \in Victims : Add(t, h, gone)
           ELSE Add(t, h, {})
        /\ at' = [at EXCEPT ![t] = "serve"]
        /\ UNCHANGED <<clock, cfg>>
  /\ UNCHANGED name

\* The handshake with the config, and the end of the connection.
Serve(t) ==
  /\ at[t] = "serve"
  /\ at' = [at EXCEPT ![t] = "idle"]
  /\ cfg' = [cfg EXCEPT ![t] = NoCert]
  /\ UNCHANGED <<clock, lastUsed, leaf, name>>

CacheNext ==
  \/ Tick
  \/ \E t \in Threads : Lookup(t) \/ Mint(t) \/ MintFails(t) \/ Insert(t) \/ Serve(t)

CacheSpec == CacheInit /\ [][CacheNext]_cacheVars

-----------------------------------------------------------------------------
CacheTypeOK ==
  /\ clock \in Nat \ {0}
  /\ lastUsed \in [Hosts -> Nat]
  /\ leaf \in [Hosts -> Certs \cup {NoCert}]
  /\ at \in [Threads -> {"idle", "mint", "insert", "serve"}]
  /\ name \in [Threads -> Names]
  /\ cfg \in [Threads -> Certs \cup {NoCert}]

\* "leafCacheMaxEntries bounds the per-host leaf cache" (ca.go:291).
Bounded == Cardinality(Cached) <= MaxEntries

\* However many goroutines mint at once, the cache holds no more leaves than that
\* until the key "" is in it, of a client that asked for ":443" or for ".".  From
\* then on an insertion into the full cache may evict nothing: Bounded is false.
BoundedWhileNamed == EmptyHost \notin Cached => Bounded

\* The certificate a handshake uses is for the host its client asked for, also
\* when another goroutine minted it, and an entry holds a leaf of its own host.
RightHost ==
  /\ \A t \in Threads : cfg[t] # NoCert => cfg[t].host = Canon[name[t]]
  /\ \A h \in Hosts : IF h \in Cached THEN leaf[h] # NoCert /\ leaf[h].host = h
                                      ELSE leaf[h] = NoCert

\* A goroutine holds a certificate from the mint to the end of the handshake.
Holding ==
  \A t \in Threads : /\ at[t] \in {"idle", "mint"} => cfg[t] = NoCert
                     /\ at[t] = "insert" => cfg[t] # NoCert

\* The part that is inductive whatever the eviction does.
HostInv == CacheTypeOK /\ RightHost /\ Holding

\* Of goroutines that mint the same host at once one wins: while an entry is
\* in the cache its leaf is never replaced, so clients keep seeing one key.
LeafStable ==
  [][\A h \in Cached : h \in Cached' => leaf'[h] = leaf[h]]_cacheVars
=============================================================================
