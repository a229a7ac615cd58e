------------------------------ MODULE TileCache ------------------------------
(***************************************************************************)
(* The coloured radar tiles of the browser: fetchColorizedTile of          *)
(* assets/js/hooks/maplibre_map.js, the handler of the protocol the radar  *)
(* source's URLs have.  A tile that has been coloured is kept in a Map,    *)
(* whose keys the language keeps in the order of their insertion, and a    *)
(* tile that is being fetched is fetched once for all who ask for it.      *)
(***************************************************************************)
EXTENDS Integers, Sequences, FiniteSets, SequencesExt

CONSTANTS
  Url,        \* the URLs of tiles
  Request,    \* the requests the map library may have open at a time
  CacheMax,   \* TILE_CACHE_MAX
  None

VARIABLES
  tileCache,     \* the keys of tileCache, the one to be evicted first in front
  tileInFlight,  \* the keys of tileInFlight
  running,       \* running[u]: fetches of u under way
  waiting,       \* waiting[r]: the tile request r waits for, or None
  used           \* history: the tiles used, each once, the last one at the end

cacheVars == <<tileCache, tileInFlight, running, waiting, used>>

CacheInit ==
  /\ tileCache = <<>> /\ used = <<>>
  /\ tileInFlight = {}
  /\ running = [u \in Url |-> 0]
  /\ waiting = [r \in Request |-> None]

Cached == ToSet(tileCache)

\* Map.set: a new key goes to the end, a key that is there keeps its place.
MapSet(keys, u) == IF u \in ToSet(keys) THEN keys ELSE Append(keys, u)

MapDelete(keys, u) ==
  IF u \in ToSet(keys)
  THEN RemoveAt(keys, CHOOSE i \in DOMAIN keys : keys[i] = u)
  ELSE keys

Touch(u) == used' = Append(MapDelete(used, u), u)

-----------------------------------------------------------------------------

HitInPlace(r, u) ==
  /\ u \in Cached
  /\ Touch(u)
  /\ UNCHANGED <<tileCache, tileInFlight, running, waiting>>

Hit(r, u) ==
  /\ u \in Cached
  /\ tileCache' = MapSet(MapDelete(tileCache, u), u)
  /\ Touch(u)
  /\ UNCHANGED <<tileInFlight, running, waiting>>

Join(r, u) ==
  /\ u \notin Cached /\ u \in tileInFlight
  /\ waiting' = [waiting EXCEPT ![r] = u]
  /\ UNCHANGED <<tileCache, tileInFlight, running, used>>

Start(r, u) ==
  /\ u \notin Cached /\ u \notin tileInFlight
  /\ tileInFlight' = tileInFlight \cup {u}
  /\ running' = [running EXCEPT ![u] = @ + 1]
  /\ waiting' = [waiting EXCEPT ![r] = u]
  /\ UNCHANGED <<tileCache, used>>

\* The library asks for a tile.
FetchColorizedTile(r, u) ==
  /\ waiting[r] = None
  /\ Hit(r, u) \/ Join(r, u) \/ Start(r, u)

\* The tile has come and is coloured.
Colorized(u) ==
  /\ running[u] > 0
  /\ running' = [running EXCEPT ![u] = @ - 1]
  /\ tileCache' =
       MapSet(IF Len(tileCache) >= CacheMax THEN Tail(tileCache) ELSE tileCache, u)
  /\ Touch(u)
  /\ UNCHANGED <<tileInFlight, waiting>>

\* The URL is malformed, the network fails or the tile does not exist.
FetchFails(u) ==
  /\ running[u] > 0
  /\ running' = [running EXCEPT ![u] = @ - 1]
  /\ UNCHANGED <<tileCache, tileInFlight, waiting, used>>

SettledIfColorized(u) ==
  /\ u \in tileInFlight /\ running[u] = 0 /\ u \in Cached
  /\ tileInFlight' = tileInFlight \ {u}
  /\ waiting' = [r \in Request |-> IF waiting[r] = u THEN None ELSE waiting[r]]
  /\ UNCHANGED <<tileCache, running, used>>

\* The promise of the fetch is settled: `finally' forgets it, and everyone
\* who waits for it goes on.
Settled(u) ==
  /\ u \in tileInFlight /\ running[u] = 0
  /\ tileInFlight' = tileInFlight \ {u}
  /\ waiting' = [r \in Request |-> IF waiting[r] = u THEN None ELSE waiting[r]]
  /\ UNCHANGED <<tileCache, running, used>>

FetchEnds(u) == Colorized(u) \/ FetchFails(u)

CacheNext ==
  \/ \E r \in Request, u \in Url : FetchColorizedTile(r, u)
  \/ \E u \in Url : FetchEnds(u) \/ Settled(u)

\* The network answers or fails, and promises are settled.
CacheFairness == \A u \in Url : WF_cacheVars(FetchEnds(u)) /\ WF_cacheVars(Settled(u))

CacheSpec == CacheInit /\ [][CacheNext]_cacheVars /\ CacheFairness

-----------------------------------------------------------------------------

CacheTypeOK ==
  /\ tileCache \in Seq(Url) /\ used \in Seq(Url)
  /\ tileInFlight \subseteq Url
  /\ running \in [Url -> Nat]
  /\ waiting \in [Request -> Url \cup {None}]

(* The cache never holds more than CacheMax tiles, and what it holds are   *)
(* exactly the tiles used last, in the order of their use: evicting in the *)
(* order of the keys is evicting the least recently used.                  *)
HoldsLastUsed ==
  tileCache = SubSeq(used, Len(used) - Len(tileCache) + 1, Len(used))
    /\ Len(tileCache) = IF Len(used) < CacheMax THEN Len(used) ELSE CacheMax

(* A tile is fetched once at a time, and never while it is in the cache:   *)
(* no order of requests, answers and evictions asks the network twice for  *)
(* what is coming or there already.                                        *)
OneFetch == \A u \in Url : running[u] > 0 =>
  running[u] = 1 /\ u \in tileInFlight /\ u \notin Cached

(* Whoever asks for a tile gets an answer, if only that the fetch failed,  *)
(* also who joined the fetch of another request and whose tile was evicted *)
(* before the answer came.                                                 *)
Answered == \A r \in Request : waiting[r] # None ~> waiting[r] = None
=============================================================================
