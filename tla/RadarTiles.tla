----------------------------- MODULE RadarTiles ------------------------------
(***************************************************************************)
(* The radar layer of the map and the tiles drawn on it: the map library   *)
(* asks the protocol handler for tiles of the URLs its radar source has at *)
(* the moment.  A change of the source leaves the fetches it began to      *)
(* their end.  (One tile of a frame stands for all of them.)               *)
(***************************************************************************)
EXTENDS Naturals

CONSTANTS Product, Time, Request, CacheMax, None

VARIABLES map, tileCache, tileInFlight, running, waiting, used

Frames == [product : Product, time : Time]

ASSUME TilesAssumption == CacheMax \in Nat \ {0} /\ None \notin Product \cup Time \cup Frames

Map == INSTANCE RadarMap
Tiles == INSTANCE TileCache WITH Url <- Frames

tileVars == <<tileCache, tileInFlight, running, waiting, used>>
vars == <<map, tileVars>>

Init == Map!MapInit /\ Tiles!CacheInit

MapStep == Map!MapNext /\ UNCHANGED tileVars

\* Only the tiles of the source are asked for.
TileRequest == \E r \in Request :
  /\ map.source # None
  /\ Tiles!FetchColorizedTile(r, map.source)
  /\ UNCHANGED map

TileStep == \E u \in Frames : (Tiles!FetchEnds(u) \/ Tiles!Settled(u)) /\ UNCHANGED map

Next == MapStep \/ TileRequest \/ TileStep

Spec == Init /\ [][Next]_vars /\ Tiles!CacheFairness

(* The types of the layer and of the cache.                                *)
TypeOK == Map!MapTypeOK /\ Tiles!CacheTypeOK

(* Through every order of states, frames and changes of theme the layer    *)
(* shows the product and the time the hook was last told, is there while   *)
(* the radar is on, and is not there while it is off.                      *)
LayerShowsFrame == Map!LayerIsCurrent /\ Map!LayerSurvivesTheme

(* Whichever tiles the layer asks for and in whatever order they come, the *)
(* cache keeps the tiles used last and no tile is fetched twice at a time  *)
(* or while it is in the cache.                                            *)
TilesKept == Tiles!HoldsLastUsed /\ Tiles!OneFetch

(* The layer gets an answer to every tile it asks for, also from a fetch   *)
(* that another request began or whose tile was evicted at once.           *)
Answered == Tiles!Answered
=============================================================================
