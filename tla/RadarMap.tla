------------------------------ MODULE RadarMap -------------------------------
(***************************************************************************)
(* The radar layer of the live map: the part of the hook MaplibreMap       *)
(* (assets/js/hooks/maplibre_map.js) that shows a radar frame as a raster  *)
(* layer of a MapLibre map.  The hook's object and the state of its map    *)
(* are the record `m'; a handler is an operator that returns the record it *)
(* leaves behind.                                                          *)
(*                                                                         *)
(* The library is external.  A change of the base style either leaves the  *)
(* old style up until the new one has come ("diff") or starts from an      *)
(* empty one, to which nothing can be added before it has loaded           *)
(* ("reload").  Either way the new style does not have the radar layer,    *)
(* and the library reports it with style.load.                             *)
(***************************************************************************)
CONSTANTS Product, None

TileUrl(m) == [product |-> m.product, time |-> m.time]

\* mounted(): the first style is loading, and nobody waits for its style.load.
\* `source' is what the tiles of the raster source are of; `missed' records
\* that a layer was refused by a style that nobody will retry it on.
MapMounted ==
  [enabled |-> FALSE, product |-> None, time |-> None,
   layer |-> FALSE, source |-> None,
   style |-> "reload", onStyleLoad |-> FALSE, missed |-> FALSE]

MapType(Time) ==
  [enabled : BOOLEAN, product : Product \cup {None}, time : Time \cup {None},
   layer : BOOLEAN,
   source : [product : Product, time : Time] \cup {None},
   style : {"ready", "diff", "reload"}, onStyleLoad : BOOLEAN, missed : BOOLEAN]

\* addSource and addLayer throw while a style starts from nothing.
AddRadarLayer(m) ==
  IF ~m.enabled \/ m.product = None \/ m.time = None
  THEN m
  ELSE IF m.style = "reload"
       THEN [m EXCEPT !.missed = ~m.onStyleLoad]
       ELSE [m EXCEPT !.layer = TRUE,
                      !.source = IF m.source = None THEN TileUrl(m) ELSE m.source,
                      !.missed = FALSE]

RemoveRadar(m) == [m EXCEPT !.layer = FALSE, !.source = None]

UpdateRadarTiles(m) == IF m.source = None THEN m ELSE [m EXCEPT !.source = TileUrl(m)]

OnRadarState(m, config) ==
  LET next == [m EXCEPT !.enabled = config.enabled, !.product = config.product]
  IN IF ~config.enabled
     THEN RemoveRadar([next EXCEPT !.missed = FALSE])
     ELSE IF ~m.layer
          THEN AddRadarLayer(next)
          ELSE IF m.product # config.product /\ m.time # None
               THEN UpdateRadarTiles(next)
               ELSE next

ApplyRadarFrame(m, time) ==
  LET next == [m EXCEPT !.time = time]
  IN IF ~m.enabled THEN next
     ELSE IF ~m.layer THEN AddRadarLayer(next) ELSE UpdateRadarTiles(next)

UpdateStyleOnly(m, kept) ==
  [RemoveRadar(m) EXCEPT !.style = "reload", !.missed = FALSE]

\* A change of theme, of any of its three sources.
UpdateStyle(m, kept) ==
  [(IF kept /\ m.style # "reload" THEN m ELSE RemoveRadar(m))
     EXCEPT !.style = IF kept /\ m.style # "reload" THEN "diff" ELSE "reload",
            !.onStyleLoad = TRUE,
            !.missed = FALSE]

StyleLoaded(m) ==
  LET loaded == [RemoveRadar(m) EXCEPT !.style = "ready", !.onStyleLoad = FALSE]
  IN IF m.onStyleLoad THEN AddRadarLayer(loaded) ELSE loaded

-----------------------------------------------------------------------------
(* The map on a page that sends it any states and frames                   *)

VARIABLE map

CONSTANT Time   \* the times of the frames the page may send

\* The other hook of the page hears radar_state too, in the same dispatch,
\* and may answer it with a frame.
RadarState == \E enabled \in BOOLEAN, product \in Product, time \in Time \cup {None} :
  LET told == OnRadarState(map, [enabled |-> enabled, product |-> product])
  IN map' = IF time = None THEN told ELSE ApplyRadarFrame(told, time)

RadarFrame == \E time \in Time : map' = ApplyRadarFrame(map, time)

ThemeChanges == \E kept \in BOOLEAN : map' = UpdateStyle(map, kept)

StyleLoads == map.style # "ready" /\ map' = StyleLoaded(map)

\* The page sends its first state before or after the first style is up.
MapInit == map \in {MapMounted, StyleLoaded(MapMounted)}

MapNext == RadarState \/ RadarFrame \/ ThemeChanges \/ StyleLoads

MapSpec == MapInit /\ [][MapNext]_map /\ WF_map(StyleLoads)

MapTypeOK == map \in MapType(Time)

(* The layer and its source come and go together, only while the radar is  *)
(* on, and the tiles are those of the product and the time the hook has    *)
(* last been told: no order of states, frames and style changes leaves the *)
(* tiles of an earlier product or time on screen.                          *)
LayerIsCurrent ==
  /\ map.layer <=> map.source # None
  /\ map.layer => map.enabled /\ map.source = TileUrl(map)

(* When the style is up and the radar on with a frame to show, the layer   *)
(* is there, except after a layer the very first style refused: no change  *)
(* of theme, whatever came while it loaded, loses the layer.               *)
LayerSurvivesTheme ==
  map.style = "ready" /\ map.enabled /\ map.product # None /\ map.time # None
    => map.layer \/ map.missed
=============================================================================
