------------------------------ MODULE PlaneGate ------------------------------
(***************************************************************************)
(* Which tilemaps the widescreen renderer shows as their own wrap: the     *)
(* frame stamps of VRAM pages and the camera decide whether a page is      *)
(* still being streamed, and cached verdicts on a map's contents are       *)
(* refreshed by those stamps.  One 64-column map of Pages; the stamps are  *)
(* kept by the runtime and external.                                       *)
(***************************************************************************)
EXTENDS Integers, FiniteSets, FiniteSetsExt

CONSTANTS
    Pages,           \* the map's VRAM pages
    Contents,        \* what a page may hold
    Wraps, Objects,  \* the maps Dkc2VideoTilemapWrapsAuthored and ...IsObjectPlane accept
    Levels,          \* level source signatures
    Places,          \* camera positions along one axis
    Travel,          \* kDkc2PlaneTravel, 24
    Refresh,         \* 64 drawn frames
    SaveAt,          \* the frames a state file may be written at
    MaxClock         \* bound on the frame counter

Map == [Pages -> Contents]
Checks == {"wraps", "object"}
Accepts == [wraps |-> Wraps, object |-> Objects]

ASSUME GateAssumption ==
    /\ Wraps \subseteq Map /\ Objects \subseteq Map
    /\ Travel \in Nat \ {0} /\ Refresh \in Nat \ {0} /\ MaxClock \in Nat
    /\ Places \subseteq Int /\ Pages # {}

VARIABLES
    world,    \* [map, stamp, clock, level, camera]: the console and its shadow
    gate,     \* [valid, level, seen, anchor, traveled]: the s_page_* statics
    cache,    \* for each check [valid, stamp, age, of]: the map its verdict is about
    asPlane,    \* whether the last drawn frame showed the map as a plane
    kept,     \* the console of a state file
    away,     \* history: for each page, the farthest a drawn camera has been from the
              \* first one drawn after the page's last write; Travel if there was none
    loaded,   \* history: a state was loaded
    wrong     \* history: drawn frames in a row that used a verdict about another map

gateVars == <<world, gate, cache, asPlane, kept, away, loaded, wrong>>

NewestStamp == Max({world.stamp[p] : p \in Pages})

Gap(a, b) == IF a < b THEN b - a ELSE a - b

GateInit ==
    /\ world \in [map : Map, stamp : {[p \in Pages |-> 0]}, clock : {0}, level : Levels, camera : Places]
    /\ \A l \in Levels, x \in Places : world.level <= l /\ world.camera <= x
    /\ gate = [valid |-> 0, level |-> world.level, seen |-> world.stamp,
               anchor |-> [p \in Pages |-> world.camera], traveled |-> [p \in Pages |-> 0]]
    /\ cache = [c \in Checks |-> [valid |-> 0, stamp |-> 0, age |-> 0, of |-> world.map]]
    /\ asPlane = 0
    /\ kept = world
    /\ away = [p \in Pages |-> Travel]
    /\ loaded = 0
    /\ wrong = 0

-----------------------------------------------------------------------------
(* The console: a frame may write pages, move the camera, change the level *)

RunFrame(written, map, level, camera) ==
    /\ world.clock < MaxClock
    /\ \A p \in Pages \ written : map[p] = world.map[p]
    /\ world' = [map |-> map, clock |-> world.clock + 1, level |-> level, camera |-> camera,
                 stamp |-> [p \in Pages |-> IF p \in written THEN world.clock + 1 ELSE world.stamp[p]]]
    /\ away' = [p \in Pages |-> IF p \in written THEN -1 ELSE away[p]]
    /\ UNCHANGED <<gate, cache, asPlane, kept, loaded, wrong>>

SaveWorld ==
    /\ world.clock \in SaveAt
    /\ kept' = world
    /\ UNCHANGED <<world, gate, cache, asPlane, away, loaded, wrong>>

\* A state brings the VRAM and the frame counter back; the runtime's stamps
\* stay, or are cleared with the shadow.  One load in a behaviour.
LoadWorld(cleared) ==
    /\ kept.clock \in SaveAt /\ loaded = 0
    /\ world' = [kept EXCEPT !.stamp = IF cleared = 1 THEN [p \in Pages |-> 0] ELSE world.stamp]
    /\ loaded' = 1
    /\ UNCHANGED <<gate, cache, asPlane, kept, away, wrong>>

-----------------------------------------------------------------------------
(* A drawn frame.                                                          *)

NewLevel == gate.valid = 0 \/ gate.level # world.level
Rewritten(p) == ~ NewLevel /\ world.stamp[p] # gate.seen[p]
Anchor(p) == IF Rewritten(p) THEN world.camera ELSE gate.anchor[p]

Traveled(p) ==
    \/ NewLevel
    \/ ~ Rewritten(p) /\ gate.traveled[p] = 1
    \/ Gap(world.camera, Anchor(p)) >= Travel

Dkc2TrackVramPages ==
    [valid |-> 1, level |-> world.level, seen |-> world.stamp,
     anchor |-> [p \in Pages |-> Anchor(p)],
     traveled |-> [p \in Pages |-> IF Traveled(p) THEN 1 ELSE 0]]

\* The caches are emptied with the level; a frame makes every entry older.
Aged == [c \in Checks |-> IF NewLevel THEN [cache[c] EXCEPT !.valid = 0]
                          ELSE [cache[c] EXCEPT !.age = Min({@ + 1, Refresh})]]

\* Mutant: a verdict is not dropped when a page is written.
StaleByAge(entry) == entry.valid = 0 \/ entry.age >= Refresh
Stale(entry) == entry.valid = 0 \/ entry.stamp # NewestStamp \/ entry.age >= Refresh

\* Dkc2MapWrapsAuthored and Dkc2MapIsObjectPlane.
Looked(entry) ==
    IF Stale(entry) THEN [valid |-> 1, stamp |-> NewestStamp, age |-> 0, of |-> world.map]
    ELSE entry

\* The object check is made only when the first one fails.
Dkc2BandShowsStaticPlane(all_static) ==
    LET wraps == IF all_static THEN Looked(Aged["wraps"]) ELSE Aged["wraps"]
        plane == all_static /\ wraps.of \in Accepts["wraps"]
        object == IF plane THEN Aged["object"] ELSE Looked(Aged["object"])
    IN /\ cache' = [c \in Checks |-> IF c = "wraps" THEN wraps ELSE object]
       /\ asPlane' = IF plane \/ object.of \in Accepts["object"] THEN 1 ELSE 0
       /\ wrong' = IF (IF plane THEN wraps ELSE object).of = world.map THEN 0
                   ELSE Min({wrong + 1, Refresh})

\* What the first drawn frame after a write makes of the page's history.
FarFrom(p) ==
    IF NewLevel THEN Travel
    ELSE IF away[p] = -1 THEN 0
    ELSE Max({away[p], Gap(world.camera, gate.anchor[p])})

Draw ==
    /\ gate' = Dkc2TrackVramPages
    /\ Dkc2BandShowsStaticPlane(\A p \in Pages : Dkc2TrackVramPages.traveled[p] = 1)
    /\ away' = [p \in Pages |-> FarFrom(p)]
    /\ UNCHANGED <<world, kept, loaded>>

GateNext ==
    \/ \E w \in SUBSET Pages, m \in Map, l \in Levels, x \in Places : RunFrame(w, m, l, x)
    \/ SaveWorld \/ \E cleared \in 0 .. 1 : LoadWorld(cleared)
    \/ Draw

GateSpec == GateInit /\ [][GateNext]_gateVars

-----------------------------------------------------------------------------
(* Properties.                                                             *)

GateTypeOK ==
    /\ world.map \in Map /\ world.clock \in 0 .. MaxClock /\ world.camera \in Places
    /\ \A p \in Pages : gate.traveled[p] \in 0 .. 1 /\ gate.anchor[p] \in Places
    /\ \A c \in Checks : cache[c].of \in Map /\ cache[c].age \in 0 .. Refresh

\* A map is shown as a plane for what it holds, not for what it once held: its
\* verdict is about the map as it is, and a wrap is shown only when no page of
\* it was written within Travel of the camera.  Stamps that a loaded state has
\* set back can hide a write; the verdict is then wrong for less than Refresh
\* drawn frames.
PlaneIsTrue ==
    [][Draw => /\ wrong' < Refresh
               /\ loaded = 0 /\ asPlane' = 1 =>
                    \/ world.map \in Objects
                    \/ world.map \in Wraps /\ \A p \in Pages : away'[p] >= Travel]_gateVars
=============================================================================
