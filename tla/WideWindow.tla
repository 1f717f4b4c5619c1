------------------------------ MODULE WideWindow ------------------------------
(***************************************************************************)
(* The widescreen window: the cartridge's camera, slid inward near a       *)
(* level's walls by a bias that follows its target one pixel per drawing.  *)
(* The cartridge's own culling, widened by the bias of the drawing before, *)
(* decides which objects are left to draw.  The picture's columns are      *)
(* counted from the camera.                                                *)
(***************************************************************************)
EXTENDS Integers

CONSTANTS
    FirstPage,              \* the west bound of every map
    Maxima,                 \* the values of maximum_scroll_x
    Holds,                  \* authored edges a player may be held at
    Extras,                 \* widths of one margin, 0 for the native aspect
    EdgePolicies,
    GlideSpan,              \* kDkc2VideoEdgeGlideSpan
    SettleFrames,           \* kDkc2BiasSettleFrames
    CameraTravel,           \* pixels the camera moves between two drawings
    NativeWidth,            \* columns of the console's picture
    NativeLeft, NativeSpan  \* a cull's slack before the camera and its width

\* The target moves at most a pixel while the camera moves Pace.
Pace == IF CameraTravel > GlideSpan THEN CameraTravel ELSE GlideSpan

\* Between its two bounds a level leaves the bias time to change sides.
ASSUME WindowAssumption ==
    /\ FirstPage \in Nat \ {0} /\ GlideSpan \in Nat \ {0} /\ SettleFrames \in Nat \ {0}
    /\ CameraTravel \in Nat /\ NativeWidth \in Nat
    /\ Maxima \subseteq Nat /\ Holds \subseteq Nat /\ Extras \subseteq Nat
    /\ EdgePolicies \subseteq {"reflect", "bars", "shift", "glide"}
    /\ \A m \in Maxima, e \in Extras, h \in Holds \cup {FirstPage} :
          m - h >= Pace * e + GlideSpan
    /\ NativeLeft \in Nat \ {0} /\ NativeSpan \in Nat /\ NativeSpan > NativeLeft + NativeWidth

VARIABLES
    view,       \* the cartridge's [camera, maximum], $17BA and $0AFC
    edge,       \* s_edge_policy
    extra,      \* g_ws_extra
    west,       \* s_hold_west_x, 0 while it is not valid
    mapped,     \* s_widescreen_source_valid and the map is the one it was set for
    bias,       \* s_bias_[valid, frames, presented]
    host,       \* s_[terrain_ready, presentation_bias]
    culled,     \* history: the columns the cartridge's last frame kept, or "none" ready
    pictured    \* history: the picture drawn of that frame

windowVars == <<view, edge, extra, west, mapped, bias, host, culled, pictured>>

Unseen == [kind |-> "none"]
NotCulled == [due |-> FALSE, ready |-> FALSE, even |-> FALSE, from |-> 0, to |-> 0]

Dkc2VideoClampInt(value, lower, upper) ==
    IF value < lower THEN lower ELSE IF value > upper THEN upper ELSE value

minimum_scroll_x == IF west > FirstPage /\ west <= view.camera THEN west ELSE FirstPage

Slides == edge \in {"shift", "glide"}

\* How far a wall pushes the picture that the camera is `travel` away from.
Push(travel) ==
    IF travel >= 0 /\ travel < extra * GlideSpan THEN extra - (travel \div GlideSpan) ELSE 0

\* The bias wanted for the camera: glide's push, pinned inside the level.
WantedBias ==
    LET lower == minimum_scroll_x
        upper == view.maximum
        half  == (upper - lower) \div 2
        reach == IF half > extra THEN extra ELSE half
        push  == IF edge = "glide" THEN Push(view.camera - lower) - Push(upper - view.camera) ELSE 0
    IN  IF extra > 0 /\ upper >= lower /\ Slides
        THEN Dkc2VideoClampInt(
               Dkc2VideoClampInt(push, lower + reach - view.camera, upper - reach - view.camera),
               -extra, extra)
        ELSE 0

\* The margins that lie in the level, or whole ones if its edge is mirrored.
Dkc2VideoMarginsForBias(presented) ==
    LET centre == view.camera + (IF Slides THEN presented ELSE 0)
    IN  IF edge = "reflect" \/ view.maximum < minimum_scroll_x
        THEN [left |-> extra, right |-> extra]
        ELSE [left  |-> Dkc2VideoClampInt(centre - minimum_scroll_x, 0, extra),
              right |-> Dkc2VideoClampInt(view.maximum - centre, 0, extra)]

\* The bias follows: at once while a scene settles, then a pixel at a time.
Settled == bias.valid = 1 /\ bias.frames >= SettleFrames
PresentedBias ==
    IF ~Settled THEN WantedBias
    ELSE IF WantedBias > bias.presented THEN bias.presented + 1
    ELSE IF WantedBias < bias.presented THEN bias.presented - 1
    ELSE bias.presented
BiasFrames ==
    IF bias.valid = 0 THEN 1
    ELSE IF bias.frames < SettleFrames THEN bias.frames + 1 ELSE bias.frames

-----------------------------------------------------------------------------
(* The cartridge's frame.                                                  *)

\* A mutant: the cull is widened evenly, whatever the bias.
ExpandCullLeftEvenly(native_margin) ==
    native_margin + (IF host.ready THEN extra ELSE 0)

Dkc2VideoExpandCullLeft(native_margin) ==
    IF ~host.ready THEN native_margin
    ELSE native_margin + Dkc2VideoClampInt(extra - host.bias, 0, 2 * extra)

Dkc2VideoExpandCullSpan(native_span) ==
    native_span + (IF host.ready THEN 2 * extra ELSE 0)

\* Objects from the one column up to the other survive the frame's culling.
Cull ==
    LET left == Dkc2VideoExpandCullLeft(NativeLeft)
    IN  culled' = [due |-> TRUE, ready |-> host.ready,
                   even |-> host.bias <= extra /\ -host.bias <= extra,
                   from |-> -left, to |-> Dkc2VideoExpandCullSpan(NativeSpan) - left]

GuestFrame(camera) ==
    /\ ~culled.due
    /\ camera \in FirstPage .. view.maximum
    /\ camera - view.camera <= CameraTravel /\ view.camera - camera <= CameraTravel
    /\ view' = [view EXCEPT !.camera = camera]
    /\ Cull /\ pictured' = Unseen
    /\ UNCHANGED <<edge, extra, west, mapped, bias, host>>

\* Another map: the camera is anywhere.
EnterScene(maximum, camera) ==
    /\ ~culled.due
    /\ camera \in FirstPage .. maximum
    /\ view' = [camera |-> camera, maximum |-> maximum]
    /\ mapped' = FALSE
    /\ Cull /\ pictured' = Unseen
    /\ UNCHANGED <<edge, extra, west, bias, host>>

-----------------------------------------------------------------------------
(* The drawing.                                                            *)

\* The west hold for the next drawing: entered beside the window, and kept or
\* lost wherever the camera has gone.
HoldWest(found) ==
    /\ IF mapped /\ west # 0 THEN found \in {0, west} ELSE found <= view.camera
    /\ west' = found

\* Drawn with the terrain's margins if the level map proves them, else
\* unslid between black ones.  A map met for the first time invalidates the
\* bias after it was used.
DrawWorld(ready, found) ==
    LET margins == Dkc2VideoMarginsForBias(PresentedBias)
    IN  /\ extra > 0
        /\ bias' = [valid |-> IF mapped THEN 1 ELSE 0, frames |-> BiasFrames,
                    presented |-> PresentedBias]
        /\ mapped' = TRUE
        /\ HoldWest(found)
        /\ host' = [ready |-> ready, bias |-> IF ready THEN PresentedBias ELSE 0]
        /\ pictured' = IF ready
                    THEN [kind |-> "world", known |-> mapped, settled |-> Settled,
                          bias |-> PresentedBias, left |-> margins.left, right |-> margins.right,
                          minimum |-> minimum_scroll_x, culled |-> culled]
                    ELSE Unseen
        /\ culled' = NotCulled
        /\ UNCHANGED <<view, edge, extra>>

Forget ==
    /\ west' = 0 /\ mapped' = FALSE
    /\ bias' = [bias EXCEPT !.valid = 0]
    /\ host' = [host EXCEPT !.ready = FALSE]

\* A bounded screen, a name card, or the native aspect.
DrawBounded ==
    /\ Forget
    /\ culled' = NotCulled /\ pictured' = Unseen
    /\ UNCHANGED <<view, edge, extra>>

-----------------------------------------------------------------------------
(* The host, between its loop's frames.                                    *)

\* A state of any scene is loaded, its camera anywhere.
StateLoaded(maximum, camera) ==
    /\ ~culled.due
    /\ camera \in FirstPage .. maximum
    /\ view' = [camera |-> camera, maximum |-> maximum]
    /\ Forget /\ pictured' = Unseen
    /\ UNCHANGED <<edge, extra, culled>>

Dkc2VideoSetEdgePolicy(policy) ==
    /\ ~culled.due
    /\ edge' = policy /\ pictured' = Unseen
    /\ UNCHANGED <<view, extra, west, mapped, bias, host, culled>>

Dkc2VideoSetAspect(margin) ==
    /\ ~culled.due
    /\ margin # extra
    /\ extra' = margin /\ host' = [host EXCEPT !.ready = FALSE] /\ pictured' = Unseen
    /\ UNCHANGED <<view, edge, west, mapped, bias, culled>>

WindowInit ==
    /\ view \in {[camera |-> FirstPage, maximum |-> m] : m \in Maxima}
    /\ edge \in EdgePolicies /\ extra \in Extras
    /\ west = 0 /\ mapped = FALSE
    /\ bias = [valid |-> 0, frames |-> 0, presented |-> 0]
    /\ host = [ready |-> FALSE, bias |-> 0]
    /\ culled = NotCulled /\ pictured = Unseen

WindowNext ==
    \/ \E t \in -CameraTravel .. CameraTravel : GuestFrame(view.camera + t)
    \/ \E m \in Maxima : \E x \in FirstPage .. m : EnterScene(m, x) \/ StateLoaded(m, x)
    \/ \E r \in BOOLEAN, f \in Holds \cup {0} : DrawWorld(r, f)
    \/ DrawBounded
    \/ \E p \in EdgePolicies : Dkc2VideoSetEdgePolicy(p)
    \/ \E e \in Extras : Dkc2VideoSetAspect(e)

WindowSpec == WindowInit /\ [][WindowNext]_windowVars

-----------------------------------------------------------------------------
WindowTypeOK ==
    /\ view \in [camera : Int, maximum : Maxima] /\ FirstPage <= view.camera
    /\ view.camera <= view.maximum
    /\ edge \in EdgePolicies /\ extra \in Extras
    /\ west \in Holds \cup {0} /\ mapped \in BOOLEAN
    /\ bias \in [valid : {0, 1}, frames : Nat, presented : Int]
    /\ host \in [ready : BOOLEAN, bias : Int]
    /\ culled \in [due : BOOLEAN, ready : BOOLEAN, even : BOOLEAN, from : Int, to : Int]

\* The slid picture lies in the level, however the camera, the hold, the
\* policy and the aspect have changed under the bias; and so do its margins,
\* unless the edge is mirrored, or black with a bias still being given up:
\* dkc2_game.c's bias is never so late that it shows what is beyond a wall.
\* (Of a map's first drawing this is not promised: the bias it uses may be
\* the map's before.)
WindowInLevel ==
    pictured.kind = "world" /\ pictured.known =>
      /\ pictured.minimum <= view.camera + pictured.bias
      /\ view.camera + pictured.bias <= view.maximum
      /\ Slides \/ (edge = "bars" /\ pictured.bias = 0) =>
            /\ pictured.minimum <= view.camera + pictured.bias - pictured.left
            /\ view.camera + pictured.bias + pictured.right <= view.maximum

\* What is in the picture was not culled: the columns the cartridge's frame
\* kept, by the bias of the drawing before, reach beyond both ends of the
\* window drawn of it by the native slack less a pixel.  (Not while a scene
\* settles, nor while a bias wider than a margin shrinks after a narrower
\* aspect was chosen.)
ShownIsKept ==
    pictured.kind = "world" /\ pictured.settled /\ pictured.culled.ready /\ pictured.culled.even =>
      /\ pictured.culled.from + NativeLeft - 1 <= pictured.bias - extra
      /\ pictured.bias + NativeWidth + extra <=
            pictured.culled.to - (NativeSpan - NativeLeft - NativeWidth - 1)

WindowKept == WindowInLevel /\ ShownIsKept

=============================================================================
