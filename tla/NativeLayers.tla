----------------------------- MODULE NativeLayers -----------------------------
(***************************************************************************)
(* RenderCompositorNative with its GL and its software renderer: each tile *)
(* of a surface is a native layer of the window system; without the native *)
(* compositor one layer stands for the whole window.  Layers are numbers,  *)
(* given in the order of their creation.                                   *)
(***************************************************************************)
EXTENDS Naturals, Sequences, FiniteSets, SequencesExt

CONSTANTS
  NativeSurfaces,      \* native surface ids
  TileKeys,      \* tile positions in a surface
  WindowSizes,   \* sizes of the window's client area, 0 when empty
  MaxLayers      \* bound: layers created

ASSUME LayersAssumption ==
  MaxLayers \in Nat /\ WindowSizes \subseteq Nat /\ WindowSizes # {}

VARIABLES
  swgl,                        \* NativeSWGL, else NativeOGL
  shouldUseNativeCompositor,   \* gfxVars::UseWebRenderCompositor
  clientArea,
  mNativeLayerForEntireWindow, \* [layer, size], layer 0: none
  nativeSurfaces,                   \* [kind, layers]; kind "none": not created
  mCurrentlyBoundNativeLayer,  \* 0: none
  mLayerTarget,                \* the layer whose draw target is locked
  defaultFramebuffer,          \* the layer SWGL's framebuffer points at
  mAddedLayers, rootLayers,    \* this frame's layers; the root's layers
  mTotalTiles,                 \* mTotalTilePixelCount, in tiles
  lastLayer,                   \* the last layer created
  discarded,                   \* layers without back buffers
  nativePhase                  \* "idle", "drawing", "adding", "composited"

nativeVars == <<swgl, shouldUseNativeCompositor, clientArea,
                mNativeLayerForEntireWindow, nativeSurfaces,
                mCurrentlyBoundNativeLayer, mLayerTarget, defaultFramebuffer,
                mAddedLayers, rootLayers, mTotalTiles, lastLayer, discarded,
                nativePhase>>

NoLayers == [k \in {} |-> 0]
Absent == [kind |-> "none", layers |-> NoLayers]
Window == mNativeLayerForEntireWindow.layer

NativeInit ==
  /\ swgl \in BOOLEAN /\ shouldUseNativeCompositor \in BOOLEAN
  /\ clientArea \in WindowSizes
  /\ mNativeLayerForEntireWindow = [layer |-> 0, size |-> 0]
  /\ nativeSurfaces = [s \in NativeSurfaces |-> Absent]
  /\ mCurrentlyBoundNativeLayer = 0 /\ mLayerTarget = 0
  /\ defaultFramebuffer = 0 /\ mAddedLayers = <<>> /\ rootLayers = <<>>
  /\ mTotalTiles = 0 /\ lastLayer = 0 /\ discarded = {} /\ nativePhase = "idle"

constantVars == <<swgl, shouldUseNativeCompositor>>
windowVars == <<mNativeLayerForEntireWindow, clientArea>>
drawVars == <<mCurrentlyBoundNativeLayer, mLayerTarget>>
addVars == <<mAddedLayers, rootLayers>>
surfaceVars == <<nativeSurfaces, mTotalTiles, lastLayer, discarded>>

-----------------------------------------------------------------------------
(* The window's own layer                                                   *)

(* A layer of another size leaves the root before it is dropped.            *)
RootAfterResize_Left(stale) == rootLayers
RootAfterResize(stale) ==
  IF stale THEN RemoveFirst(rootLayers, Window) ELSE rootLayers

(* What BeginFrame does for the window's layer; "made": it is a new one.    *)
PrepareWindowLayer(made) ==
  LET stale == Window # 0 /\ mNativeLayerForEntireWindow.size # clientArea
  IN IF made
     THEN /\ lastLayer < MaxLayers /\ lastLayer' = lastLayer + 1
          /\ mNativeLayerForEntireWindow' =
               [layer |-> lastLayer + 1, size |-> clientArea]
          /\ rootLayers' = Append(RootAfterResize(stale), lastLayer + 1)
          /\ (stale \/ Window = 0)
     ELSE /\ ~stale /\ Window # 0
          /\ UNCHANGED <<lastLayer, mNativeLayerForEntireWindow, rootLayers>>

(* BeginFrame, with the software renderer mapping the layer or failing to;  *)
(* an empty window or a failed mapping ends the frame before it starts.     *)
NativeBeginFrame ==
  /\ nativePhase = "idle"
  /\ IF shouldUseNativeCompositor
     THEN /\ nativePhase' = "drawing"
          /\ UNCHANGED <<lastLayer, windowVars, rootLayers, mLayerTarget,
                         defaultFramebuffer>>
     ELSE /\ clientArea # 0
          /\ \E made \in BOOLEAN : PrepareWindowLayer(made)
          /\ UNCHANGED clientArea
          /\ \/ /\ nativePhase' = "drawing"
                /\ mLayerTarget' = IF swgl THEN mNativeLayerForEntireWindow'
                                               .layer ELSE 0
                /\ defaultFramebuffer' = mNativeLayerForEntireWindow'.layer
             \/ /\ nativePhase' = "idle"
                /\ UNCHANGED <<mLayerTarget, defaultFramebuffer>>
  /\ UNCHANGED <<constantVars, nativeSurfaces, mCurrentlyBoundNativeLayer,
                 mAddedLayers, mTotalTiles, discarded>>

(* DoSwap and CancelFrame give the draw target of the window's layer back   *)
(* and leave SWGL without a framebuffer.                                    *)
FramebufferAfterUnmap_Kept == defaultFramebuffer
FramebufferAfterUnmap == IF swgl THEN 0 ELSE defaultFramebuffer
UnmapWindow ==
  IF Window # 0 /\ mLayerTarget # 0
  THEN mLayerTarget' = 0 /\ defaultFramebuffer' = FramebufferAfterUnmap
  ELSE UNCHANGED <<mLayerTarget, defaultFramebuffer>>

NativeEndOrCancelFrame ==
  /\ mCurrentlyBoundNativeLayer = 0 /\ nativePhase \in {"drawing", "composited"}
  /\ nativePhase' = "idle" /\ UnmapWindow
  /\ UNCHANGED <<constantVars, windowVars, surfaceVars, addVars,
                 mCurrentlyBoundNativeLayer>>

Resize ==
  /\ \E z \in WindowSizes \ {clientArea} : clientArea' = z
  /\ UNCHANGED <<constantVars, mNativeLayerForEntireWindow, surfaceVars,
                 addVars, drawVars, defaultFramebuffer, nativePhase>>

-----------------------------------------------------------------------------
(* Surfaces and tiles.  WebRender makes and destroys them while it renders,  *)
(* before it draws the tiles.                                               *)

NativeChanging == shouldUseNativeCompositor /\ nativePhase = "drawing"
            /\ mCurrentlyBoundNativeLayer = 0
unchangedBySurfaces ==
  <<constantVars, windowVars, drawVars, defaultFramebuffer, addVars,
    nativePhase>>

(* An external surface and a backdrop have one layer from the start.        *)
NativeCreateSurface(s, kind) ==
  /\ NativeChanging /\ nativeSurfaces[s].kind = "none"
  /\ LET one == kind # "tiles"
     IN /\ one => lastLayer < MaxLayers
        /\ lastLayer' = lastLayer + (IF one THEN 1 ELSE 0)
        /\ nativeSurfaces' = [nativeSurfaces EXCEPT ![s] =
             [kind |-> kind,
              layers |-> IF one THEN [k \in {CHOOSE t \in TileKeys : TRUE}
                                        |-> lastLayer + 1]
                         ELSE NoLayers]]
  /\ UNCHANGED <<mTotalTiles, discarded, unchangedBySurfaces>>

(* The layers of a surface that is not external leave the count with it; a  *)
(* backdrop's has no size.                                                  *)
CountAfterDestroy_Kept(surface) == mTotalTiles
CountAfterDestroy(surface) ==
  IF surface.kind = "tiles"
  THEN mTotalTiles - Cardinality(DOMAIN surface.layers) ELSE mTotalTiles

NativeDestroySurface(s) ==
  /\ NativeChanging /\ nativeSurfaces[s].kind # "none"
  /\ mTotalTiles' = CountAfterDestroy(nativeSurfaces[s])
  /\ nativeSurfaces' = [nativeSurfaces EXCEPT ![s] = Absent]
  /\ UNCHANGED <<lastLayer, discarded, unchangedBySurfaces>>

NativeCreateTile(s, k) ==
  /\ NativeChanging /\ nativeSurfaces[s].kind = "tiles"
  /\ k \notin DOMAIN nativeSurfaces[s].layers
  /\ lastLayer < MaxLayers /\ lastLayer' = lastLayer + 1
  /\ nativeSurfaces' = [nativeSurfaces EXCEPT ![s].layers =
       [t \in DOMAIN @ \union {k} |-> IF t = k THEN lastLayer + 1 ELSE @[t]]]
  /\ mTotalTiles' = mTotalTiles + 1
  /\ UNCHANGED <<discarded, unchangedBySurfaces>>

NativeDestroyTile(s, k) ==
  /\ NativeChanging /\ nativeSurfaces[s].kind = "tiles"
  /\ k \in DOMAIN nativeSurfaces[s].layers
  /\ discarded' = discarded \union {nativeSurfaces[s].layers[k]}
  /\ nativeSurfaces' = [nativeSurfaces EXCEPT ![s].layers =
       [t \in DOMAIN @ \ {k} |-> @[t]]]
  /\ mTotalTiles' = mTotalTiles - 1
  /\ UNCHANGED <<lastLayer, unchangedBySurfaces>>

-----------------------------------------------------------------------------
(* Drawing tiles and showing surfaces                                       *)

(* A tile whose layer cannot be mapped is unbound again at once.            *)
BoundAfterFailedMap_Kept(layer) == layer
BoundAfterFailedMap(layer) == 0

(* Bind (GL) or MapTile (software); the GL renderer does not expect the     *)
(* next surface to be refused.                                              *)
BindTile(s, k) ==
  /\ NativeChanging /\ nativeSurfaces[s].kind = "tiles"
  /\ k \in DOMAIN nativeSurfaces[s].layers
  /\ LET layer == nativeSurfaces[s].layers[k]
     IN \/ /\ mCurrentlyBoundNativeLayer' = layer
           /\ mLayerTarget' = IF swgl THEN layer ELSE 0
        \/ /\ swgl
           /\ mCurrentlyBoundNativeLayer' = BoundAfterFailedMap(layer)
           /\ UNCHANGED mLayerTarget
  /\ UNCHANGED <<constantVars, windowVars, surfaceVars, addVars,
                 defaultFramebuffer, nativePhase>>

(* UnmapTile does nothing when the mapping had failed.                      *)
UnbindTile ==
  /\ mCurrentlyBoundNativeLayer # 0
  /\ mCurrentlyBoundNativeLayer' = 0 /\ mLayerTarget' = 0
  /\ UNCHANGED <<constantVars, windowVars, surfaceVars, addVars,
                 defaultFramebuffer, nativePhase>>

NativeCompositorBeginFrame ==
  /\ NativeChanging /\ nativePhase' = "adding" /\ mAddedLayers' = <<>>
  /\ UNCHANGED <<constantVars, windowVars, surfaceVars, rootLayers, drawVars,
                 defaultFramebuffer>>

NativeAddSurface(s) ==
  /\ nativePhase = "adding" /\ mCurrentlyBoundNativeLayer = 0
  /\ nativeSurfaces[s].kind # "none"
  /\ LET layers == nativeSurfaces[s].layers
         added == {layers[k] : k \in DOMAIN layers}
     IN /\ added \intersect ToSet(mAddedLayers) = {}
        /\ mAddedLayers' = mAddedLayers \o SetToSeq(added)
  /\ UNCHANGED <<constantVars, windowVars, surfaceVars, rootLayers, drawVars,
                 defaultFramebuffer, nativePhase>>

NativeCompositorEndFrame ==
  /\ nativePhase = "adding" /\ nativePhase' = "composited"
  /\ rootLayers' = mAddedLayers
  /\ UNCHANGED <<constantVars, windowVars, surfaceVars, mAddedLayers,
                 drawVars, defaultFramebuffer>>

NativeNext ==
  \/ NativeBeginFrame \/ NativeEndOrCancelFrame \/ Resize
  \/ UnbindTile \/ NativeCompositorBeginFrame \/ NativeCompositorEndFrame
  \/ \E s \in NativeSurfaces :
        \/ \E kind \in {"tiles", "external", "backdrop"} :
              NativeCreateSurface(s, kind)
        \/ NativeDestroySurface(s) \/ NativeAddSurface(s)
        \/ \E k \in TileKeys :
              \/ NativeCreateTile(s, k) \/ NativeDestroyTile(s, k)
              \/ BindTile(s, k)

-----------------------------------------------------------------------------
(* Without the native compositor the window's layer is the only one the     *)
(* root shows, however often the window was resized and whatever failed;    *)
(* with it, a frame that was composited shows live layers only.             *)
RootIsOfTheFrame ==
  /\ ~shouldUseNativeCompositor =>
        rootLayers = IF Window = 0 THEN <<>> ELSE <<Window>>
  /\ nativePhase = "composited" =>
        ToSet(rootLayers) \intersect discarded = {}

(* The release asserts of BindNativeLayer and AddSurface: a layer is bound   *)
(* only while it is drawn, so one whose mapping failed is not; the draw     *)
(* target that is locked is that of the bound layer or of the window.       *)
BoundIsMapped ==
  /\ swgl /\ mCurrentlyBoundNativeLayer # 0 =>
        mLayerTarget = mCurrentlyBoundNativeLayer
  /\ mLayerTarget # 0 => mLayerTarget \in {mCurrentlyBoundNativeLayer, Window}
  /\ nativePhase = "idle" => mLayerTarget = 0

(* SWGL's framebuffer never points at a draw target given back.             *)
WindowFramebufferIsMapped ==
  swgl /\ defaultFramebuffer # 0 => mLayerTarget = defaultFramebuffer

(* The count of tiles that the profiler reports is that of the live tiles,  *)
(* whichever way tiles and surfaces go.                                     *)
LiveTiles ==
  {t \in NativeSurfaces \X TileKeys :
     /\ nativeSurfaces[t[1]].kind = "tiles"
     /\ t[2] \in DOMAIN nativeSurfaces[t[1]].layers}
TilesAreCounted == mTotalTiles = Cardinality(LiveTiles)

NativeConsistent ==
  /\ RootIsOfTheFrame /\ BoundIsMapped /\ WindowFramebufferIsMapped
  /\ TilesAreCounted
=============================================================================
