----------------------------- MODULE DCLayerTree -----------------------------
(***************************************************************************)
(* The DirectComposition tree of a window (DCLayerTree.cpp 235-945,        *)
(* 1216-1345, 2027-2190): surfaces and their tiles, the layers of a frame, *)
(* the visuals committed to the screen, drawing into tiles, the cache of   *)
(* framebuffers, and the way back to an ordinary swap chain.               *)
(*                                                                         *)
(* The caller is WebRender, through RenderCompositorANGLE, on the render   *)
(* thread: surface ids are never reused, a tile is drawn at most once in a *)
(* frame, layers are added when all is drawn.  A surface stands for its    *)
(* visual; what a failed creation leaves out makes a later use of it a     *)
(* release assertion, which ends the process.                              *)
(***************************************************************************)
EXTENDS Naturals, Sequences, FiniteSets, SequencesExt

CONSTANTS
  Surfaces,   \* NativeSurfaceIds
  Tiles,      \* tile positions of a surface
  Rects,      \* the valid rects a tile may have; Full is all of it
  Full,
  Sizes2D,    \* sizes of the textures BeginDraw hands out
  MaxAge,     \* frames a framebuffer may be unused: 60 in the code
  MaxFrames,  \* bound: frames
  MaxSlowCommits \* maxSlowCommitCount: 5 in the code

SwapChain == "default swap chain"

ASSUME TreeAssumption ==
  /\ SwapChain \notin Surfaces /\ IsFiniteSet(Sizes2D)
  /\ Full \in Rects /\ MaxAge \in Nat
  /\ MaxFrames \in Nat /\ MaxSlowCommits \in Nat

VARIABLES
  mIsVirtualSurface,  \* the pref, read when a surface is made
  mDCSurfaces, mDCTiles, mAllocatedRectDirty,
  retired,            \* ids that were destroyed
  kept,               \* dcomp: of a virtual surface, what Trim kept
  filled,             \* dcomp: the tiles' buffers drawn in full once
  refused,            \* history: tiles whose first BeginDraw failed
  mCurrentLayers, mPrevLayers,
  root, shown,        \* children of mRootVisual, and as last committed
  mPendingCommit,
  mCurrentSurface,    \* the drawing between Bind and Unbind
  drawn,              \* tiles drawn in this frame
  mFrameBuffers, fbos, \* the cache, and GL's framebuffers
  frames,             \* frames begun
  mUsedOverlayTypesInFrame, mSlowCommitCount,
  treePc,             \* "idle", "update", "add", "crashed", "destroyed"
  mode                \* "native", "disabling", "disabled", "error"

surfaceVars == <<mIsVirtualSurface, mDCSurfaces, mDCTiles,
                 mAllocatedRectDirty, retired, kept>>
drawVars    == <<filled, refused, mCurrentSurface, drawn, mFrameBuffers,
                 fbos>>
layerVars   == <<mCurrentLayers, mPrevLayers, root, shown, mPendingCommit>>
frameVars   == <<frames, mUsedOverlayTypesInFrame, mSlowCommitCount>>
treeVars    == <<surfaceVars, drawVars, layerVars, frameVars, treePc, mode>>

NoTile    == [valid |-> Full, needsFullDraw |-> FALSE, made |-> FALSE]
(* The drawing, and how BeginDraw was called: for the first time in the     *)
(* buffer's life, of all of it, once more after it had failed.              *)
NoDrawing == [bound |-> FALSE, first |-> FALSE, full |-> FALSE,
              again |-> FALSE, fbo |-> 0]

TreeInit ==
  /\ mIsVirtualSurface \in BOOLEAN
  /\ mDCSurfaces = {} /\ retired = {}
  /\ mDCTiles = [s \in Surfaces |-> [t \in Tiles |-> NoTile]]
  /\ mAllocatedRectDirty = [s \in Surfaces |-> TRUE]
  /\ kept = [s \in Surfaces |-> {}] /\ filled = {} /\ refused = {}
  /\ mCurrentLayers = <<>> /\ mPrevLayers = <<>>
  /\ root = <<>> /\ shown = <<>> /\ mPendingCommit = FALSE
  /\ mCurrentSurface = NoDrawing /\ drawn = {}
  /\ mFrameBuffers = {} /\ fbos = {} /\ frames = 0
  /\ mUsedOverlayTypesInFrame = FALSE /\ mSlowCommitCount = 0
  /\ treePc = "idle" /\ mode = "native"

-----------------------------------------------------------------------------
(* Surfaces and tiles                                                       *)

Updating == treePc = "update"

CreateSurface(s) ==
  /\ Updating /\ s \notin mDCSurfaces \cup retired
  /\ mDCSurfaces' = mDCSurfaces \cup {s}
  /\ UNCHANGED <<mIsVirtualSurface, mDCTiles, mAllocatedRectDirty, retired,
                 kept, drawVars, layerVars, frameVars, treePc, mode>>

(* A surface or tile whose Initialize fails is not stored, yet WebRender    *)
(* has its id: its next use is a release assertion.                         *)
CreationFails(s) ==
  /\ Updating /\ s \notin retired
  /\ treePc' = "crashed"
  /\ UNCHANGED <<surfaceVars, drawVars, layerVars, frameVars, mode>>

(* Also after the native compositor was disabled, when the visual is no     *)
(* longer below the root.                                                   *)
DestroySurface(s) ==
  /\ Updating \/ (treePc = "idle" /\ mode # "native")
  /\ s \in mDCSurfaces
  /\ root' = RemoveFirst(root, s)
  /\ mDCSurfaces' = mDCSurfaces \ {s} /\ retired' = retired \cup {s}
  /\ mDCTiles' = [mDCTiles EXCEPT ![s] = [t \in Tiles |-> NoTile]]
  /\ kept' = [kept EXCEPT ![s] = {}]
  /\ filled' = {x \in filled : x[1] # s}
  /\ refused' = {x \in refused : x[1] # s}
  /\ drawn' = {x \in drawn : x[1] # s}
  /\ UNCHANGED <<mIsVirtualSurface, mAllocatedRectDirty, mCurrentSurface,
                 mFrameBuffers, fbos, mCurrentLayers, mPrevLayers, shown,
                 mPendingCommit, frameVars, treePc, mode>>

(* Mutants: tiles come and go, or change, without a new Trim.               *)
DirtyAllocatedRect_NotByTiles(s) == mAllocatedRectDirty
DirtyAllocatedRect(s) ==
  [mAllocatedRectDirty EXCEPT ![s] = @ \/ mIsVirtualSurface]

CreateTile(s, t) ==
  /\ Updating /\ s \in mDCSurfaces /\ ~mDCTiles[s][t].made
  /\ mDCTiles' = [mDCTiles EXCEPT ![s][t] =
       [valid |-> Full, needsFullDraw |-> ~mIsVirtualSurface, made |-> TRUE]]
  /\ mAllocatedRectDirty' = DirtyAllocatedRect(s)
  /\ UNCHANGED <<mIsVirtualSurface, mDCSurfaces, retired, kept, drawVars,
                 layerVars, frameVars, treePc, mode>>

DestroyTile(s, t) ==
  /\ Updating /\ mDCTiles[s][t].made /\ <<s, t>> \notin drawn
  /\ mDCTiles' = [mDCTiles EXCEPT ![s][t] = NoTile]
  /\ mAllocatedRectDirty' = DirtyAllocatedRect(s)
  /\ filled' = filled \ {<<s, t>>} /\ refused' = refused \ {<<s, t>>}
  /\ UNCHANGED <<mIsVirtualSurface, mDCSurfaces, retired, kept,
                 mCurrentSurface, drawn, mFrameBuffers, fbos, layerVars,
                 frameVars, treePc, mode>>

-----------------------------------------------------------------------------
(* Drawing a tile                                                           *)

NewFbo == CHOOSE n \in 1 .. Cardinality(Sizes2D) :
            n \notin {f.fbo : f \in mFrameBuffers}

(* A cached framebuffer of the size, or a new one; either is used now.      *)
GetOrCreateFbo(size) ==
  LET cached == {f \in mFrameBuffers : f.size = size}
      fbo    == IF cached # {} THEN (CHOOSE f \in cached : TRUE).fbo
                ELSE NewFbo
  IN  [size |-> size, fbo |-> fbo, age |-> 0]

(* BeginDraw.  The first of a buffer must be of all of it: dcomp refuses    *)
(* another, as it may refuse any, and then there is no framebuffer (0).     *)
(* HandleWebRenderError(BEGIN_DRAW) only tells the compositor: the frame    *)
(* and the frames after it go on.                                           *)
CreateEGLSurfaceForCompositionSurface(x, full) ==
  LET first == ~mIsVirtualSurface /\ x \notin filled
      Drawing(fbo) == [bound |-> TRUE, first |-> first, full |-> full,
                       again |-> x \in refused, fbo |-> fbo]
  IN
  \/ \E size \in Sizes2D :
       LET fb == GetOrCreateFbo(size) IN
       /\ first => full
       /\ mFrameBuffers' = {f \in mFrameBuffers : f.size # size} \cup {fb}
       /\ fbos' = IF \E f \in mFrameBuffers : f.size = size THEN fbos
                  ELSE fbos \cup {fb.fbo}
       /\ mCurrentSurface' = Drawing(fb.fbo)
       /\ filled' = IF first THEN filled \cup {x} ELSE filled
       /\ refused' = refused \ {x}
  \/ /\ mCurrentSurface' = Drawing(0)
     /\ refused' = IF first THEN refused \cup {x} ELSE refused
     /\ UNCHANGED <<mFrameBuffers, fbos, filled>>

(* Mutant: a new tile is drawn as WebRender asks.                           *)
DrawsFull_AsAsked(tile, partial) == ~partial

(* A partial dirty rect becomes the whole tile the first time.              *)
DrawsFull(tile, partial) == ~partial \/ tile.needsFullDraw

(* The tile counts as drawn in full before BeginDraw is called.             *)
Bind(s, t, valid, partial) ==
  LET tile == mDCTiles[s][t] IN
  /\ Updating /\ ~mCurrentSurface.bound
  /\ tile.made /\ <<s, t>> \notin drawn
  /\ drawn' = drawn \cup {<<s, t>>}
  /\ mDCTiles' = [mDCTiles EXCEPT ![s][t] =
       [tile EXCEPT !.needsFullDraw = FALSE,
                    !.valid = IF mIsVirtualSurface THEN valid ELSE @]]
  /\ mAllocatedRectDirty' = IF tile.valid = valid THEN mAllocatedRectDirty
                            ELSE DirtyAllocatedRect(s)
  /\ CreateEGLSurfaceForCompositionSurface(<<s, t>>, DrawsFull(tile, partial))
  /\ UNCHANGED <<mIsVirtualSurface, mDCSurfaces, retired, kept, layerVars,
                 frameVars, treePc, mode>>

(* EndDraw; the EGL image and the colour buffer go.                         *)
Unbind ==
  /\ mCurrentSurface.bound
  /\ mCurrentSurface' = NoDrawing
  /\ UNCHANGED <<surfaceVars, filled, refused, drawn, mFrameBuffers, fbos,
                 layerVars, frameVars, treePc, mode>>

-----------------------------------------------------------------------------
(* A frame                                                                  *)

CompositorBeginFrame ==
  /\ treePc = "idle" /\ mode = "native" /\ frames < MaxFrames
  /\ frames' = frames + 1
  /\ mFrameBuffers' = {[f EXCEPT !.age = IF @ > MaxAge THEN @ ELSE @ + 1] :
                         f \in mFrameBuffers}
  /\ mUsedOverlayTypesInFrame' = FALSE
  /\ drawn' = {} /\ treePc' = "update"
  /\ UNCHANGED <<surfaceVars, filled, refused, mCurrentSurface, fbos,
                 layerVars, mSlowCommitCount, mode>>

(* The first layer is added when everything is drawn.  Clip and transform   *)
(* are not modelled.                                                        *)
AddSurface(s) ==
  /\ treePc \in {"update", "add"} /\ ~mCurrentSurface.bound
  /\ s \in mDCSurfaces /\ s \notin ToSet(mCurrentLayers)
  /\ mCurrentLayers' = Append(mCurrentLayers, s)
  /\ treePc' = "add"
  /\ UNCHANGED <<surfaceVars, drawVars, mPrevLayers, root, shown,
                 mPendingCommit, frames, mSlowCommitCount, mode>>

(* Mutants: layers in another order count as the same; the layers of one    *)
(* frame are left for the next.                                             *)
SameLayers_AsSets == ToSet(mPrevLayers) = ToSet(mCurrentLayers)
LayersLeft_All    == mCurrentLayers

SameLayers == mPrevLayers = mCurrentLayers
LayersLeft == <<>>

(* Trim to the tiles' valid rects where they may have changed.              *)
UpdateAllocatedRect(s) ==
  IF mIsVirtualSurface /\ mAllocatedRectDirty[s] /\ s \in ToSet(mCurrentLayers)
  THEN {<<t, mDCTiles[s][t].valid>> : t \in {u \in Tiles : mDCTiles[s][u].made}}
  ELSE kept[s]

CompositorEndFrame(slow) ==
  LET old   == {f \in mFrameBuffers : f.age > MaxAge}
      count == IF slow /\ mUsedOverlayTypesInFrame
               THEN mSlowCommitCount + 1 ELSE 0
  IN
  /\ treePc \in {"update", "add"} /\ ~mCurrentSurface.bound
  /\ root' = IF SameLayers THEN root ELSE mCurrentLayers
  /\ kept' = [s \in Surfaces |-> UpdateAllocatedRect(s)]
  /\ mAllocatedRectDirty' = [s \in Surfaces |->
       mAllocatedRectDirty[s] /\ s \notin ToSet(mCurrentLayers)]
  /\ mPrevLayers' = mCurrentLayers /\ mCurrentLayers' = LayersLeft
  /\ shown' = root'
  /\ mFrameBuffers' = mFrameBuffers \ old
  /\ fbos' = fbos \ {f.fbo : f \in old}
  /\ mSlowCommitCount' = IF count > MaxSlowCommits THEN mSlowCommitCount
                         ELSE count
  /\ treePc' = "idle"
  /\ UNCHANGED <<mIsVirtualSurface, mDCSurfaces, mDCTiles, retired, filled,
                 refused, mCurrentSurface, drawn, mPendingCommit, frames,
                 mUsedOverlayTypesInFrame, mode>>

(* Whether this commit is one slow commit too many for the video overlays.  *)
CommitsTooSlow(slow) ==
  slow /\ mUsedOverlayTypesInFrame /\ mSlowCommitCount >= MaxSlowCommits

-----------------------------------------------------------------------------
(* From the native compositor to a swap chain, and the end                  *)

(* GL's framebuffers are deleted; the cache still lists them.               *)
ReleaseNativeCompositorResources == fbos' = {} /\ UNCHANGED mFrameBuffers

(* RenderCompositorANGLE::EnableNativeCompositor(false): the swap chain may *)
(* not be made.                                                             *)
DisableNativeCompositor(ok) ==
  /\ treePc = "idle" /\ mode = "native" /\ ~mCurrentSurface.bound
  /\ ReleaseNativeCompositorResources
  /\ mPrevLayers' = <<>>
  /\ root' = IF ok THEN <<SwapChain>> ELSE <<>>
  /\ mPendingCommit' = (ok \/ mPendingCommit)
  /\ mode' = IF ok THEN "disabling" ELSE "error"
  /\ UNCHANGED <<surfaceVars, filled, refused, mCurrentSurface, drawn,
                 mCurrentLayers, shown, frameVars, treePc>>

(* RenderCompositorANGLE::EndFrame, once the swap chain was presented.      *)
MaybeCommit ==
  /\ treePc = "idle" /\ mode = "disabling"
  /\ shown' = IF mPendingCommit THEN root ELSE shown
  /\ mode' = "disabled"
  /\ UNCHANGED <<surfaceVars, drawVars, mCurrentLayers, mPrevLayers, root,
                 mPendingCommit, frameVars, treePc>>

(* With the renderer, also after an error.                                  *)
TreeDestroyed ==
  /\ treePc = "idle"
  /\ ReleaseNativeCompositorResources
  /\ treePc' = "destroyed"
  /\ UNCHANGED <<surfaceVars, filled, refused, mCurrentSurface, drawn,
                 layerVars, frameVars, mode>>

-----------------------------------------------------------------------------
(* Between frames the screen shows the last frame's layers, in their order, *)
(* although the tree is rebuilt only when the list of layers changed; once  *)
(* the native compositor is off, it shows the swap chain.                   *)
LayersAreShown ==
  treePc = "idle" => /\ mode = "native"   => shown = mPrevLayers
                     /\ mode = "disabled" => shown = <<SwapChain>>

(* A virtual surface that is shown keeps the pixels of the valid rects of   *)
(* its tiles and no others, whatever was made, destroyed or drawn since it  *)
(* was trimmed last, also while it was not shown.                           *)
TrimKeepsValidRects ==
  treePc = "idle" /\ mode = "native" /\ mIsVirtualSurface =>
    \A s \in ToSet(mPrevLayers) :
      kept[s] = {<<t, mDCTiles[s][t].valid>> :
                   t \in {u \in Tiles : mDCTiles[s][u].made}}

(* "dcomp requires that the first BeginDraw on a non-virtual surface is the *)
(* full size of the pixel buffer" (DCLayerTree.cpp:725).  Not so of the     *)
(* code: the tile counts as drawn although BeginDraw failed, and the next   *)
(* frame may draw a part of it.                                             *)
FirstDrawIsFull ==
  mCurrentSurface.bound /\ mCurrentSurface.first => mCurrentSurface.full

(* What is left of it: the rule holds until a first BeginDraw has failed,   *)
(* for that tile.                                                           *)
FirstDrawIsFullUnlessRefused ==
  mCurrentSurface.bound /\ mCurrentSurface.first =>
    mCurrentSurface.full \/ mCurrentSurface.again

(* The framebuffer handed to WebRender exists, and none is left that the    *)
(* cache does not know.                                                     *)
CachedFbosExist ==
  mode = "native" /\ treePc # "destroyed" =>
    /\ fbos = {f.fbo : f \in mFrameBuffers}
    /\ mCurrentSurface.fbo \in fbos \cup {0}
=============================================================================
