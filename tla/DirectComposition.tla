-------------------------- MODULE DirectComposition --------------------------
(***************************************************************************)
(* A window's DirectComposition tree with one external surface in it, a    *)
(* video: adding the external surface to a frame presents it first, its    *)
(* overlay counts for the slow commits of the tree, and it goes when its   *)
(* surface is destroyed.                                                   *)
(***************************************************************************)
EXTENDS DCLayerTree, DCSurfaceVideo

CONSTANTS VideoId,   \* the id of the external surface
          Scenes     \* the sets of surfaces WebRender may use

ASSUME CompositionAssumption ==
  /\ VideoId \in Surfaces /\ Scenes \subseteq SUBSET Surfaces

VARIABLE inUse   \* the scene that is drawn

vars == <<treeVars, videoVars, inUse>>

Init == TreeInit /\ VideoInit /\ inUse \in Scenes

-----------------------------------------------------------------------------
TileSurfaces == inUse \ {VideoId}

TreeStep ==
  \/ \E s \in inUse : CreateSurface(s) \/ CreationFails(s)
  \/ \E s \in TileSurfaces : DestroySurface(s)
  \/ \E s \in TileSurfaces, t \in Tiles :
       \/ CreateTile(s, t) \/ DestroyTile(s, t)
       \/ \E r \in Rects, partial \in BOOLEAN : Bind(s, t, r, partial)
  \/ Unbind
  \/ CompositorBeginFrame
  \/ \E ok \in BOOLEAN : DisableNativeCompositor(ok)
  \/ MaybeCommit

(* Tiles have no image to present.                                          *)
AddTiles(s) == /\ AddSurface(s)
               /\ UNCHANGED <<mUsedOverlayTypesInFrame, videoVars>>

(* Images are attached once the surface exists, before layers are added.    *)
AttachVideo(x) ==
  /\ Updating /\ VideoId \in mDCSurfaces /\ ~mCurrentSurface.bound
  /\ AttachExternalImage(x)
  /\ UNCHANGED treeVars

(* PresentExternalSurface, and when it is over the layer is added.          *)
AddExternal ==
  /\ treePc \in {"update", "add"} /\ VideoId \in mDCSurfaces
  /\ VideoId \notin ToSet(mCurrentLayers) /\ ~mCurrentSurface.bound
  /\ PresentExternalSurface
  /\ mUsedOverlayTypesInFrame' =
       (mUsedOverlayTypesInFrame \/ mSurface = "video")
  /\ IF videoPc' = "present"
     THEN UNCHANGED <<surfaceVars, drawVars, layerVars, frames,
                      mSlowCommitCount, treePc, mode>>
     ELSE AddSurface(VideoId)

(* ~DCSurfaceVideo releases the chain and its handle.                       *)
DestroyVideo ==
  /\ videoPc = "idle" /\ mSurface' = "destroyed"
  /\ DestroySurface(VideoId)
  /\ ReleaseDecodeSwapChainResources
  /\ UNCHANGED <<mRenderTextureHost, mPrevTexture, mDcompTextureHost,
                 mSwapChainSize, mIsDRM, mFailedYuvSwapChain,
                 mVpAutoHDRFailed, mFirstPresent, mSlowPresentCount,
                 mVideoOutputSize, content, videoPc, tried, errors>>

EndFrame(slow) ==
  /\ videoPc = "idle"
  /\ CompositorEndFrame(slow)
  /\ errors' = errors \cup (IF CommitsTooSlow(slow) /\ mSurface = "video"
                            THEN {"disabled"} ELSE {})
  /\ UNCHANGED <<texVars, chainVars, mSlowPresentCount, mVideoOutputSize,
                 content, videoPc, tried>>

Next ==
  \/ /\ videoPc = "idle"
     /\ TreeStep
     /\ UNCHANGED videoVars
  \/ /\ videoPc = "idle"
     /\ \E s \in TileSurfaces : AddTiles(s)
  \/ \E x \in Textures \cup DcompTextures : AttachVideo(x)
  \/ AddExternal \/ DestroyVideo
  \/ \E slow \in BOOLEAN : EndFrame(slow)
  \/ TreeDestroyed /\ UNCHANGED videoVars

Step == Next /\ UNCHANGED inUse
Spec == Init /\ [][Step]_vars

-----------------------------------------------------------------------------
(* The tree: what is shown and kept, which draws are full, and where.       *)
TreeConsistent ==
  /\ LayersAreShown /\ TrimKeepsValidRects
  /\ FirstDrawIsFullUnlessRefused /\ CachedFbosExist
=============================================================================
