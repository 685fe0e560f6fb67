------------------------ MODULE DirectCompositionProofs ------------------------
(***************************************************************************)
(* The tree of surfaces and layers that DCLayerTree keeps is what the      *)
(* screen shows, and a video surface shows the image it was given last:    *)
(* for any surfaces, tiles, sizes and textures, and whichever call fails.  *)
(***************************************************************************)
EXTENDS DirectComposition, Integers, FiniteSetTheorems, SequenceTheorems, TLAPS

-----------------------------------------------------------------------------
(* The inductive invariant                                                  *)

(* The values the video surface's state takes.                             *)
SwapChains ==
  [format : {"none", "YUV", "RGB", "HDR"}, size : Sizes \cup {0},
   drm : BOOLEAN, shown : Textures \cup {NoTexture}]
VideoTypeOK ==
  /\ mSurface \in {"none", "video", "handle", "destroyed"}
  /\ mRenderTextureHost \in Textures \cup {NoTexture}
  /\ mVideoSwapChain \in SwapChains
  /\ openHandles \in Int
  /\ mIsDRM \in BOOLEAN /\ mUseVpAutoHDR \in BOOLEAN
  /\ mSwapChainSurfaceHandle \in BOOLEAN
  /\ mFailedYuvSwapChain \in BOOLEAN /\ mVpAutoHDRFailed \in BOOLEAN

(* VideoConsistent is inductive once the values are known; a wrapper that  *)
(* was destroyed is asked for nothing.                                     *)
VideoInv ==
  /\ VideoTypeOK /\ VideoConsistent
  /\ mSurface = "destroyed" => VideoId \in retired

(* The values the tree's state takes.                                      *)
TileRecords == [valid : Rects, needsFullDraw : BOOLEAN, made : BOOLEAN]
TreeTypeOK ==
  /\ inUse \in Scenes
  /\ mIsVirtualSurface \in BOOLEAN
  /\ mDCSurfaces \subseteq Surfaces /\ retired \subseteq Surfaces
  /\ mDCSurfaces \cap retired = {}
  /\ mDCTiles \in [Surfaces -> [Tiles -> TileRecords]]
  /\ mAllocatedRectDirty \in [Surfaces -> BOOLEAN]
  /\ kept \in [Surfaces -> SUBSET (Tiles \X Rects)]
  /\ filled \subseteq Surfaces \X Tiles /\ drawn \subseteq Surfaces \X Tiles
  /\ refused \subseteq Surfaces \X Tiles
  /\ mCurrentLayers \in Seq(Surfaces) /\ mPrevLayers \in Seq(Surfaces)
  /\ treePc \in {"idle", "update", "add", "crashed", "destroyed"}
  /\ mode \in {"native", "disabling", "disabled", "error"}

(* What is shown is what the last frame had, and the tree still is that    *)
(* unless one of its surfaces is gone.  Layers are added of surfaces that  *)
(* exist, and none of those goes before the frame is over.                 *)
LayersInv ==
  /\ treePc # "add" => mCurrentLayers = <<>>
  /\ ToSet(mCurrentLayers) \subseteq mDCSurfaces
  /\ treePc \in {"update", "add", "crashed"} => mode = "native"
  /\ mode = "native" =>
       /\ shown = mPrevLayers
       /\ ToSet(mPrevLayers) \subseteq mDCSurfaces \cup retired
       /\ ToSet(mPrevLayers) \subseteq mDCSurfaces => root = mPrevLayers
  /\ mode = "disabling" => root = <<SwapChain>> /\ mPendingCommit
  /\ mode = "disabled" => shown = <<SwapChain>>

(* The rects of its tiles now.                                             *)
ValidRects(s) ==
  {<<t, mDCTiles[s][t].valid>> : t \in {u \in Tiles : mDCTiles[s][u].made}}

(* A virtual surface whose allocated rect is not dirty was trimmed to what *)
(* its tiles are now, and one that is shown is not dirty.                  *)
TrimInv ==
  /\ mIsVirtualSurface =>
       \A s \in Surfaces : mAllocatedRectDirty[s] \/ kept[s] = ValidRects(s)
  /\ treePc = "idle" /\ mode = "native" =>
       \A s \in ToSet(mPrevLayers) : ~mAllocatedRectDirty[s]

(* A tile whose buffer was never filled is yet to be drawn in full, or its *)
(* first BeginDraw has failed.                                             *)
DrawInv ==
  /\ ~mIsVirtualSurface =>
       \A s \in Surfaces : \A t \in Tiles :
         mDCTiles[s][t].made /\ <<s, t>> \notin filled =>
           mDCTiles[s][t].needsFullDraw \/ <<s, t>> \in refused
  /\ FirstDrawIsFullUnlessRefused

(* The cache has a framebuffer of each size at most, each with a number of *)
(* its own; there are enough numbers for all sizes.                        *)
FbosInv ==
  /\ \A f \in mFrameBuffers :
       f.size \in Sizes2D /\ f.fbo \in 1 .. Cardinality(Sizes2D)
  /\ \A f, g \in mFrameBuffers : f.size = g.size \/ f.fbo = g.fbo => f = g
  /\ CachedFbosExist
  /\ ~mCurrentSurface.bound => mCurrentSurface.fbo = 0

(* All that is kept of the tree.                                           *)
TreeInv == TreeTypeOK /\ LayersInv /\ TrimInv /\ DrawInv /\ FbosInv

-----------------------------------------------------------------------------
(* The surface of a video                                                   *)

(* The surface as it is made.                                              *)
LEMMA VideoInitInv == VideoInit => VideoInv
<1> SUFFICES ASSUME VideoInit PROVE VideoInv
  OBVIOUS
<1>1. NoChain \in SwapChains
  BY DEF NoChain, SwapChains
<1>2. VideoTypeOK
  <2>1. openHandles \in Int
    BY DEF VideoInit
  <2> QED
    BY <1>1, <2>1 DEF VideoInit, VideoTypeOK
<1>3. PresentedIsShown /\ ChainIsUpToDate
  BY DEF VideoInit, PresentedIsShown, ChainIsUpToDate
<1>4. HandlesAreClosed
  BY DEF VideoInit, HandlesAreClosed
<1> QED
  BY <1>2, <1>3, <1>4 DEF VideoInv, VideoConsistent, VideoInit

(* An image that replaces the one shown is not the one presented last.     *)
LEMMA AttachInv ==
  ASSUME VideoTypeOK, VideoConsistent, mSurface # "destroyed",
         NEW x \in Textures \cup DcompTextures, AttachExternalImage(x)
  PROVE  VideoTypeOK' /\ VideoConsistent' /\ mSurface' # "destroyed"
<1>1. mSurface' \in {"none", "video", "handle"}
  BY DEF AttachExternalImage, EnsureSurfaceForExternalImage, VideoTypeOK
<1>2. /\ mRenderTextureHost' \in Textures \cup {NoTexture}
      /\ mRenderTextureHost' = mRenderTextureHost
           \/ mRenderTextureHost' # mPrevTexture
  <2>1. CASE mSurface' = "video"
    BY <2>1 DEF AttachExternalImage, AttachToVideo, VideoTypeOK
  <2>2. CASE mSurface' = "handle"
    BY <2>2 DEF AttachExternalImage, AttachToHandle, VideoTypeOK
  <2>3. CASE mSurface' = "none"
    BY <2>3 DEF AttachExternalImage, VideoTypeOK
  <2> QED
    BY <1>1, <2>1, <2>2, <2>3
<1>3. UNCHANGED <<mPrevTexture, mVideoSwapChain, mSwapChainSize, mIsDRM,
                  mUseVpAutoHDR, mSwapChainSurfaceHandle, openHandles,
                  mFailedYuvSwapChain, mVpAutoHDRFailed, videoPc, errors>>
  BY DEF AttachExternalImage, chainVars
<1>4. VideoTypeOK'
  BY <1>1, <1>2, <1>3 DEF VideoTypeOK, SwapChains
<1>5. PresentedIsShown'
  BY <1>2, <1>3 DEF VideoConsistent, PresentedIsShown
<1>6. ChainIsUpToDate' /\ HandlesAreClosed'
  BY <1>3 DEF VideoConsistent, ChainIsUpToDate, HandlesAreClosed
<1> QED
  BY <1>1, <1>4, <1>5, <1>6 DEF VideoConsistent

(* The attempts for a chain: the first format is the one that HDR and the  *)
(* failures so far call for, and only a first one may be HDR.              *)
LEMMA FormatsFacts ==
  ASSUME NEW hdr \in BOOLEAN, mFailedYuvSwapChain \in BOOLEAN
  PROVE  LET formats == FormatsTried(hdr)
         IN /\ formats \in Seq({"YUV", "RGB", "HDR"}) /\ Len(formats) \in 1 .. 2
            /\ \A k \in 1 .. Len(formats) : formats[k] \in {"YUV", "RGB", "HDR"}
            /\ (formats[1] = "HDR") = hdr
            /\ Len(formats) = 2 => formats[2] # "HDR"
<1> DEFINE first == GetSwapChainFormat(hdr, mFailedYuvSwapChain)
           other == GetSwapChainFormat(FALSE, mFailedYuvSwapChain)
           formats == FormatsTried(hdr)
<1>1. /\ first \in {"YUV", "RGB", "HDR"} /\ (first = "HDR") = hdr
      /\ other \in {"YUV", "RGB"}
  BY VideoAssumption DEF GetSwapChainFormat
<1>2. /\ first = "YUV" => formats = <<first>> \o <<first>>
      /\ first = "HDR" => formats = <<first>> \o <<other>>
      /\ first = "RGB" => formats = <<first>> \o <<>>
  BY DEF FormatsTried
<1> HIDE DEF first, other, formats
<1>3. CASE first = "YUV"
  <2>1. formats = <<first, first>>
    BY <1>2, <1>3
  <2> QED
    BY <1>1, <1>3, <2>1 DEF formats
<1>4. CASE first = "HDR"
  <2>1. formats = <<first, other>>
    BY <1>2, <1>4
  <2> QED
    BY <1>1, <1>4, <2>1 DEF formats
<1>5. CASE first = "RGB"
  <2>1. formats = <<first>>
    BY <1>2, <1>5
  <2> QED
    BY <1>1, <1>5, <2>1 DEF formats
<1> QED
  BY <1>1, <1>3, <1>4, <1>5

(* A chain that is made anew is of the size, DRM and HDR asked for, or is  *)
(* none; the handles of the attempts that failed are closed, but for one   *)
(* when HDR is given up.                                                   *)
LEMMA CreateChainInv ==
  ASSUME VideoTypeOK, VideoConsistent, NEW size \in Sizes,
         NEW hdr \in BOOLEAN, NEW drm \in BOOLEAN,
         hdr => ~mVpAutoHDRFailed, CreateVideoSwapChain(size, hdr, drm)
  PROVE  /\ mVideoSwapChain' \in SwapChains /\ openHandles' \in Int
         /\ mIsDRM' \in BOOLEAN /\ mUseVpAutoHDR' \in BOOLEAN
         /\ mSwapChainSurfaceHandle' \in BOOLEAN
         /\ mFailedYuvSwapChain' \in BOOLEAN /\ mVpAutoHDRFailed' \in BOOLEAN
         /\ ChainIsUpToDate' /\ HandlesAreClosed'
<1> DEFINE formats == FormatsTried(hdr)
<1>1. PICK n \in 1 .. Len(formats), ok \in BOOLEAN, handle \in BOOLEAN,
           replaced \in 0 .. 1 :
        /\ ok => handle
        /\ replaced = 0 \/ (n > 1 /\ formats[1] = "HDR")
        /\ mVideoSwapChain' = IF ok THEN [format |-> formats[n], size |-> size,
                                          drm |-> drm, shown |-> NoTexture]
                              ELSE NoChain
        /\ mSwapChainSurfaceHandle' = handle
        /\ openHandles' = HandlesLeft(openHandles) + replaced
                          + (IF handle THEN 1 ELSE 0)
        /\ mFailedYuvSwapChain' =
             (mFailedYuvSwapChain \/ (n > 1 /\ formats[1] = "YUV"))
        /\ mVpAutoHDRFailed' = (mVpAutoHDRFailed \/ (hdr /\ n > 1))
        /\ mUseVpAutoHDR' = (hdr /\ n = 1)
        /\ mSwapChainSize' = size /\ mIsDRM' = drm
  BY DEF CreateVideoSwapChain
<1>2. /\ Len(formats) \in 1 .. 2
      /\ \A k \in 1 .. Len(formats) : formats[k] \in {"YUV", "RGB", "HDR"}
      /\ (formats[1] = "HDR") = hdr
      /\ Len(formats) = 2 => formats[2] # "HDR"
  BY FormatsFacts DEF VideoTypeOK
<1> HIDE DEF formats
<1>3. /\ formats[n] \in {"YUV", "RGB", "HDR"} /\ n \in 1 .. 2
      /\ (formats[n] = "HDR") = (hdr /\ n = 1)
  <2>1. CASE n = 1
    <3>1. /\ formats[1] \in {"YUV", "RGB", "HDR"}
          /\ (formats[1] = "HDR") = hdr
      BY <1>2
    <3> QED
      BY <2>1, <3>1
  <2>2. CASE n # 1
    <3>1. Len(formats) = 1 \/ Len(formats) = 2
      BY <1>2
    <3>2. Len(formats) = 2
      BY <2>2, <3>1
    <3>3. n = 2
      BY <2>2, <3>2
    <3>4. formats[2] \in {"YUV", "RGB", "HDR"} /\ formats[2] # "HDR"
      BY <1>2, <3>2
    <3> QED
      BY <3>3, <3>4
  <2> QED
    BY <2>1, <2>2
<1>4. mVideoSwapChain' \in SwapChains
  BY <1>1, <1>3 DEF SwapChains, NoChain
<1>5. ChainIsUpToDate'
  BY <1>1, <1>3 DEF ChainIsUpToDate
<1>6. openHandles \in Int /\ mSwapChainSurfaceHandle \in BOOLEAN
        /\ mVpAutoHDRFailed \in BOOLEAN /\ mFailedYuvSwapChain \in BOOLEAN
  BY DEF VideoTypeOK
<1>7. HandlesLeft(openHandles) \in Int
        /\ HandlesLeft(openHandles) <= (IF mVpAutoHDRFailed THEN 1 ELSE 0)
  BY <1>6 DEF HandlesLeft, VideoConsistent, HandlesAreClosed
<1>8. replaced <= (IF mVpAutoHDRFailed' THEN 1 ELSE 0)
                  - (IF mVpAutoHDRFailed THEN 1 ELSE 0)
  <2>1. CASE replaced = 0
    BY <1>1, <1>6, <2>1
  <2>2. CASE replaced # 0
    <3>1. hdr /\ n > 1 /\ replaced = 1
      BY <1>1, <1>2, <2>2
    <3>2. mVpAutoHDRFailed = FALSE /\ mVpAutoHDRFailed' = TRUE
      BY <1>1, <1>6, <3>1
    <3> QED
      BY <3>1, <3>2
  <2> QED
    BY <2>1, <2>2
<1>9. openHandles' \in Int
        /\ openHandles' <= (IF mSwapChainSurfaceHandle' THEN 1 ELSE 0)
                           + (IF mVpAutoHDRFailed' THEN 1 ELSE 0)
  BY <1>1, <1>7, <1>8
<1> QED
  BY <1>1, <1>4, <1>5, <1>6, <1>9 DEF HandlesAreClosed

(* The size, DRM and HDR of a chain that is kept are those asked for; one  *)
(* that is new is presented, or else the texture was.                      *)
LEMMA CalculateInv ==
  ASSUME VideoTypeOK, VideoConsistent, NEW size \in Sizes,
         NEW wantsHDR \in BOOLEAN, CalculateSwapChainSize(size, wantsHDR)
  PROVE  VideoTypeOK' /\ VideoConsistent' /\ mSurface' # "destroyed"
<1> DEFINE hdr == wantsHDR /\ ~mVpAutoHDRFailed
           drm == mRenderTextureHost \in DRM
           recreated == MustRecreate(size, hdr, drm)
<1>1. hdr \in BOOLEAN /\ drm \in BOOLEAN /\ (hdr => ~mVpAutoHDRFailed)
  OBVIOUS
<1>2. /\ videoPc = "idle" /\ mSurface = "video"
      /\ UNCHANGED <<mSurface, mRenderTextureHost, mPrevTexture, errors>>
      /\ videoPc' = IF mVideoOutputSize' # 0 /\ NeedsToPresent(recreated)
                    THEN "present" ELSE "idle"
  BY DEF CalculateSwapChainSize, texVars
<1>3. \/ mVideoOutputSize' = 0 /\ UNCHANGED chainVars
      \/ /\ mVideoOutputSize' # 0 /\ recreated
         /\ CreateVideoSwapChain(size, hdr, drm)
      \/ /\ mVideoOutputSize' # 0 /\ ~recreated /\ mUseVpAutoHDR' = hdr
         /\ UNCHANGED <<mVideoSwapChain, mSwapChainSize, mIsDRM,
                        mSwapChainSurfaceHandle, openHandles,
                        mVpAutoHDRFailed, mFailedYuvSwapChain>>
  BY DEF CalculateSwapChainSize
<1>4. ~recreated => mUseVpAutoHDR = hdr
  BY <1>1 DEF MustRecreate
<1>5. recreated => NeedsToPresent(recreated)
  BY DEF NeedsToPresent
<1>6. mPrevTexture # mRenderTextureHost => NeedsToPresent(recreated)
  BY DEF NeedsToPresent
<1> HIDE DEF hdr, drm, recreated
<1>7. CASE mVideoOutputSize' # 0 /\ recreated
  <2>1. /\ mVideoSwapChain' \in SwapChains /\ openHandles' \in Int
        /\ mIsDRM' \in BOOLEAN /\ mUseVpAutoHDR' \in BOOLEAN
        /\ mSwapChainSurfaceHandle' \in BOOLEAN
        /\ mFailedYuvSwapChain' \in BOOLEAN /\ mVpAutoHDRFailed' \in BOOLEAN
        /\ ChainIsUpToDate' /\ HandlesAreClosed'
    BY <1>1, <1>3, <1>7, CreateChainInv
  <2>2. videoPc' = "present"
    BY <1>2, <1>5, <1>7
  <2>3. PresentedIsShown'
    BY <2>2 DEF PresentedIsShown
  <2>4. VideoTypeOK'
    BY <1>2, <2>1 DEF VideoTypeOK, SwapChains
  <2> QED
    BY <1>2, <2>1, <2>3, <2>4 DEF VideoConsistent
<1>8. CASE ~(mVideoOutputSize' # 0 /\ recreated)
  <2>1. /\ UNCHANGED <<mVideoSwapChain, mSwapChainSize, mIsDRM,
                       mSwapChainSurfaceHandle, openHandles,
                       mVpAutoHDRFailed, mFailedYuvSwapChain>>
        /\ mUseVpAutoHDR' = mUseVpAutoHDR
    BY <1>3, <1>4, <1>8 DEF chainVars
  <2>2. VideoTypeOK'
    BY <1>2, <2>1 DEF VideoTypeOK, SwapChains
  <2>3. PresentedIsShown'
    BY <1>2, <2>1 DEF VideoConsistent, PresentedIsShown
  <2>4. ChainIsUpToDate' /\ HandlesAreClosed'
    BY <2>1 DEF VideoConsistent, ChainIsUpToDate, HandlesAreClosed
  <2> QED
    BY <1>2, <2>2, <2>3, <2>4 DEF VideoConsistent
<1> QED
  BY <1>7, <1>8

(* ReleaseDecodeSwapChainResources closes what it has and leaves no chain. *)
LEMMA ReleaseInv ==
  ASSUME VideoTypeOK, VideoConsistent, ReleaseDecodeSwapChainResources,
         UNCHANGED <<mRenderTextureHost, mIsDRM, mVpAutoHDRFailed>>,
         mFailedYuvSwapChain' \in BOOLEAN,
         mSurface' \in {"none", "video", "handle", "destroyed"}
  PROVE  VideoTypeOK' /\ VideoConsistent'
<1>1. /\ mVideoSwapChain' = NoChain /\ mUseVpAutoHDR' = FALSE
      /\ mSwapChainSurfaceHandle' = FALSE
      /\ openHandles' = HandlesLeft(openHandles)
  BY DEF ReleaseDecodeSwapChainResources
<1>2. NoChain \in SwapChains
  BY DEF NoChain, SwapChains
<1>3. /\ HandlesLeft(openHandles) \in Int
      /\ HandlesLeft(openHandles) <= (IF mVpAutoHDRFailed THEN 1 ELSE 0)
  BY DEF VideoTypeOK, HandlesLeft, VideoConsistent, HandlesAreClosed
<1>4. VideoTypeOK'
  BY <1>1, <1>2, <1>3 DEF VideoTypeOK, SwapChains
<1>5. PresentedIsShown' /\ ChainIsUpToDate'
  BY <1>1 DEF PresentedIsShown, ChainIsUpToDate
<1>6. HandlesAreClosed'
  BY <1>1, <1>3 DEF HandlesAreClosed
<1> QED
  BY <1>4, <1>5, <1>6 DEF VideoConsistent

(* PresentVideo fills the chain, or reports that it did not, or leaves the *)
(* chain for one of another format.                                        *)
LEMMA PresentInv ==
  ASSUME VideoTypeOK, VideoConsistent, PresentVideoStep
  PROVE  VideoTypeOK' /\ VideoConsistent' /\ mSurface' = mSurface
<1>1. CASE PresentVideo_NoChain
  <2>1. /\ UNCHANGED <<mSurface, mRenderTextureHost, mPrevTexture, chainVars>>
        /\ "overlay" \in errors'
    BY <1>1 DEF PresentVideo_NoChain, texVars
  <2>2. PresentedIsShown'
    BY <2>1 DEF PresentedIsShown
  <2> QED
    BY <2>1, <2>2 DEF VideoTypeOK, SwapChains, VideoConsistent, chainVars,
                      ChainIsUpToDate, HandlesAreClosed
<1>2. CASE PresentVideo_BltFails
  <2>1. /\ UNCHANGED <<mSurface, mRenderTextureHost, mPrevTexture>>
    BY <1>2 DEF PresentVideo_BltFails, texVars
  <2>2. CASE mVideoSwapChain.format = "YUV"
    <3>1. /\ ReleaseDecodeSwapChainResources /\ mFailedYuvSwapChain' = TRUE
          /\ UNCHANGED <<mIsDRM, mVpAutoHDRFailed>>
      BY <1>2, <2>2 DEF PresentVideo_BltFails
    <3>2. mSurface' \in {"none", "video", "handle", "destroyed"}
      BY <2>1 DEF VideoTypeOK
    <3> QED
      BY <2>1, <3>1, <3>2, ReleaseInv
  <2>3. CASE mVideoSwapChain.format # "YUV"
    <3>1. UNCHANGED chainVars /\ "overlay" \in errors'
      BY <1>2, <2>3 DEF PresentVideo_BltFails
    <3>2. PresentedIsShown'
      BY <3>1 DEF PresentedIsShown
    <3> QED
      BY <2>1, <3>1, <3>2
         DEF VideoTypeOK, SwapChains, VideoConsistent, chainVars,
             ChainIsUpToDate, HandlesAreClosed
  <2> QED
    BY <2>2, <2>3
<1>3. ASSUME mVpAutoHDRFailed' \in BOOLEAN,
             mVpAutoHDRFailed => mVpAutoHDRFailed',
             UNCHANGED <<mSwapChainSurfaceHandle, openHandles>>
      PROVE  HandlesAreClosed'
  BY <1>3 DEF VideoTypeOK, VideoConsistent, HandlesAreClosed
<1>4. BltDone => /\ mVpAutoHDRFailed' \in BOOLEAN
                 /\ mVpAutoHDRFailed => mVpAutoHDRFailed'
  BY DEF BltDone, VideoTypeOK
<1>5. CASE PresentVideo_FirstFails
  <2>1. /\ UNCHANGED <<mSurface, mRenderTextureHost, mPrevTexture,
             mVideoSwapChain, mSwapChainSize, mIsDRM, mUseVpAutoHDR,
             mSwapChainSurfaceHandle, openHandles, mFailedYuvSwapChain>>
        /\ BltDone /\ "present" \in errors'
    BY <1>5 DEF PresentVideo_FirstFails, texVars
  <2>2. PresentedIsShown'
    BY <2>1 DEF PresentedIsShown
  <2>3. HandlesAreClosed'
    BY <1>3, <1>4, <2>1
  <2>4. ChainIsUpToDate'
    BY <2>1 DEF VideoConsistent, ChainIsUpToDate
  <2>5. VideoTypeOK'
    BY <1>4, <2>1 DEF VideoTypeOK, SwapChains
  <2> QED
    BY <2>1, <2>2, <2>3, <2>4, <2>5 DEF VideoConsistent
<1>6. ASSUME NEW ok \in BOOLEAN, NEW slow \in BOOLEAN, PresentVideo(ok, slow)
      PROVE  VideoTypeOK' /\ VideoConsistent' /\ mSurface' = mSurface
  <2>1. /\ UNCHANGED <<mSurface, mRenderTextureHost, mSwapChainSize, mIsDRM,
             mUseVpAutoHDR, mSwapChainSurfaceHandle, openHandles,
             mFailedYuvSwapChain>>
        /\ BltDone
        /\ mVideoSwapChain' = IF ok THEN [mVideoSwapChain EXCEPT
                                            !.shown = mRenderTextureHost]
                              ELSE mVideoSwapChain
        /\ ok \/ "present" \in errors'
    BY <1>6 DEF PresentVideo
  <2>2. /\ mVideoSwapChain' \in SwapChains
        /\ mVideoSwapChain'.size = mVideoSwapChain.size
        /\ mVideoSwapChain'.drm = mVideoSwapChain.drm
        /\ mVideoSwapChain'.format = mVideoSwapChain.format
        /\ ok => mVideoSwapChain'.shown = mRenderTextureHost
    BY <2>1 DEF VideoTypeOK, SwapChains
  <2>3. mVideoSwapChain # NoChain
    BY <1>6 DEF PresentVideo
  <2>4. ChainIsUpToDate'
    BY <2>1, <2>2, <2>3 DEF VideoConsistent, ChainIsUpToDate
  <2>5. PresentedIsShown'
    BY <2>1, <2>2 DEF PresentedIsShown
  <2>6. HandlesAreClosed'
    BY <1>3, <1>4, <2>1
  <2>7. VideoTypeOK'
    BY <1>4, <2>1, <2>2 DEF VideoTypeOK, SwapChains
  <2> QED
    BY <2>1, <2>4, <2>5, <2>6, <2>7 DEF VideoConsistent
<1> QED
  BY <1>1, <1>2, <1>5, <1>6 DEF PresentVideoStep

(* What leaves the texture, the chain and its handles alone.               *)
LEMMA VideoUnchanged ==
  ASSUME VideoTypeOK, VideoConsistent, UNCHANGED <<texVars, chainVars>>,
         UNCHANGED videoPc,
         errors' \in {errors, errors \cup {"disabled"}}
  PROVE  VideoTypeOK' /\ VideoConsistent' /\ mSurface' = mSurface
<1>1. PresentedIsShown'
  <2>1. errors' \subseteq {"disabled"} => errors \subseteq {"disabled"}
    OBVIOUS
  <2> QED
    BY <2>1 DEF VideoConsistent, PresentedIsShown, texVars, chainVars
<1> QED
  BY <1>1 DEF VideoTypeOK, SwapChains, VideoConsistent, texVars, chainVars,
              ChainIsUpToDate, HandlesAreClosed

(* Presenting, all in all.                                                 *)
LEMMA PresentExternalInv ==
  ASSUME VideoTypeOK, VideoConsistent, mSurface # "destroyed",
         PresentExternalSurface
  PROVE  VideoTypeOK' /\ VideoConsistent' /\ mSurface' # "destroyed"
<1>1. CASE PresentSurfaceHandle
  <2>1. UNCHANGED <<texVars, chainVars, videoPc, errors>>
    BY <1>1 DEF PresentSurfaceHandle
  <2>2. VideoTypeOK' /\ VideoConsistent' /\ mSurface' = mSurface
    BY <2>1, VideoUnchanged
  <2> QED
    BY <2>2
<1> QED
  BY <1>1, CalculateInv, PresentInv DEF PresentExternalSurface

-----------------------------------------------------------------------------
(* Surfaces and what leaves them alone                                      *)

(* Taking out what is not there changes nothing.                           *)
LEMMA RemoveAbsent ==
  ASSUME NEW seq, NEW x, x \notin ToSet(seq)
  PROVE  RemoveFirst(seq, x) = seq
<1>1. ~\E i \in 1 .. Len(seq) : seq[i] = x
  BY DEF ToSet
<1> QED
  BY <1>1 DEF RemoveFirst

(* What a step leaves alone stays as it was: the screen and the layers.    *)
LEMMA LayersUnchanged ==
  ASSUME LayersInv,
         UNCHANGED <<mCurrentLayers, mPrevLayers, root, shown, mPendingCommit,
                     mDCSurfaces, retired, treePc, mode>>
  PROVE  LayersInv'
  BY DEF LayersInv

(* Likewise the rects that were trimmed to.                                *)
LEMMA TrimUnchanged ==
  ASSUME TrimInv,
         UNCHANGED <<mIsVirtualSurface, mDCTiles, mAllocatedRectDirty, kept,
                     mPrevLayers>>,
         treePc' = "idle" /\ mode' = "native" =>
           treePc = "idle" /\ mode = "native"
  PROVE  TrimInv'
  BY DEF TrimInv, ValidRects

(* Likewise the tiles and the drawing.                                     *)
LEMMA DrawUnchanged ==
  ASSUME DrawInv,
         UNCHANGED <<mIsVirtualSurface, mDCTiles, filled, refused,
                     mCurrentSurface>>
  PROVE  DrawInv'
  BY DEF DrawInv, FirstDrawIsFullUnlessRefused

(* Likewise the framebuffers.                                              *)
LEMMA FbosUnchanged ==
  ASSUME FbosInv, UNCHANGED <<mFrameBuffers, fbos, mCurrentSurface>>,
         mode' = "native" /\ treePc' # "destroyed" =>
           mode = "native" /\ treePc # "destroyed"
  PROVE  FbosInv'
  BY DEF FbosInv, CachedFbosExist

(* Nothing at the start.                                                   *)
LEMMA TreeInitInv == TreeInit /\ inUse \in Scenes => TreeInv
<1> SUFFICES ASSUME TreeInit, inUse \in Scenes PROVE TreeInv
  OBVIOUS
<1>1. NoTile \in TileRecords /\ NoTile.made = FALSE
  BY TreeAssumption DEF NoTile, TileRecords
<1>2. <<>> \in Seq(Surfaces) /\ ToSet(<<>>) = {}
  BY DEF ToSet
<1>3. TreeTypeOK
  BY <1>1, <1>2 DEF TreeInit, TreeTypeOK
<1>4. LayersInv
  BY <1>2 DEF TreeInit, LayersInv
<1>5. TrimInv
  BY <1>2 DEF TreeInit, TrimInv
<1>6. DrawInv
  BY <1>1 DEF TreeInit, DrawInv, FirstDrawIsFullUnlessRefused, NoDrawing
<1>7. FbosInv
  BY DEF TreeInit, FbosInv, CachedFbosExist, NoDrawing
<1> QED
  BY <1>3, <1>4, <1>5, <1>6, <1>7 DEF TreeInv

(* A surface that the frame before showed cannot come back.                *)
LEMMA CreateSurfaceInv ==
  ASSUME TreeInv, UNCHANGED inUse, NEW s \in Surfaces, CreateSurface(s)
  PROVE  TreeInv'
<1>1. /\ treePc = "update" /\ s \notin mDCSurfaces \cup retired
      /\ mDCSurfaces' = mDCSurfaces \cup {s}
      /\ UNCHANGED <<mIsVirtualSurface, mDCTiles, mAllocatedRectDirty,
           retired, kept, filled, refused, mCurrentSurface, drawn,
           mFrameBuffers, fbos, mCurrentLayers, mPrevLayers, root, shown,
           mPendingCommit, treePc, mode>>
  BY DEF CreateSurface, Updating, drawVars, layerVars
<1>2. TreeTypeOK'
  BY <1>1 DEF TreeInv, TreeTypeOK
<1>3. LayersInv'
  BY <1>1 DEF TreeInv, LayersInv
<1> QED
  BY <1>1, <1>2, <1>3, TrimUnchanged, DrawUnchanged, FbosUnchanged DEF TreeInv

(* The process ends.                                                       *)
LEMMA CreationFailsInv ==
  ASSUME TreeInv, UNCHANGED inUse, NEW s \in Surfaces, CreationFails(s)
  PROVE  TreeInv'
<1>1. /\ treePc = "update" /\ treePc' = "crashed"
      /\ UNCHANGED <<mIsVirtualSurface, mDCSurfaces, mDCTiles,
           mAllocatedRectDirty, retired, kept, filled, refused,
           mCurrentSurface, drawn, mFrameBuffers, fbos, mCurrentLayers,
           mPrevLayers, root, shown, mPendingCommit, mode>>
  BY DEF CreationFails, Updating, surfaceVars, drawVars, layerVars
<1>2. TreeTypeOK'
  BY <1>1 DEF TreeInv, TreeTypeOK
<1>3. LayersInv'
  BY <1>1 DEF TreeInv, LayersInv
<1> QED
  BY <1>1, <1>2, <1>3, TrimUnchanged, DrawUnchanged, FbosUnchanged DEF TreeInv

(* A surface that goes takes its tiles along, and its visual if the root   *)
(* has it: never the swap chain's.                                         *)
LEMMA DestroySurfaceInv ==
  ASSUME TreeInv, UNCHANGED inUse, NEW s \in Surfaces, DestroySurface(s)
  PROVE  TreeInv'
<1>1. /\ treePc = "update" \/ (treePc = "idle" /\ mode # "native")
      /\ s \in mDCSurfaces /\ root' = RemoveFirst(root, s)
      /\ mDCSurfaces' = mDCSurfaces \ {s} /\ retired' = retired \cup {s}
      /\ mDCTiles' = [mDCTiles EXCEPT ![s] = [t \in Tiles |-> NoTile]]
      /\ kept' = [kept EXCEPT ![s] = {}]
      /\ filled' = {x \in filled : x[1] # s}
      /\ refused' = {x \in refused : x[1] # s}
      /\ drawn' = {x \in drawn : x[1] # s}
      /\ UNCHANGED <<mIsVirtualSurface, mAllocatedRectDirty, mCurrentSurface,
           mFrameBuffers, fbos, mCurrentLayers, mPrevLayers, shown,
           mPendingCommit, treePc, mode>>
  BY DEF DestroySurface, Updating
<1>2. TreeTypeOK
  BY DEF TreeInv
<1>3. NoTile \in TileRecords /\ NoTile.made = FALSE
  BY TreeAssumption DEF NoTile, TileRecords
<1>4. /\ mDCTiles' \in [Surfaces -> [Tiles -> TileRecords]]
      /\ kept' \in [Surfaces -> SUBSET (Tiles \X Rects)]
      /\ mDCTiles'[s] = [t \in Tiles |-> NoTile] /\ kept'[s] = {}
      /\ \A r \in Surfaces \ {s} :
           mDCTiles'[r] = mDCTiles[r] /\ kept'[r] = kept[r]
  BY <1>1, <1>2, <1>3 DEF TreeTypeOK
<1>5. TreeTypeOK'
  BY <1>1, <1>2, <1>4 DEF TreeTypeOK
<1>6. LayersInv'
  <2>1. mCurrentLayers = <<>> /\ ToSet(<<>>) = {}
    BY <1>1 DEF TreeInv, LayersInv, ToSet
  <2>2. treePc = "update" => mode = "native"
    BY DEF TreeInv, LayersInv
  <2>3. mode = "native" /\ ToSet(mPrevLayers) \subseteq mDCSurfaces' =>
          root' = mPrevLayers
    <3>1. SUFFICES ASSUME mode = "native",
                          ToSet(mPrevLayers) \subseteq mDCSurfaces \ {s}
                   PROVE  root' = mPrevLayers
      BY <1>1
    <3>2. root = mPrevLayers
      BY <3>1 DEF TreeInv, LayersInv
    <3> QED
      BY <1>1, <3>1, <3>2, RemoveAbsent
  <2>4. mode = "disabling" => root' = <<SwapChain>>
    <3>1. SUFFICES ASSUME mode = "disabling" PROVE root' = <<SwapChain>>
      OBVIOUS
    <3>2. root = <<SwapChain>>
      BY <3>1 DEF TreeInv, LayersInv
    <3>3. s \notin ToSet(<<SwapChain>>)
      BY TreeAssumption DEF ToSet
    <3> QED
      BY <1>1, <3>2, <3>3, RemoveAbsent
  <2> QED
    BY <1>1, <2>1, <2>2, <2>3, <2>4 DEF TreeInv, LayersInv
<1>7. TrimInv'
  <2>1. ValidRects(s)' = {}
    BY <1>3, <1>4 DEF ValidRects
  <2>2. \A r \in Surfaces \ {s} : ValidRects(r)' = ValidRects(r)
    BY <1>4 DEF ValidRects
  <2> QED
    BY <1>1, <1>4, <2>1, <2>2 DEF TreeInv, TrimInv
<1>8. DrawInv'
  <2>1. ASSUME ~mIsVirtualSurface, NEW r \in Surfaces, NEW t \in Tiles,
               mDCTiles'[r][t].made, <<r, t>> \notin filled'
        PROVE  mDCTiles'[r][t].needsFullDraw \/ <<r, t>> \in refused'
    <3>1. r # s
      BY <1>3, <1>4, <2>1
    <3>2. mDCTiles'[r] = mDCTiles[r] /\ <<r, t>> \notin filled
      BY <1>1, <1>4, <2>1, <3>1
    <3>3. mDCTiles[r][t].needsFullDraw \/ <<r, t>> \in refused
      BY <2>1, <3>2 DEF TreeInv, DrawInv
    <3> QED
      BY <1>1, <3>1, <3>2, <3>3
  <2> QED
    BY <1>1, <2>1 DEF TreeInv, DrawInv, FirstDrawIsFullUnlessRefused
<1> QED
  BY <1>1, <1>5, <1>6, <1>7, <1>8, FbosUnchanged DEF TreeInv

(* A tile becomes this one, and its surface is to be trimmed again unless  *)
(* the valid rect, and whether the tile is there, are what they were.      *)
TileBecomes(s, t, now) ==
  /\ mDCTiles' = [mDCTiles EXCEPT ![s][t] = now]
  /\ \/ mAllocatedRectDirty' = DirtyAllocatedRect(s)
     \/ /\ mAllocatedRectDirty' = mAllocatedRectDirty
        /\ mIsVirtualSurface =>
             /\ now.valid = mDCTiles[s][t].valid
             /\ now.made = mDCTiles[s][t].made
  /\ UNCHANGED <<mIsVirtualSurface, kept, mPrevLayers>>
  /\ treePc' # "idle"

(* Then the surface is still trimmed to its tiles, or is to be.            *)
LEMMA OneTileChanges ==
  ASSUME TreeInv, NEW s \in Surfaces, NEW t \in Tiles,
         NEW now \in TileRecords,
         TileBecomes(s, t, now)
  PROVE  /\ TrimInv'
         /\ mDCTiles' \in [Surfaces -> [Tiles -> TileRecords]]
         /\ mAllocatedRectDirty' \in [Surfaces -> BOOLEAN]
         /\ mDCTiles'[s][t] = now
         /\ \A r \in Surfaces, u \in Tiles :
              r # s \/ u # t => mDCTiles'[r][u] = mDCTiles[r][u]
<1>1. TreeTypeOK
  BY DEF TreeInv
<1>2. /\ mDCTiles' \in [Surfaces -> [Tiles -> TileRecords]]
      /\ mDCTiles'[s][t] = now
      /\ \A r \in Surfaces, u \in Tiles :
           r # s \/ u # t => mDCTiles'[r][u] = mDCTiles[r][u]
  BY <1>1 DEF TreeTypeOK, TileBecomes
<1>3. mIsVirtualSurface \in BOOLEAN
        /\ mAllocatedRectDirty \in [Surfaces -> BOOLEAN]
  BY <1>1 DEF TreeTypeOK
<1>4. mAllocatedRectDirty' \in [Surfaces -> BOOLEAN]
  BY <1>3 DEF DirtyAllocatedRect, TileBecomes
<1>5. \A r \in Surfaces \ {s} :
        mAllocatedRectDirty'[r] = mAllocatedRectDirty[r]
  BY <1>3 DEF DirtyAllocatedRect, TileBecomes
<1>6. \A r \in Surfaces \ {s} : ValidRects(r)' = ValidRects(r)
  BY <1>2 DEF ValidRects, TileBecomes
<1>7. ASSUME mIsVirtualSurface
      PROVE  mAllocatedRectDirty'[s] \/ kept[s] = ValidRects(s)'
  <2>1. CASE mAllocatedRectDirty' = DirtyAllocatedRect(s)
    <3>1. mAllocatedRectDirty'[s] = (mAllocatedRectDirty[s] \/ mIsVirtualSurface)
      BY <1>3, <2>1 DEF DirtyAllocatedRect
    <3> QED
      BY <1>7, <3>1
  <2>2. CASE /\ mAllocatedRectDirty' = mAllocatedRectDirty
             /\ now.valid = mDCTiles[s][t].valid
             /\ now.made = mDCTiles[s][t].made
    <3>1. \A u \in Tiles : /\ mDCTiles'[s][u].valid = mDCTiles[s][u].valid
                           /\ mDCTiles'[s][u].made = mDCTiles[s][u].made
      BY <1>2, <2>2
    <3>2. ValidRects(s)' = ValidRects(s)
      BY <3>1 DEF ValidRects
    <3>3. mAllocatedRectDirty[s] \/ kept[s] = ValidRects(s)
      BY <1>7 DEF TreeInv, TrimInv
    <3> QED
      BY <2>2, <3>2, <3>3 DEF TileBecomes
  <2> QED
    BY <1>7, <2>1, <2>2 DEF TileBecomes
<1>8. TrimInv'
  <2>1. ASSUME mIsVirtualSurface, NEW r \in Surfaces
        PROVE  mAllocatedRectDirty'[r] \/ kept[r] = ValidRects(r)'
    <3>1. CASE r = s
      BY <1>7, <2>1, <3>1
    <3>2. CASE r # s
      <4>1. mAllocatedRectDirty[r] \/ kept[r] = ValidRects(r)
        BY <2>1 DEF TreeInv, TrimInv
      <4> QED
        BY <1>5, <1>6, <3>2, <4>1 DEF TileBecomes
    <3> QED
      BY <3>1, <3>2
  <2> QED
    BY <2>1 DEF TrimInv, TileBecomes
<1> QED
  BY <1>2, <1>4, <1>8

-----------------------------------------------------------------------------
(* Tiles and their drawing                                                  *)

(* A tile that is made is yet to be drawn in full, and trimmed to.         *)
LEMMA CreateTileInv ==
  ASSUME TreeInv, UNCHANGED inUse, NEW s \in Surfaces, NEW t \in Tiles,
         CreateTile(s, t)
  PROVE  TreeInv'
<1>1. /\ treePc = "update"
      /\ mDCTiles' = [mDCTiles EXCEPT ![s][t] =
                       [valid |-> Full, needsFullDraw |-> ~mIsVirtualSurface,
                        made |-> TRUE]]
      /\ mAllocatedRectDirty' = DirtyAllocatedRect(s)
      /\ UNCHANGED <<mIsVirtualSurface, mDCSurfaces, retired, kept, filled,
           refused, mCurrentSurface, drawn, mFrameBuffers, fbos,
           mCurrentLayers, mPrevLayers, root, shown, mPendingCommit, treePc,
           mode>>
  BY DEF CreateTile, Updating, drawVars, layerVars
<1>2. PICK now \in TileRecords :
        now = [valid |-> Full, needsFullDraw |-> ~mIsVirtualSurface,
               made |-> TRUE]
  BY TreeAssumption DEF TreeInv, TreeTypeOK, TileRecords
<1>3. /\ now.needsFullDraw = ~mIsVirtualSurface
      /\ TileBecomes(s, t, now)
  BY <1>1, <1>2 DEF TileBecomes
<1>4. /\ TrimInv'
      /\ mDCTiles' \in [Surfaces -> [Tiles -> TileRecords]]
      /\ mAllocatedRectDirty' \in [Surfaces -> BOOLEAN]
      /\ mDCTiles'[s][t] = now
      /\ \A r \in Surfaces, u \in Tiles :
           r # s \/ u # t => mDCTiles'[r][u] = mDCTiles[r][u]
  BY <1>3, OneTileChanges
<1>5. TreeTypeOK'
  BY <1>1, <1>4 DEF TreeInv, TreeTypeOK
<1>6. LayersInv'
  BY <1>1, LayersUnchanged DEF TreeInv
<1>7. DrawInv'
  <2>1. ASSUME ~mIsVirtualSurface, NEW r \in Surfaces, NEW u \in Tiles,
               mDCTiles'[r][u].made, <<r, u>> \notin filled
        PROVE  mDCTiles'[r][u].needsFullDraw \/ <<r, u>> \in refused
    <3>1. CASE r = s /\ u = t
      BY <1>3, <1>4, <2>1, <3>1
    <3>2. CASE r # s \/ u # t
      BY <1>4, <2>1, <3>2 DEF TreeInv, DrawInv
    <3> QED
      BY <3>1, <3>2
  <2> QED
    BY <1>1, <2>1 DEF TreeInv, DrawInv, FirstDrawIsFullUnlessRefused
<1> QED
  BY <1>1, <1>4, <1>5, <1>6, <1>7, FbosUnchanged DEF TreeInv

(* A tile that goes was not drawn in this frame.                           *)
LEMMA DestroyTileInv ==
  ASSUME TreeInv, UNCHANGED inUse, NEW s \in Surfaces, NEW t \in Tiles,
         DestroyTile(s, t)
  PROVE  TreeInv'
<1>1. /\ treePc = "update"
      /\ mDCTiles' = [mDCTiles EXCEPT ![s][t] = NoTile]
      /\ mAllocatedRectDirty' = DirtyAllocatedRect(s)
      /\ filled' = filled \ {<<s, t>>} /\ refused' = refused \ {<<s, t>>}
      /\ UNCHANGED <<mIsVirtualSurface, mDCSurfaces, retired, kept,
           mCurrentSurface, drawn, mFrameBuffers, fbos, mCurrentLayers,
           mPrevLayers, root, shown, mPendingCommit, treePc, mode>>
  BY DEF DestroyTile, Updating, layerVars
<1>2. NoTile \in TileRecords /\ NoTile.made = FALSE
  BY TreeAssumption DEF NoTile, TileRecords
<1> TileBecomes(s, t, NoTile)
  BY <1>1 DEF TileBecomes
<1>3. /\ TrimInv'
      /\ mDCTiles' \in [Surfaces -> [Tiles -> TileRecords]]
      /\ mAllocatedRectDirty' \in [Surfaces -> BOOLEAN]
      /\ mDCTiles'[s][t] = NoTile
      /\ \A r \in Surfaces, u \in Tiles :
           r # s \/ u # t => mDCTiles'[r][u] = mDCTiles[r][u]
  BY <1>2, OneTileChanges
<1>4. TreeTypeOK'
  BY <1>1, <1>3 DEF TreeInv, TreeTypeOK
<1>5. LayersInv'
  BY <1>1, LayersUnchanged DEF TreeInv
<1>6. DrawInv'
  <2>1. ASSUME ~mIsVirtualSurface, NEW r \in Surfaces, NEW u \in Tiles,
               mDCTiles'[r][u].made, <<r, u>> \notin filled'
        PROVE  mDCTiles'[r][u].needsFullDraw \/ <<r, u>> \in refused'
    <3>1. r # s \/ u # t
      BY <1>2, <1>3, <2>1
    <3>2. <<r, u>> # <<s, t>>
      BY <3>1
    <3>3. <<r, u>> \notin filled /\ mDCTiles'[r][u] = mDCTiles[r][u]
      BY <1>1, <1>3, <2>1, <3>1, <3>2
    <3>4. mDCTiles[r][u].needsFullDraw \/ <<r, u>> \in refused
      BY <2>1, <3>3 DEF TreeInv, DrawInv
    <3> QED
      BY <1>1, <3>2, <3>3, <3>4
  <2> QED
    BY <1>1, <2>1 DEF TreeInv, DrawInv, FirstDrawIsFullUnlessRefused
<1> QED
  BY <1>1, <1>3, <1>4, <1>5, <1>6, FbosUnchanged DEF TreeInv

(* The cache lacks a framebuffer of some size: one of the numbers is free. *)
LEMMA NewFboIsNew ==
  ASSUME FbosInv, NEW size \in Sizes2D,
         \A f \in mFrameBuffers : f.size # size
  PROVE  /\ NewFbo \in 1 .. Cardinality(Sizes2D)
         /\ \A f \in mFrameBuffers : f.fbo # NewFbo
<1> DEFINE S == {f.size : f \in mFrameBuffers}
           T == {f.fbo : f \in mFrameBuffers}
           C == Cardinality(Sizes2D)
           fboOf == [z \in S |-> (CHOOSE f \in mFrameBuffers : f.size = z).fbo]
<1>1. S \subseteq Sizes2D \ {size} /\ T \subseteq 1 .. C
  BY DEF FbosInv
<1>2. \A f \in mFrameBuffers : fboOf[f.size] = f.fbo
  <2>1. ASSUME NEW f \in mFrameBuffers PROVE fboOf[f.size] = f.fbo
    <3>1. \A g \in mFrameBuffers : g.size = f.size => g = f
      BY DEF FbosInv
    <3>2. (CHOOSE g \in mFrameBuffers : g.size = f.size) = f
      BY <3>1
    <3>3. f.size \in S
      OBVIOUS
    <3> QED
      BY <3>2, <3>3
  <2> HIDE DEF fboOf
  <2> QED
    BY <2>1
<1>3. fboOf \in Surjection(S, T)
  <2>1. \A z \in S : fboOf[z] \in T
    <3> HIDE DEF fboOf
    <3> QED
      BY <1>2
  <2>2. \A n \in T : \E z \in S : fboOf[z] = n
    <3> HIDE DEF fboOf
    <3> QED
      BY <1>2
  <2>3. fboOf \in [S -> T]
    BY <2>1
  <2> HIDE DEF fboOf, S, T
  <2> QED
    BY <2>2, <2>3 DEF Surjection
<1>4. /\ IsFiniteSet(Sizes2D \ {size}) /\ C \in Nat
      /\ Cardinality(Sizes2D \ {size}) = C - 1
  BY TreeAssumption, FS_RemoveElement, FS_CardinalityType
<1> HIDE DEF S, fboOf
<1>5. /\ IsFiniteSet(S) /\ Cardinality(S) \in Nat
      /\ Cardinality(S) <= C - 1
  BY <1>1, <1>4, FS_Subset, FS_CardinalityType
<1> HIDE DEF T
<1>6. Cardinality(T) <= Cardinality(S) /\ Cardinality(T) \in Nat
  BY <1>3, <1>5, FS_Surjection, FS_CardinalityType
<1>7. Cardinality(1 .. C) = C
  <2>1. 1 \in Int /\ C \in Int
    BY <1>4
  <2>2. Cardinality(1 .. C) = IF 1 > C THEN 0 ELSE C - 1 + 1
    BY <2>1, FS_Interval, Zenon
  <2> HIDE DEF C
  <2> QED
    BY <1>4, <2>2
<1>8. T # 1 .. C
  <2> HIDE DEF C
  <2> QED
    BY <1>4, <1>5, <1>6, <1>7
<1>9. \E n \in 1 .. C : n \notin T
  BY <1>1, <1>8
<1> QED
  BY <1>9 DEF NewFbo, T

(* A drawing that begins: a framebuffer of the size, cached or new.        *)
LEMMA FrameBufferInv ==
  ASSUME FbosInv, NEW size \in Sizes2D,
         mFrameBuffers' = {f \in mFrameBuffers : f.size # size}
                            \cup {GetOrCreateFbo(size)},
         fbos' = IF \E f \in mFrameBuffers : f.size = size THEN fbos
                 ELSE fbos \cup {GetOrCreateFbo(size).fbo},
         mCurrentSurface'.bound,
         mCurrentSurface'.fbo = GetOrCreateFbo(size).fbo,
         UNCHANGED <<mode, treePc>>
  PROVE  FbosInv'
<1> DEFINE fb == GetOrCreateFbo(size)
           cached == {f \in mFrameBuffers : f.size = size}
           others == {f \in mFrameBuffers : f.size # size}
<1>1. CASE cached # {}
  <2>1. PICK c \in mFrameBuffers : c.size = size
    BY <1>1
  <2>2. (CHOOSE f \in cached : TRUE) = c
    <3>1. cached = {c}
      BY <2>1 DEF FbosInv
    <3> QED
      BY <3>1
  <2>3. fb.size = size /\ fb.fbo = c.fbo
    BY <1>1, <2>2 DEF GetOrCreateFbo
  <2> HIDE DEF fb
  <2>4. mFrameBuffers' = others \cup {fb} /\ fbos' = fbos
    BY <2>1 DEF fb
  <2>5. \A f \in others : f.fbo # c.fbo /\ f.size # size
    BY <2>1 DEF FbosInv
  <2>6. \A f \in mFrameBuffers' :
          f.size \in Sizes2D /\ f.fbo \in 1 .. Cardinality(Sizes2D)
    BY <2>1, <2>3, <2>4 DEF FbosInv
  <2>7. \A f, g \in mFrameBuffers' :
          f.size = g.size \/ f.fbo = g.fbo => f = g
    BY <2>3, <2>4, <2>5 DEF FbosInv
  <2>8. \A f \in mFrameBuffers : f \in others \/ f = c
    BY <2>1 DEF FbosInv
  <2>9. {f.fbo : f \in mFrameBuffers'} = {f.fbo : f \in mFrameBuffers}
    BY <2>1, <2>3, <2>4, <2>8
  <2>10. fb.fbo \in {f.fbo : f \in mFrameBuffers'}
    BY <2>4
  <2>11. mCurrentSurface'.fbo = fb.fbo
    BY DEF fb
  <2> QED
    BY <2>4, <2>6, <2>7, <2>9, <2>10, <2>11 DEF FbosInv, CachedFbosExist
<1>2. CASE cached = {}
  <2>1. \A f \in mFrameBuffers : f.size # size
    BY <1>2
  <2>2. fb.size = size /\ fb.fbo = NewFbo
    BY <1>2 DEF GetOrCreateFbo
  <2>3. /\ NewFbo \in 1 .. Cardinality(Sizes2D)
        /\ \A f \in mFrameBuffers : f.fbo # NewFbo
    BY <2>1, NewFboIsNew
  <2> HIDE DEF fb
  <2>4. mFrameBuffers' = mFrameBuffers \cup {fb} /\ fbos' = fbos \cup {fb.fbo}
    BY <2>1 DEF fb
  <2>5. \A f \in mFrameBuffers' :
          f.size \in Sizes2D /\ f.fbo \in 1 .. Cardinality(Sizes2D)
    BY <2>2, <2>3, <2>4 DEF FbosInv
  <2>6. \A f, g \in mFrameBuffers' :
          f.size = g.size \/ f.fbo = g.fbo => f = g
    BY <2>1, <2>2, <2>3, <2>4 DEF FbosInv
  <2>7. {f.fbo : f \in mFrameBuffers'}
          = {f.fbo : f \in mFrameBuffers} \cup {fb.fbo}
    BY <2>4
  <2>8. mCurrentSurface'.fbo = fb.fbo
    BY DEF fb
  <2> QED
    BY <2>4, <2>5, <2>6, <2>7, <2>8 DEF FbosInv, CachedFbosExist
<1> QED
  BY <1>1, <1>2

(* Bind: the first drawing of a tile is asked to be of all of it.  If      *)
(* BeginDraw fails the tile is not asked for a full draw again.            *)
LEMMA BindInv ==
  ASSUME TreeInv, UNCHANGED inUse, NEW s \in Surfaces, NEW t \in Tiles,
         NEW valid \in Rects, NEW partial \in BOOLEAN,
         Bind(s, t, valid, partial)
  PROVE  TreeInv'
<1> DEFINE tile == mDCTiles[s][t]
           full == DrawsFull(tile, partial)
           x == <<s, t>>
           first == ~mIsVirtualSurface /\ x \notin filled
<1>1. /\ treePc = "update" /\ tile.made /\ x \notin drawn
      /\ drawn' = drawn \cup {x}
      /\ mDCTiles' = [mDCTiles EXCEPT ![s][t] =
           [tile EXCEPT !.needsFullDraw = FALSE,
                        !.valid = IF mIsVirtualSurface THEN valid ELSE @]]
      /\ mAllocatedRectDirty' = IF tile.valid = valid
                                THEN mAllocatedRectDirty
                                ELSE DirtyAllocatedRect(s)
      /\ CreateEGLSurfaceForCompositionSurface(x, full)
      /\ UNCHANGED <<mIsVirtualSurface, mDCSurfaces, retired, kept,
           mCurrentLayers, mPrevLayers, root, shown, mPendingCommit, treePc,
           mode>>
  BY DEF Bind, Updating, layerVars
<1>2. tile \in TileRecords /\ mIsVirtualSurface \in BOOLEAN
  BY DEF TreeInv, TreeTypeOK
<1>3. PICK now \in TileRecords :
        /\ now.made = tile.made
        /\ mIsVirtualSurface /\ tile.valid = valid => now.valid = tile.valid
        /\ mDCTiles' = [mDCTiles EXCEPT ![s][t] = now]
  <2> DEFINE n == [tile EXCEPT !.needsFullDraw = FALSE,
                     !.valid = IF mIsVirtualSurface THEN valid ELSE @]
  <2>1. n \in TileRecords /\ n.made = tile.made
    BY <1>2 DEF TileRecords
  <2>2. mIsVirtualSurface /\ tile.valid = valid => n.valid = tile.valid
    BY <1>2 DEF TileRecords
  <2>3. mDCTiles' = [mDCTiles EXCEPT ![s][t] = n]
    BY <1>1
  <2> HIDE DEF n
  <2> QED
    BY <2>1, <2>2, <2>3
<1>4. TileBecomes(s, t, now)
  BY <1>1, <1>3 DEF TileBecomes
<1>5. /\ TrimInv'
      /\ mDCTiles' \in [Surfaces -> [Tiles -> TileRecords]]
      /\ mAllocatedRectDirty' \in [Surfaces -> BOOLEAN]
      /\ mDCTiles'[s][t] = now
      /\ \A r \in Surfaces, u \in Tiles :
           r # s \/ u # t => mDCTiles'[r][u] = mDCTiles[r][u]
  BY <1>4, OneTileChanges
<1>6. /\ FbosInv'
      /\ mCurrentSurface'.first = first
      /\ mCurrentSurface'.full = full
      /\ mCurrentSurface'.again = (x \in refused)
      /\ \/ /\ filled' = IF first THEN filled \cup {x} ELSE filled
            /\ refused' = refused \ {x}
         \/ /\ refused' = IF first THEN refused \cup {x} ELSE refused
            /\ filled' = filled
  <2> DEFINE Drawing(fbo) == [bound |-> TRUE, first |-> first, full |-> full,
                              again |-> x \in refused, fbo |-> fbo]
  <2>0. FbosInv
    BY DEF TreeInv
  <2>9. CreateEGLSurfaceForCompositionSurface(x, full)
    BY <1>1
  <2> HIDE DEF full, x
  <2>1. CASE \E size \in Sizes2D :
       LET fb == GetOrCreateFbo(size) IN
       /\ first => full
       /\ mFrameBuffers' = {f \in mFrameBuffers : f.size # size} \cup {fb}
       /\ fbos' = IF \E f \in mFrameBuffers : f.size = size THEN fbos
                  ELSE fbos \cup {fb.fbo}
       /\ mCurrentSurface' = Drawing(fb.fbo)
       /\ filled' = IF first THEN filled \cup {x} ELSE filled
       /\ refused' = refused \ {x}
    <3>1. PICK size \in Sizes2D :
       /\ mFrameBuffers' = {f \in mFrameBuffers : f.size # size}
                              \cup {GetOrCreateFbo(size)}
       /\ fbos' = IF \E f \in mFrameBuffers : f.size = size THEN fbos
                  ELSE fbos \cup {GetOrCreateFbo(size).fbo}
       /\ mCurrentSurface' = Drawing(GetOrCreateFbo(size).fbo)
       /\ filled' = IF first THEN filled \cup {x} ELSE filled
       /\ refused' = refused \ {x}
      BY <2>1
    <3> HIDE DEF first
    <3>2. /\ mCurrentSurface'.bound
          /\ mCurrentSurface'.fbo = GetOrCreateFbo(size).fbo
          /\ mCurrentSurface'.first = first
          /\ mCurrentSurface'.full = full
          /\ mCurrentSurface'.again = (x \in refused)
      BY <3>1
    <3> HIDE DEF Drawing
    <3>3. FbosInv'
      BY <1>1, <2>0, <3>1, <3>2, FrameBufferInv
    <3> QED
      BY <3>1, <3>2, <3>3
  <2>2. CASE /\ mCurrentSurface' = Drawing(0)
             /\ refused' = IF first THEN refused \cup {x} ELSE refused
             /\ UNCHANGED <<mFrameBuffers, fbos, filled>>
    <3> HIDE DEF first
    <3>1. /\ mCurrentSurface'.bound /\ mCurrentSurface'.fbo = 0
          /\ mCurrentSurface'.first = first
          /\ mCurrentSurface'.full = full
          /\ mCurrentSurface'.again = (x \in refused)
      BY <2>2
    <3> HIDE DEF Drawing
    <3>2. FbosInv'
      BY <1>1, <2>0, <2>2, <3>1 DEF FbosInv, CachedFbosExist
    <3> QED
      BY <2>2, <3>1, <3>2
  <2> QED
    BY <2>1, <2>2, <2>9 DEF CreateEGLSurfaceForCompositionSurface
<1>7. LayersInv'
  BY <1>1, LayersUnchanged DEF TreeInv
<1>8. /\ filled' \subseteq Surfaces \X Tiles /\ drawn' \subseteq Surfaces \X Tiles
      /\ refused' \subseteq Surfaces \X Tiles
  <2>1. x \in Surfaces \X Tiles
    OBVIOUS
  <2>2. /\ filled \subseteq Surfaces \X Tiles
        /\ drawn \subseteq Surfaces \X Tiles
        /\ refused \subseteq Surfaces \X Tiles
    BY DEF TreeInv, TreeTypeOK
  <2> HIDE DEF x, first
  <2> QED
    BY <1>1, <1>6, <2>1, <2>2
<1>9. TreeTypeOK'
  BY <1>1, <1>5, <1>8 DEF TreeInv, TreeTypeOK
<1>10. first => tile.needsFullDraw \/ x \in refused
  BY <1>1 DEF TreeInv, DrawInv
<1>11. FirstDrawIsFullUnlessRefused'
  <2>1. tile.needsFullDraw => full
    BY DEF DrawsFull
  <2> HIDE DEF first, full, tile, x
  <2> QED
    BY <1>6, <1>10, <2>1 DEF FirstDrawIsFullUnlessRefused
<1>12. ASSUME ~mIsVirtualSurface, NEW r \in Surfaces, NEW u \in Tiles,
              mDCTiles'[r][u].made, <<r, u>> \notin filled'
       PROVE  mDCTiles'[r][u].needsFullDraw \/ <<r, u>> \in refused'
  <2>1. CASE r = s /\ u = t
    <3>1. <<r, u>> = x
      BY <2>1
    <3>2. x \notin filled
      <4> HIDE DEF x, first
      <4> QED
        BY <1>6, <1>12, <3>1
    <3>3. first
      BY <1>12, <3>2
    <3> HIDE DEF x, first
    <3> QED
      BY <1>6, <1>12, <3>1, <3>3
  <2>2. CASE r # s \/ u # t
    <3>1. <<r, u>> # x
      BY <2>2
    <3>2. mDCTiles'[r][u] = mDCTiles[r][u]
      BY <1>5, <2>2
    <3>3. <<r, u>> \notin filled
      <4> HIDE DEF x, first
      <4> QED
        BY <1>6, <1>12
    <3>4. mDCTiles[r][u].needsFullDraw \/ <<r, u>> \in refused
      BY <1>12, <3>2, <3>3 DEF TreeInv, DrawInv
    <3> HIDE DEF x, first
    <3> QED
      BY <1>6, <3>1, <3>2, <3>4
  <2> QED
    BY <2>1, <2>2
<1>13. FbosInv'
  BY <1>6
<1>14. DrawInv'
  BY <1>1, <1>11, <1>12 DEF DrawInv
<1> QED
  BY <1>5, <1>7, <1>9, <1>13, <1>14 DEF TreeInv

(* Unbind ends the drawing.                                                *)
LEMMA UnbindInv == TreeInv /\ UNCHANGED inUse /\ Unbind => TreeInv'
<1> SUFFICES ASSUME TreeInv, UNCHANGED inUse, Unbind PROVE TreeInv'
  OBVIOUS
<1>1. /\ mCurrentSurface' = NoDrawing
      /\ UNCHANGED <<mIsVirtualSurface, mDCSurfaces, mDCTiles,
           mAllocatedRectDirty, retired, kept, filled, refused, drawn,
           mFrameBuffers, fbos, mCurrentLayers, mPrevLayers, root, shown,
           mPendingCommit, treePc, mode>>
  BY DEF Unbind, surfaceVars, layerVars
<1>2. TreeTypeOK'
  BY <1>1 DEF TreeInv, TreeTypeOK
<1>3. DrawInv'
  BY <1>1 DEF TreeInv, DrawInv, FirstDrawIsFullUnlessRefused, NoDrawing
<1>4. FbosInv'
  BY <1>1 DEF TreeInv, FbosInv, CachedFbosExist, NoDrawing
<1> QED
  BY <1>1, <1>2, <1>3, <1>4, LayersUnchanged, TrimUnchanged DEF TreeInv

-----------------------------------------------------------------------------
(* Frames, the end, and the whole                                           *)

(* A frame begins: nothing is drawn yet, and every framebuffer is older.   *)
LEMMA BeginFrameInv ==
  TreeInv /\ UNCHANGED inUse /\ CompositorBeginFrame => TreeInv'
<1> SUFFICES ASSUME TreeInv, UNCHANGED inUse, CompositorBeginFrame
             PROVE  TreeInv'
  OBVIOUS
<1> DEFINE older(f) == [f EXCEPT !.age = IF @ > MaxAge THEN @ ELSE @ + 1]
<1>1. /\ treePc = "idle" /\ treePc' = "update" /\ mode = "native"
      /\ drawn' = {}
      /\ mFrameBuffers' = {older(f) : f \in mFrameBuffers}
      /\ UNCHANGED <<mIsVirtualSurface, mDCSurfaces, mDCTiles,
           mAllocatedRectDirty, retired, kept, filled, refused,
           mCurrentSurface, fbos, mCurrentLayers, mPrevLayers, root, shown,
           mPendingCommit, mode>>
  BY DEF CompositorBeginFrame, surfaceVars, layerVars
<1>2. TreeTypeOK'
  BY <1>1 DEF TreeInv, TreeTypeOK
<1>3. LayersInv'
  BY <1>1 DEF TreeInv, LayersInv
<1>4. TrimInv'
  BY <1>1, TrimUnchanged DEF TreeInv
<1>5. DrawInv'
  BY <1>1 DEF TreeInv, DrawInv, FirstDrawIsFullUnlessRefused
<1>6. FbosInv'
  <2>1. \A f \in mFrameBuffers :
          f.size \in Sizes2D /\ f.fbo \in 1 .. Cardinality(Sizes2D)
    BY DEF TreeInv, FbosInv
  <2>2. \A f \in mFrameBuffers : older(f).size = f.size /\ older(f).fbo = f.fbo
    OBVIOUS
  <2> HIDE DEF older
  <2>3. {f.fbo : f \in mFrameBuffers'} = {f.fbo : f \in mFrameBuffers}
    BY <1>1, <2>2
  <2>4. \A f, g \in mFrameBuffers :
          older(f).size = older(g).size \/ older(f).fbo = older(g).fbo => f = g
    BY <2>2 DEF TreeInv, FbosInv
  <2>5. \A f, g \in mFrameBuffers' :
          f.size = g.size \/ f.fbo = g.fbo => f = g
    BY <1>1, <2>4
  <2>6. \A f \in mFrameBuffers' :
          f.size \in Sizes2D /\ f.fbo \in 1 .. Cardinality(Sizes2D)
    BY <1>1, <2>1, <2>2
  <2> QED
    BY <1>1, <2>3, <2>5, <2>6 DEF TreeInv, FbosInv, CachedFbosExist
<1> QED
  BY <1>2, <1>3, <1>4, <1>5, <1>6 DEF TreeInv

(* A sequence that grows holds what it held and what was appended.         *)
LEMMA ToSetOfAppend ==
  ASSUME NEW S, NEW seq \in Seq(S), NEW x \in S
  PROVE  /\ Append(seq, x) \in Seq(S)
         /\ ToSet(Append(seq, x)) = ToSet(seq) \cup {x}
<1>1. /\ Append(seq, x) \in Seq(S) /\ Len(Append(seq, x)) = Len(seq) + 1
      /\ \A i \in 1 .. Len(seq) : Append(seq, x)[i] = seq[i]
      /\ Append(seq, x)[Len(seq) + 1] = x /\ Len(seq) \in Nat
  OBVIOUS
<1>2. ASSUME NEW y
      PROVE  y \in ToSet(Append(seq, x)) <=> y \in ToSet(seq) \cup {x}
  BY <1>1 DEF ToSet
<1> QED
  BY <1>1, <1>2

(* A layer is added of a surface that exists.                              *)
LEMMA AddSurfaceInv ==
  ASSUME TreeInv, UNCHANGED inUse, NEW s \in Surfaces, AddSurface(s)
  PROVE  TreeInv'
<1>1. /\ treePc \in {"update", "add"} /\ treePc' = "add"
      /\ s \in mDCSurfaces
      /\ mCurrentLayers' = Append(mCurrentLayers, s)
      /\ UNCHANGED <<mIsVirtualSurface, mDCSurfaces, mDCTiles,
           mAllocatedRectDirty, retired, kept, filled, refused,
           mCurrentSurface, drawn, mFrameBuffers, fbos, mPrevLayers, root,
           shown, mPendingCommit, mode>>
  BY DEF AddSurface, surfaceVars, drawVars
<1>2. mCurrentLayers \in Seq(Surfaces)
  BY DEF TreeInv, TreeTypeOK
<1>3. /\ mCurrentLayers' \in Seq(Surfaces)
      /\ ToSet(mCurrentLayers') = ToSet(mCurrentLayers) \cup {s}
  BY <1>1, <1>2, ToSetOfAppend
<1>4. TreeTypeOK'
  BY <1>1, <1>3 DEF TreeInv, TreeTypeOK
<1>5. LayersInv'
  BY <1>1, <1>3 DEF TreeInv, LayersInv
<1> QED
  BY <1>1, <1>4, <1>5, TrimUnchanged, DrawUnchanged, FbosUnchanged DEF TreeInv

(* The end of a frame.  The list of layers is the frame's before only if   *)
(* all of these still exist: then the root was not touched.  A surface     *)
(* that is shown is trimmed, and a framebuffer that is dropped was nobody  *)
(* else's.                                                                 *)
LEMMA EndFrameInv ==
  ASSUME TreeInv, UNCHANGED inUse, NEW slow \in BOOLEAN,
         CompositorEndFrame(slow)
  PROVE  TreeInv'
<1> DEFINE old == {f \in mFrameBuffers : f.age > MaxAge}
<1>1. /\ treePc \in {"update", "add"} /\ treePc' = "idle"
      /\ root' = IF SameLayers THEN root ELSE mCurrentLayers
      /\ kept' = [s \in Surfaces |-> UpdateAllocatedRect(s)]
      /\ mAllocatedRectDirty' = [s \in Surfaces |->
           mAllocatedRectDirty[s] /\ s \notin ToSet(mCurrentLayers)]
      /\ mPrevLayers' = mCurrentLayers /\ mCurrentLayers' = <<>>
      /\ shown' = root'
      /\ mFrameBuffers' = mFrameBuffers \ old
      /\ fbos' = fbos \ {f.fbo : f \in old}
      /\ UNCHANGED <<mIsVirtualSurface, mDCSurfaces, mDCTiles, retired,
           filled, refused, mCurrentSurface, drawn, mPendingCommit, mode>>
  BY DEF CompositorEndFrame, LayersLeft
<1>2. TreeTypeOK /\ LayersInv
  BY DEF TreeInv
<1>3. \A s \in Surfaces : ValidRects(s) \subseteq Tiles \X Rects
  BY <1>2 DEF TreeTypeOK, TileRecords, ValidRects
<1>4. \A s \in Surfaces :
        kept'[s] = IF /\ mIsVirtualSurface /\ mAllocatedRectDirty[s]
                      /\ s \in ToSet(mCurrentLayers)
                   THEN ValidRects(s) ELSE kept[s]
  BY <1>1 DEF UpdateAllocatedRect, ValidRects
<1>5. kept' \in [Surfaces -> SUBSET (Tiles \X Rects)]
  <2>0. kept \in [Surfaces -> SUBSET (Tiles \X Rects)]
    BY <1>2 DEF TreeTypeOK
  <2>1. \A s \in Surfaces : kept'[s] \in SUBSET (Tiles \X Rects)
    BY <1>3, <1>4, <2>0
  <2> QED
    BY <1>1, <2>1
<1>6. mAllocatedRectDirty' \in [Surfaces -> BOOLEAN]
  BY <1>1, <1>2 DEF TreeTypeOK
<1>7. <<>> \in Seq(Surfaces) /\ ToSet(<<>>) = {}
  BY DEF ToSet
<1>8. TreeTypeOK'
  BY <1>1, <1>2, <1>5, <1>6, <1>7 DEF TreeTypeOK
<1>9. ToSet(mCurrentLayers) \subseteq mDCSurfaces /\ mode = "native"
  BY <1>1, <1>2 DEF LayersInv
<1>10. mode = "native" => root' = mCurrentLayers
  <2>1. CASE SameLayers
    <3>1. mPrevLayers = mCurrentLayers
      BY <2>1 DEF SameLayers
    <3>2. mode = "native" => root = mPrevLayers
      BY <1>2, <1>9, <3>1 DEF LayersInv
    <3> QED
      BY <1>1, <2>1, <3>1, <3>2
  <2>2. CASE ~SameLayers
    BY <1>1, <2>2
  <2> QED
    BY <2>1, <2>2
<1>11. LayersInv'
  BY <1>1, <1>7, <1>9, <1>10 DEF LayersInv
<1>12. TrimInv'
  <2>1. ASSUME mIsVirtualSurface, NEW s \in Surfaces, ~mAllocatedRectDirty'[s]
        PROVE  kept'[s] = ValidRects(s)'
    <3>1. ValidRects(s)' = ValidRects(s)
      BY <1>1 DEF ValidRects
    <3>2. CASE mAllocatedRectDirty[s]
      <4>1. s \in ToSet(mCurrentLayers)
        BY <1>1, <2>1, <3>2
      <4> QED
        BY <1>4, <2>1, <3>1, <3>2, <4>1
    <3>3. CASE ~mAllocatedRectDirty[s]
      <4>1. kept[s] = ValidRects(s)
        BY <2>1, <3>3 DEF TreeInv, TrimInv
      <4> QED
        BY <1>4, <3>1, <3>3, <4>1
    <3> QED
      BY <3>2, <3>3
  <2>2. \A s \in ToSet(mCurrentLayers) : ~mAllocatedRectDirty'[s]
    BY <1>1, <1>2, <1>9 DEF TreeTypeOK
  <2> QED
    BY <1>1, <2>1, <2>2 DEF TrimInv
<1>13. DrawInv'
  BY <1>1, DrawUnchanged DEF TreeInv
<1>14. FbosInv'
  <2>1. /\ mFrameBuffers' \subseteq mFrameBuffers
        /\ \A f, g \in mFrameBuffers : f.fbo = g.fbo => f = g
    BY <1>1 DEF TreeInv, FbosInv
  <2>2. {f.fbo : f \in mFrameBuffers'}
          = {f.fbo : f \in mFrameBuffers} \ {f.fbo : f \in old}
    <3> HIDE DEF old
    <3>1. old \subseteq mFrameBuffers
      BY DEF old
    <3> QED
      BY <1>1, <2>1, <3>1
  <2>3. CachedFbosExist'
    <3>1. ~mCurrentSurface.bound
      BY DEF CompositorEndFrame
    <3> HIDE DEF old
    <3> QED
      BY <1>1, <2>2, <3>1 DEF TreeInv, FbosInv, CachedFbosExist
  <2>4. UNCHANGED mCurrentSurface
    BY <1>1
  <2> HIDE DEF old
  <2> QED
    BY <2>1, <2>3, <2>4 DEF TreeInv, FbosInv
<1> QED
  BY <1>8, <1>11, <1>12, <1>13, <1>14 DEF TreeInv

(* The native compositor is disabled between frames.                       *)
LEMMA DisableInv ==
  ASSUME TreeInv, UNCHANGED inUse, NEW ok \in BOOLEAN,
         DisableNativeCompositor(ok)
  PROVE  TreeInv'
<1>1. /\ treePc = "idle" /\ mode = "native"
      /\ mPrevLayers' = <<>>
      /\ root' = IF ok THEN <<SwapChain>> ELSE <<>>
      /\ mPendingCommit' = (ok \/ mPendingCommit)
      /\ mode' = IF ok THEN "disabling" ELSE "error"
      /\ UNCHANGED <<mIsVirtualSurface, mDCSurfaces, mDCTiles,
           mAllocatedRectDirty, retired, kept, filled, refused,
           mCurrentSurface, drawn, mFrameBuffers, mCurrentLayers, shown,
           treePc>>
  BY DEF DisableNativeCompositor, ReleaseNativeCompositorResources,
         surfaceVars
<1>2. <<>> \in Seq(Surfaces) /\ ToSet(<<>>) = {}
  BY DEF ToSet
<1>3. TreeTypeOK'
  BY <1>1, <1>2 DEF TreeInv, TreeTypeOK
<1>4. LayersInv'
  BY <1>1, <1>2 DEF TreeInv, LayersInv
<1>5. TrimInv'
  BY <1>1 DEF TreeInv, TrimInv, ValidRects
<1>6. DrawInv'
  BY <1>1, DrawUnchanged DEF TreeInv
<1>7. FbosInv'
  BY <1>1 DEF TreeInv, FbosInv, CachedFbosExist
<1> QED
  BY <1>3, <1>4, <1>5, <1>6, <1>7 DEF TreeInv

(* The swap chain is committed, once.                                      *)
LEMMA MaybeCommitInv == TreeInv /\ UNCHANGED inUse /\ MaybeCommit => TreeInv'
<1> SUFFICES ASSUME TreeInv, UNCHANGED inUse, MaybeCommit PROVE TreeInv'
  OBVIOUS
<1>1. /\ treePc = "idle" /\ mode = "disabling" /\ mode' = "disabled"
      /\ shown' = IF mPendingCommit THEN root ELSE shown
      /\ UNCHANGED <<mIsVirtualSurface, mDCSurfaces, mDCTiles,
           mAllocatedRectDirty, retired, kept, filled, refused,
           mCurrentSurface, drawn, mFrameBuffers, fbos, mCurrentLayers,
           mPrevLayers, root, mPendingCommit, treePc>>
  BY DEF MaybeCommit, surfaceVars, drawVars
<1>2. TreeTypeOK'
  BY <1>1 DEF TreeInv, TreeTypeOK
<1>3. shown' = <<SwapChain>>
  BY <1>1 DEF TreeInv, LayersInv
<1>4. LayersInv'
  BY <1>1, <1>3 DEF TreeInv, LayersInv
<1> QED
  BY <1>1, <1>2, <1>4, TrimUnchanged, DrawUnchanged, FbosUnchanged DEF TreeInv

(* The end.                                                                *)
LEMMA TreeDestroyedInv == TreeInv /\ UNCHANGED inUse /\ TreeDestroyed => TreeInv'
<1> SUFFICES ASSUME TreeInv, UNCHANGED inUse, TreeDestroyed PROVE TreeInv'
  OBVIOUS
<1>1. /\ treePc = "idle" /\ treePc' = "destroyed"
      /\ UNCHANGED <<mIsVirtualSurface, mDCSurfaces, mDCTiles,
           mAllocatedRectDirty, retired, kept, filled, refused,
           mCurrentSurface, drawn, mFrameBuffers, mCurrentLayers, mPrevLayers,
           root, shown, mPendingCommit, mode>>
  BY DEF TreeDestroyed, ReleaseNativeCompositorResources, surfaceVars,
         layerVars
<1>2. TreeTypeOK'
  BY <1>1 DEF TreeInv, TreeTypeOK
<1>3. LayersInv'
  BY <1>1 DEF TreeInv, LayersInv
<1>4. FbosInv'
  BY <1>1 DEF TreeInv, FbosInv, CachedFbosExist
<1> QED
  BY <1>1, <1>2, <1>3, <1>4, TrimUnchanged, DrawUnchanged DEF TreeInv

(* It is enough for the property of the run.                               *)
LEMMA TreeInvConsistent == TreeInv => TreeConsistent
<1> SUFFICES ASSUME TreeInv PROVE TreeConsistent
  OBVIOUS
<1>1. TreeTypeOK /\ LayersInv /\ TrimInv /\ DrawInv /\ FbosInv
  BY DEF TreeInv
<1>2. LayersAreShown
  BY <1>1 DEF LayersInv, LayersAreShown
<1>3. TrimKeepsValidRects
  <2>1. treePc = "idle" => mCurrentLayers = <<>>
    BY <1>1 DEF LayersInv
  <2>2. ToSet(mPrevLayers) \subseteq Surfaces
    BY <1>1 DEF TreeTypeOK, ToSet
  <2> QED
    BY <1>1, <2>2 DEF TrimInv, TrimKeepsValidRects, ValidRects
<1> QED
  BY <1>1, <1>2, <1>3 DEF TreeConsistent, DrawInv, FbosInv

(* The tree and the video together.                                        *)
DCInv == TreeInv /\ VideoInv

(* What the tree does by itself leaves the video's surface alone.          *)
LEMMA TreeStepInv ==
  ASSUME DCInv, TreeStep, UNCHANGED <<inUse, videoVars>>
  PROVE  DCInv'
<1>1. inUse \subseteq Surfaces
  BY CompositionAssumption DEF DCInv, TreeInv, TreeTypeOK
<1>2. TreeInv'
  <2>1. TreeInv
    BY DEF DCInv
  <2>2. ASSUME NEW s \in inUse, CreateSurface(s) \/ CreationFails(s)
        PROVE  TreeInv'
    BY <1>1, <2>1, <2>2, CreateSurfaceInv, CreationFailsInv
  <2>3. ASSUME NEW s \in TileSurfaces, DestroySurface(s)
        PROVE  TreeInv'
    BY <1>1, <2>1, <2>3, DestroySurfaceInv DEF TileSurfaces
  <2>4. ASSUME NEW s \in TileSurfaces, NEW t \in Tiles,
               CreateTile(s, t) \/ DestroyTile(s, t)
        PROVE  TreeInv'
    BY <1>1, <2>1, <2>4, CreateTileInv, DestroyTileInv DEF TileSurfaces
  <2>5. ASSUME NEW s \in TileSurfaces, NEW t \in Tiles, NEW r \in Rects,
               NEW partial \in BOOLEAN, Bind(s, t, r, partial)
        PROVE  TreeInv'
    BY <1>1, <2>1, <2>5, BindInv DEF TileSurfaces
  <2>6. ASSUME NEW ok \in BOOLEAN, DisableNativeCompositor(ok)
        PROVE  TreeInv'
    BY <2>1, <2>6, DisableInv
  <2> QED
    BY <2>1, <2>2, <2>3, <2>4, <2>5, <2>6, UnbindInv, BeginFrameInv,
       MaybeCommitInv DEF TreeStep
<1>3. retired \subseteq retired'
  <2>1. ASSUME NEW s \in inUse, CreateSurface(s) \/ CreationFails(s)
        PROVE  retired \subseteq retired'
    BY <2>1 DEF CreateSurface, CreationFails, surfaceVars
  <2>2. ASSUME NEW s \in TileSurfaces, DestroySurface(s)
        PROVE  retired \subseteq retired'
    BY <2>2 DEF DestroySurface
  <2>3. ASSUME NEW s \in TileSurfaces, NEW t \in Tiles,
               CreateTile(s, t) \/ DestroyTile(s, t)
        PROVE  retired \subseteq retired'
    BY <2>3 DEF CreateTile, DestroyTile, surfaceVars
  <2>4. ASSUME NEW s \in TileSurfaces, NEW t \in Tiles, NEW r \in Rects,
               NEW partial \in BOOLEAN, Bind(s, t, r, partial)
        PROVE  retired \subseteq retired'
    BY <2>4 DEF Bind, surfaceVars
  <2>5. ASSUME NEW ok \in BOOLEAN, DisableNativeCompositor(ok)
        PROVE  retired \subseteq retired'
    BY <2>5 DEF DisableNativeCompositor, surfaceVars
  <2>6. CASE Unbind \/ CompositorBeginFrame \/ MaybeCommit
    BY <2>6 DEF Unbind, CompositorBeginFrame, MaybeCommit, surfaceVars
  <2> QED
    BY <2>1, <2>2, <2>3, <2>4, <2>5, <2>6 DEF TreeStep
<1>4. UNCHANGED <<texVars, chainVars>> /\ UNCHANGED <<videoPc, errors>>
  BY DEF videoVars
<1>5. VideoTypeOK' /\ VideoConsistent' /\ mSurface' = mSurface
  BY <1>4, VideoUnchanged DEF DCInv, VideoInv
<1> QED
  BY <1>2, <1>3, <1>5 DEF DCInv, VideoInv

(* An image for the video, and the layer that shows it: only of a surface  *)
(* that was not destroyed.                                                 *)
LEMMA ExternalInv ==
  ASSUME DCInv, UNCHANGED inUse,
         \/ \E x \in Textures \cup DcompTextures : AttachVideo(x)
         \/ AddExternal
  PROVE  DCInv'
<1>1. TreeTypeOK /\ VideoInv
  BY DEF DCInv, TreeInv
<1>2. VideoId \in mDCSurfaces
  BY DEF AttachVideo, AddExternal
<1>3. mSurface # "destroyed"
  BY <1>1, <1>2 DEF VideoInv, TreeTypeOK
<1>4. VideoTypeOK' /\ VideoConsistent' /\ mSurface' # "destroyed"
  <2>1. ASSUME NEW x \in Textures \cup DcompTextures, AttachVideo(x)
        PROVE  VideoTypeOK' /\ VideoConsistent' /\ mSurface' # "destroyed"
    BY <1>1, <1>3, <2>1, AttachInv DEF AttachVideo, VideoInv
  <2>2. CASE AddExternal
    BY <1>1, <1>3, <2>2, PresentExternalInv DEF AddExternal, VideoInv
  <2> QED
    BY <2>1, <2>2
<1>5. TreeInv'
  <2>1. CASE UNCHANGED <<surfaceVars, drawVars, layerVars, treePc, mode>>
    <3>1. UNCHANGED <<mIsVirtualSurface, mDCSurfaces, mDCTiles,
            mAllocatedRectDirty, retired, kept, filled, refused,
            mCurrentSurface, drawn, mFrameBuffers, fbos, mCurrentLayers,
            mPrevLayers, root, shown, mPendingCommit, treePc, mode>>
      BY <2>1 DEF surfaceVars, drawVars, layerVars
    <3>2. TreeTypeOK'
      BY <1>1, <3>1 DEF TreeTypeOK
    <3> QED
      BY <3>1, <3>2, LayersUnchanged, TrimUnchanged, DrawUnchanged,
         FbosUnchanged DEF DCInv, TreeInv
  <2>2. CASE AddSurface(VideoId)
    BY <2>2, CompositionAssumption, AddSurfaceInv DEF DCInv
  <2> QED
    BY <2>1, <2>2 DEF AttachVideo, AddExternal, treeVars
<1> QED
  BY <1>4, <1>5 DEF DCInv, VideoInv

(* ~DCSurfaceVideo.                                                        *)
LEMMA DestroyVideoInv ==
  ASSUME DCInv, UNCHANGED inUse, DestroyVideo PROVE DCInv'
<1>1. TreeInv'
  BY CompositionAssumption, DestroySurfaceInv DEF DestroyVideo, DCInv
<1>2. VideoTypeOK' /\ VideoConsistent'
  <2>1. /\ VideoTypeOK /\ VideoConsistent /\ ReleaseDecodeSwapChainResources
        /\ UNCHANGED <<mRenderTextureHost, mIsDRM, mVpAutoHDRFailed>>
        /\ mFailedYuvSwapChain' = mFailedYuvSwapChain
        /\ mSurface' = "destroyed"
    BY DEF DestroyVideo, DCInv, VideoInv
  <2>2. mFailedYuvSwapChain' \in BOOLEAN
    BY <2>1 DEF VideoTypeOK
  <2> QED
    BY <2>1, <2>2, ReleaseInv
<1>3. VideoId \in retired'
  BY DEF DestroyVideo, DestroySurface
<1> QED
  BY <1>1, <1>2, <1>3 DEF DCInv, VideoInv

(* The frame with its layers, and the tree that ends: the video's surface  *)
(* at most learns that it is too slow.                                     *)
LEMMA FrameInv ==
  ASSUME DCInv, UNCHANGED inUse,
         \/ \E s \in TileSurfaces : AddTiles(s)
         \/ \E slow \in BOOLEAN : EndFrame(slow)
         \/ TreeDestroyed /\ UNCHANGED videoVars
  PROVE  DCInv'
<1>1. TreeInv
  BY DEF DCInv
<1>2. TileSurfaces \subseteq Surfaces
  BY <1>1, CompositionAssumption DEF TreeInv, TreeTypeOK, TileSurfaces
<1>3. TreeInv'
  BY <1>1, <1>2, AddSurfaceInv, EndFrameInv, TreeDestroyedInv
     DEF AddTiles, EndFrame
<1>4. UNCHANGED retired
  BY DEF AddTiles, AddSurface, EndFrame, CompositorEndFrame, TreeDestroyed,
         surfaceVars
<1>5. /\ UNCHANGED <<texVars, chainVars>> /\ UNCHANGED videoPc
      /\ errors' \in {errors, errors \cup {"disabled"}}
  BY DEF AddTiles, EndFrame, videoVars
<1>6. VideoTypeOK' /\ VideoConsistent' /\ mSurface' = mSurface
  BY <1>5, VideoUnchanged DEF DCInv, VideoInv
<1> QED
  BY <1>3, <1>4, <1>6 DEF DCInv, VideoInv

(* Every state of every behaviour is in it.                                *)
LEMMA DCInvariant == Spec => []DCInv
<1>1. Init => DCInv
  <2> SUFFICES ASSUME Init PROVE DCInv
    OBVIOUS
  <2> QED
    BY TreeInitInv, VideoInitInv DEF Init, DCInv
<1>2. DCInv /\ [Step]_vars => DCInv'
  <2> SUFFICES ASSUME DCInv, [Step]_vars PROVE DCInv'
    OBVIOUS
  <2>1. CASE UNCHANGED vars
    BY <2>1 DEF vars, treeVars, videoVars, surfaceVars, drawVars,
         layerVars,
         texVars, chainVars, DCInv, TreeInv, TreeTypeOK, LayersInv, TrimInv,
         ValidRects, DrawInv, FirstDrawIsFullUnlessRefused, FbosInv,
         CachedFbosExist,
         VideoInv, VideoTypeOK, SwapChains, VideoConsistent, PresentedIsShown,
         ChainIsUpToDate, HandlesAreClosed
  <2>2. CASE Step
    BY <2>2, TreeStepInv, ExternalInv, DestroyVideoInv, FrameInv
       DEF Step, Next
  <2> QED
    BY <2>1, <2>2
<1> QED
  BY <1>1, <1>2, PTL DEF Spec

(***************************************************************************)
(* The tree of a window: between frames the screen shows the last frame's  *)
(* layers or the swap chain, a surface that is shown keeps just its tiles' *)
(* valid rects, the first drawing into a buffer is of all of it unless it  *)
(* is asked for once more after a BeginDraw that failed, and GL's          *)
(* framebuffers are those of the cache and WebRender has one of them       *)
(* (DCLayerTree::CompositorEndFrame, DCSurface::UpdateAllocatedRect,       *)
(* DCLayerTree::Bind, GetOrCreateFbo).                                     *)
(***************************************************************************)
THEOREM TreeCorrect == Spec => []TreeConsistent
<1>1. DCInv => TreeConsistent
  BY TreeInvConsistent DEF DCInv
<1> QED
  BY <1>1, DCInvariant, PTL

(***************************************************************************)
(* The video surface: its chain shows the texture presented last unless an *)
(* error was reported, is of the size, DRM and HDR noted for it, and its   *)
(* handles are closed but for one (DCSurfaceVideo::CalculateSwapChainSize, *)
(* PresentVideo, CreateVideoSwapChain).                                    *)
(***************************************************************************)
THEOREM VideoCorrect == Spec => []VideoConsistent
<1>1. DCInv => VideoConsistent
  BY DEF DCInv, VideoInv
<1> QED
  BY <1>1, DCInvariant, PTL
=============================================================================
