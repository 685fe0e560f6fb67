---------------------------- MODULE DCSurfaceVideo ----------------------------
(***************************************************************************)
(* An external surface of the DirectComposition tree (DCLayerTree.cpp      *)
(* 779-945, 1347-1998): the wrapper picks a video or a handle surface for  *)
(* the first image it is given; a video surface blits its texture into a   *)
(* swap chain of its own, made anew when size, DRM or HDR change.          *)
(*                                                                         *)
(* Everything runs on the render thread.  What the driver may refuse is a  *)
(* choice: making the handle, the swap chain, the processor, the blit, a   *)
(* Present.  A swap chain is a record; shown is the texture it displays.   *)
(***************************************************************************)
EXTENDS Naturals, Sequences, FiniteSets

CONSTANTS
  Textures,       \* the DXGI NV12 textures that may be attached,
  DRM,            \* and those from a DRM source
  DcompTextures,  \* the textures that hold a surface handle
  NoTexture,
  Sizes,          \* sizes at which the video is laid out
  OverlayFormat,  \* sGpuOverlayInfo->mOverlayFormatUsed: "YUV" or "RGB"
  MaxSlowPresents \* maxSlowPresentCount

ASSUME VideoAssumption ==
  /\ DRM \subseteq Textures
  /\ NoTexture \notin Textures \cup DcompTextures
  /\ Sizes \subseteq Nat \ {0} /\ MaxSlowPresents \in Nat
  /\ OverlayFormat \in {"YUV", "RGB"}

VARIABLES
  mSurface,           \* what the wrapper holds: "none", "video", "handle"
  mRenderTextureHost, mPrevTexture,
  mDcompTextureHost,
  mVideoSwapChain, mSwapChainSize, mIsDRM, mUseVpAutoHDR,
  mSwapChainSurfaceHandle, openHandles,
  mFailedYuvSwapChain, mVpAutoHDRFailed,
  mFirstPresent, mSlowPresentCount,
  mVideoOutputSize,   \* of the tree's video processor, 0 without one
  content,            \* of the surface's visual: a chain's texture, a handle
  videoPc,            \* "idle", or "present" once PresentVideo is due
  tried,              \* history: the formats of the last chain's attempts
  errors              \* what was reported: "overlay", "present", "disabled"

texVars   == <<mSurface, mRenderTextureHost, mPrevTexture, mDcompTextureHost>>
chainVars == <<mVideoSwapChain, mSwapChainSize, mIsDRM, mUseVpAutoHDR,
               mSwapChainSurfaceHandle, openHandles, mFailedYuvSwapChain,
               mVpAutoHDRFailed, mFirstPresent>>
videoVars == <<texVars, chainVars, mSlowPresentCount, mVideoOutputSize,
               content, videoPc, tried, errors>>

NoChain == [format |-> "none", size |-> 0, drm |-> FALSE, shown |-> NoTexture]

VideoInit ==
  /\ mSurface = "none" /\ mDcompTextureHost = NoTexture
  /\ mRenderTextureHost = NoTexture /\ mPrevTexture = NoTexture
  /\ mVideoSwapChain = NoChain /\ mSwapChainSize = 0
  /\ mIsDRM = FALSE /\ mUseVpAutoHDR = FALSE
  /\ mSwapChainSurfaceHandle = FALSE /\ openHandles = 0
  /\ mFailedYuvSwapChain = FALSE /\ mVpAutoHDRFailed = FALSE
  /\ mFirstPresent = TRUE /\ mSlowPresentCount = 0
  /\ mVideoOutputSize = 0 /\ content = NoTexture
  /\ videoPc = "idle" /\ tried = <<>> /\ errors = {}

-----------------------------------------------------------------------------
(* Attaching an image.                                                      *)

(* The surface the wrapper has after EnsureSurfaceForExternalImage: the     *)
(* first image decides.  Initialize may fail, and is tried again next time. *)
EnsureSurfaceForExternalImage(x) ==
  IF mSurface # "none" THEN {mSurface}
  ELSE {"none", IF x \in Textures THEN "video" ELSE "handle"}

(* A texture of the other kind is refused and the old one stays; so does    *)
(* the host when the texture is the one presented last.                     *)
AttachToVideo(x) ==
  /\ mRenderTextureHost' = IF x \in Textures /\ mPrevTexture # x
                           THEN x ELSE mRenderTextureHost
  /\ UNCHANGED mDcompTextureHost

AttachToHandle(x) ==
  /\ mDcompTextureHost' = IF x \in DcompTextures THEN x ELSE mDcompTextureHost
  /\ UNCHANGED mRenderTextureHost

AttachExternalImage(x) ==
  /\ videoPc = "idle"
  /\ mSurface' \in EnsureSurfaceForExternalImage(x)
  /\ CASE mSurface' = "video"  -> AttachToVideo(x)
       [] mSurface' = "handle" -> AttachToHandle(x)
       [] mSurface' = "none"   -> UNCHANGED <<mRenderTextureHost,
                                              mDcompTextureHost>>
  /\ UNCHANGED <<mPrevTexture, chainVars, mSlowPresentCount, mVideoOutputSize,
                 content, videoPc, tried, errors>>

-----------------------------------------------------------------------------
(* CalculateSwapChainSize                                                   *)

(* The tree's processor grows when it is too small; making it may fail, and *)
(* then there is none.                                                      *)
EnsureVideoProcessor(size) ==
  IF size <= mVideoOutputSize THEN {mVideoOutputSize} ELSE {0, size}

GetSwapChainFormat(hdr, failedYuv) ==
  IF hdr THEN "HDR" ELSE IF failedYuv THEN "RGB" ELSE OverlayFormat

(* The formats tried, in order, when each attempt before the last fails.    *)
(* After a YUV one fails the next uses the format computed before, which is *)
(* YUV still; after an HDR one, it is computed again.                       *)
FormatsTried(hdr) ==
  LET first == GetSwapChainFormat(hdr, mFailedYuvSwapChain)
  IN  <<first>> \o (CASE first = "YUV" -> <<first>>
                      [] first = "HDR" ->
                           <<GetSwapChainFormat(FALSE, mFailedYuvSwapChain)>>
                      [] OTHER -> <<>>)

(* Mutants: DRM or HDR are not compared; the new chain is not presented;    *)
(* the old chain's handle is not closed.                                    *)
MustRecreate_SizeOnly(size, hdr, drm) ==
  mVideoSwapChain = NoChain \/ mSwapChainSize # size
NeedsToPresent_NewTextureOnly(recreated) == mPrevTexture # mRenderTextureHost
HandlesLeft_NotClosed(open) == open

MustRecreate(size, hdr, drm) ==
  \/ mVideoSwapChain = NoChain \/ mSwapChainSize # size
  \/ mIsDRM # drm \/ mUseVpAutoHDR # hdr
NeedsToPresent(recreated) == recreated \/ mPrevTexture # mRenderTextureHost

(* ReleaseDecodeSwapChainResources closes the handle it knows of.           *)
HandlesLeft(open) == IF mSwapChainSurfaceHandle THEN open - 1 ELSE open

(* n attempts were made; the last succeeded unless none is left.  An        *)
(* attempt opens a handle, unless that is what fails.  A failed YUV attempt *)
(* has its handle closed before the next; a failed HDR one has it replaced. *)
CreateVideoSwapChain(size, hdr, drm) ==
  LET formats == FormatsTried(hdr) IN
  \E n \in 1 .. Len(formats), ok, handle \in BOOLEAN, replaced \in 0 .. 1 :
    /\ ok \/ n = Len(formats)
    /\ ok => handle
    /\ replaced = 0 \/ (n > 1 /\ formats[1] = "HDR")
    /\ tried' = SubSeq(formats, 1, n)
    /\ mVideoSwapChain' = IF ok THEN [format |-> formats[n], size |-> size,
                                      drm |-> drm, shown |-> NoTexture]
                          ELSE NoChain
    /\ mSwapChainSurfaceHandle' = handle
    /\ openHandles' = HandlesLeft(openHandles) + replaced
                      + (IF handle THEN 1 ELSE 0)
    /\ mFailedYuvSwapChain' =
         (mFailedYuvSwapChain \/ (n > 1 /\ formats[1] = "YUV"))
    /\ mVpAutoHDRFailed' = (mVpAutoHDRFailed \/ (hdr /\ n > 1))
    /\ mUseVpAutoHDR' = (hdr /\ n = 1)
    /\ mFirstPresent' = TRUE
    /\ mSwapChainSize' = size /\ mIsDRM' = drm

(* wantsHDR: the preference, the monitor, the driver and the power supply.  *)
CalculateSwapChainSize(size, wantsHDR) ==
  LET hdr       == wantsHDR /\ ~mVpAutoHDRFailed
      drm       == mRenderTextureHost \in DRM
      recreated == MustRecreate(size, hdr, drm)
  IN
  /\ videoPc = "idle" /\ mSurface = "video" /\ mRenderTextureHost # NoTexture
  /\ mVideoOutputSize' \in EnsureVideoProcessor(size)
  /\ \/ mVideoOutputSize' = 0 /\ UNCHANGED <<chainVars, tried>>
     \/ /\ mVideoOutputSize' # 0 /\ recreated
        /\ CreateVideoSwapChain(size, hdr, drm)
     \/ /\ mVideoOutputSize' # 0 /\ ~recreated
        /\ mUseVpAutoHDR' = hdr
        /\ UNCHANGED <<mVideoSwapChain, mSwapChainSize, mIsDRM,
                       mSwapChainSurfaceHandle, openHandles, mVpAutoHDRFailed,
                       mFailedYuvSwapChain, mFirstPresent, tried>>
  /\ videoPc' = IF mVideoOutputSize' # 0 /\ NeedsToPresent(recreated)
                THEN "present" ELSE "idle"
  /\ UNCHANGED <<texVars, mSlowPresentCount, content, errors>>

-----------------------------------------------------------------------------
(* PresentVideo                                                             *)

ReleaseDecodeSwapChainResources ==
  /\ mVideoSwapChain' = NoChain /\ mUseVpAutoHDR' = FALSE
  /\ mSwapChainSurfaceHandle' = FALSE
  /\ openHandles' = HandlesLeft(openHandles)

PresentVideo_NoChain ==
  /\ videoPc = "present" /\ videoPc' = "idle"
  /\ mVideoSwapChain = NoChain
  /\ errors' = errors \cup {"overlay"}
  /\ UNCHANGED <<texVars, chainVars, mSlowPresentCount, mVideoOutputSize,
                 content, tried>>

(* The visual shows the chain before the blit is tried.  A YUV chain is     *)
(* dropped for an RGB one the next time; nothing replaces an RGB chain.     *)
PresentVideo_BltFails ==
  /\ videoPc = "present" /\ videoPc' = "idle"
  /\ mVideoSwapChain # NoChain
  /\ content' = mVideoSwapChain.shown
  /\ IF mVideoSwapChain.format = "YUV"
     THEN /\ mFailedYuvSwapChain' = TRUE
          /\ ReleaseDecodeSwapChainResources
          /\ UNCHANGED <<mSwapChainSize, mIsDRM, mVpAutoHDRFailed,
                         mFirstPresent, errors>>
     ELSE /\ errors' = errors \cup {"overlay"}
          /\ UNCHANGED chainVars
  /\ UNCHANGED <<texVars, mSlowPresentCount, mVideoOutputSize, tried>>

(* SetVpAutoHDR may fail inside the blit: HDR is not asked for any more.    *)
BltDone ==
  mVpAutoHDRFailed' \in {mVpAutoHDRFailed, mVpAutoHDRFailed \/ mUseVpAutoHDR}

(* The first presents of a chain, which copy its buffers, may fail.         *)
PresentVideo_FirstFails ==
  /\ videoPc = "present" /\ videoPc' = "idle"
  /\ mVideoSwapChain # NoChain /\ mFirstPresent
  /\ BltDone /\ mFirstPresent' = FALSE
  /\ content' = mVideoSwapChain.shown
  /\ errors' = errors \cup {"present"}
  /\ UNCHANGED <<texVars, mVideoSwapChain, mSwapChainSize, mIsDRM,
                 mUseVpAutoHDR, mSwapChainSurfaceHandle, openHandles,
                 mFailedYuvSwapChain, mSlowPresentCount, mVideoOutputSize,
                 tried>>

(* A Present that fails is logged, and the texture counts as presented.     *)
PresentVideo(ok, slow) ==
  LET count == IF slow THEN mSlowPresentCount + 1 ELSE 0 IN
  /\ videoPc = "present" /\ videoPc' = "idle"
  /\ mVideoSwapChain # NoChain
  /\ BltDone /\ mFirstPresent' = FALSE
  /\ mVideoSwapChain' = IF ok THEN [mVideoSwapChain EXCEPT
                                      !.shown = mRenderTextureHost]
                        ELSE mVideoSwapChain
  /\ content' = mVideoSwapChain'.shown
  /\ mPrevTexture' = mRenderTextureHost
  /\ mSlowPresentCount' = IF count > MaxSlowPresents THEN mSlowPresentCount
                          ELSE count
  /\ errors' = errors \cup (IF ok THEN {} ELSE {"present"})
                      \cup (IF count > MaxSlowPresents THEN {"disabled"}
                            ELSE {})
  /\ UNCHANGED <<mSurface, mRenderTextureHost, mDcompTextureHost,
                 mSwapChainSize, mIsDRM, mUseVpAutoHDR,
                 mSwapChainSurfaceHandle, openHandles, mFailedYuvSwapChain,
                 mVideoOutputSize, tried>>

-----------------------------------------------------------------------------
(* A handle surface shows its texture's surface, or nothing if that cannot  *)
(* be made from the handle.                                                 *)
PresentSurfaceHandle ==
  /\ videoPc = "idle" /\ mSurface = "handle"
  /\ mDcompTextureHost # NoTexture
  /\ content' \in {mDcompTextureHost, NoTexture}
  /\ UNCHANGED <<texVars, chainVars, mSlowPresentCount, mVideoOutputSize,
                 videoPc, tried, errors>>

PresentVideoStep ==
  \/ PresentVideo_NoChain \/ PresentVideo_BltFails \/ PresentVideo_FirstFails
  \/ \E ok, slow \in BOOLEAN : PresentVideo(ok, slow)

PresentExternalSurface ==
  \/ \E size \in Sizes, hdr \in BOOLEAN : CalculateSwapChainSize(size, hdr)
  \/ PresentVideoStep
  \/ PresentSurfaceHandle

VideoNext ==
  \/ \E x \in Textures \cup DcompTextures : AttachExternalImage(x)
  \/ PresentExternalSurface

VideoSpec == VideoInit /\ [][VideoNext]_videoVars

-----------------------------------------------------------------------------
(* What a video surface shows, unless it reported an error, is the texture  *)
(* it was presented with last: a chain that replaces another, for its size, *)
(* for DRM or for HDR, is blank until PresentVideo fills it, and must not   *)
(* be taken for one that shows mPrevTexture.                                *)
PresentedIsShown ==
  /\ mVideoSwapChain # NoChain /\ videoPc = "idle"
  /\ mPrevTexture = mRenderTextureHost /\ errors \subseteq {"disabled"}
  => mVideoSwapChain.shown = mRenderTextureHost

(* The blit sets the colour space from mUseVpAutoHDR and the rectangle from *)
(* mSwapChainSize: they are those of the chain that exists, also after its  *)
(* format or HDR was given up half way.                                     *)
ChainIsUpToDate ==
  mVideoSwapChain # NoChain =>
    /\ mVideoSwapChain.size = mSwapChainSize
    /\ mVideoSwapChain.drm = mIsDRM
    /\ (mVideoSwapChain.format = "HDR") = mUseVpAutoHDR

(* Handles are closed however often chains are replaced: at most one is     *)
(* lost, by the one HDR attempt that fails before HDR is given up.          *)
HandlesAreClosed ==
  openHandles <= (IF mSwapChainSurfaceHandle THEN 1 ELSE 0)
                 + (IF mVpAutoHDRFailed THEN 1 ELSE 0)

VideoConsistent == PresentedIsShown /\ ChainIsUpToDate /\ HandlesAreClosed

(* "Tries to create RGB SwapChain" (DCLayerTree.cpp:1488): when a YUV chain *)
(* cannot be made, the next attempt is for an RGB one.                      *)
FallsBackToRgb ==
  \A i, j \in DOMAIN tried : i < j /\ tried[i] = "YUV" => tried[j] = "RGB"
=============================================================================
