---------------------------- MODULE RendererFrames ----------------------------
(***************************************************************************)
(* One window's frames on the render thread: RenderThread::UpdateAndRender *)
(* drives RendererOGL, which drives the RenderCompositor of the platform:  *)
(* ANGLE on Windows, EGL on Android and Linux, native layers on macOS, OGL  *)
(* elsewhere.  The GPU runs the submitted commands in order, at its own    *)
(* pace.                                                                   *)
(*                                                                         *)
(* An epoch stands for the images that only its display list uses.  The    *)
(* AsyncImagePipelineManager (external) gives images back for reuse once   *)
(* the frame that was reported with their removal is said to be completed. *)
(***************************************************************************)
EXTENDS Naturals, Sequences, FiniteSets, SequencesExt

CONSTANTS
  ClientSizes,  \* sizes the window may have
  MaxEpochs,    \* bound: display lists sent
  MaxFrames,    \* bound: frame ids handed out
  Platforms     \* of "windows", "android", "linux", "mac", "ogl"

ASSUME FramesAssumption ==
  /\ MaxEpochs \in Nat /\ MaxFrames \in Nat
  /\ ClientSizes \subseteq Nat \ {0} /\ ClientSizes # {}
  /\ Platforms \subseteq {"windows", "android", "linux", "mac", "ogl"}

VARIABLES
  platform,
  mUseNativeCompositor, mUsePartialPresent,
  mSwapChain,          \* "none", "blit" (no mSwapChain1) or "flip"
  mUseTripleBuffering, mBufferSize, mFullRender, mDisablingNativeCompositor,
  mEGLSurface, mHandlingNewSurfaceError, surfaceFailures,
  mReleaseFenceFd,     \* the frame whose end the fence tells, 0: none
  mPreviousFrameDoneSync, mThisFrameDoneSync, \* frames, 0: none
  lastDrawn,           \* macOS: the last frame drawn and the one before
  mLatestRenderFrameId, mLastCompletedFrameId,
  mWaitForPresentQueries, mRecycledQuery,
  gpuDone,             \* d3d: frames whose commands the GPU has run
  lost,                \* d3d: the device was removed
  handlingDeviceReset, errors,
  clientSize,
  whole,               \* dxgi: each pixel of the buffers was drawn
  framePc, fence,
  sent, applied, flushed, \* epochs: in the queue, in use, told by WebRender
  drawnOnce,           \* WebRender has drawn a frame
  mLastPipelineInfo,   \* the epoch in the last info, 0 if it has none
  reads,               \* the last frame that reads the images of an epoch
  updates, reported, released, \* the AsyncImagePipelineManager
  handedOver           \* the frame and the fence of the last hand-over

angleVars == <<mUseNativeCompositor, mUsePartialPresent, mSwapChain,
               mUseTripleBuffering, mBufferSize, mFullRender,
               mDisablingNativeCompositor, whole>>
eglVars   == <<mHandlingNewSurfaceError, surfaceFailures, mReleaseFenceFd,
               mPreviousFrameDoneSync, mThisFrameDoneSync, lastDrawn>>
syncVars  == <<mPreviousFrameDoneSync, mThisFrameDoneSync, lastDrawn>>
queryVars == <<mLastCompletedFrameId, mWaitForPresentQueries,
               mRecycledQuery>>
wrVars    == <<sent, applied, flushed, drawnOnce, mLastPipelineInfo, reads>>
managerVars == <<updates, reported, released, handedOver>>
worldVars == <<platform, gpuDone, lost, clientSize>>
resetVars == <<handlingDeviceReset, errors>>
frameVars == <<framePc, fence>>
vars == <<angleVars, mEGLSurface, eglVars, mLatestRenderFrameId,
                 queryVars,
          wrVars, managerVars, worldVars, resetVars, frameVars>>

NoQuery == 0
Latest  == mLatestRenderFrameId

(* What Initialize and CreateSwapChain can end with: the native compositor *)
(* without a swap chain, a chain for DirectComposition or the compositor   *)
(* window, or the blit chain they fall back to.                            *)
InitializeAngle ==
  \/ /\ mUseNativeCompositor = TRUE /\ mSwapChain = "none"
     /\ mUseTripleBuffering = FALSE /\ mUsePartialPresent = FALSE
     /\ mBufferSize = 0
  \/ /\ mUseNativeCompositor = FALSE /\ mSwapChain \in {"blit", "flip"}
     /\ mUseTripleBuffering \in BOOLEAN
     /\ mUseTripleBuffering => mSwapChain = "flip"
     /\ mUsePartialPresent \in BOOLEAN /\ mBufferSize = clientSize

Init ==
  /\ platform \in Platforms /\ clientSize = CHOOSE z \in ClientSizes : TRUE
  /\ IF platform = "windows"
     THEN InitializeAngle
     ELSE /\ mUseNativeCompositor = FALSE /\ mSwapChain = "none"
          /\ mUseTripleBuffering = FALSE /\ mUsePartialPresent = FALSE
          /\ mBufferSize = clientSize
  /\ mFullRender = FALSE /\ mDisablingNativeCompositor = FALSE
  /\ whole = FALSE /\ mEGLSurface = (mBufferSize # 0 /\ platform = "windows")
  /\ mHandlingNewSurfaceError = FALSE /\ surfaceFailures = 0
  /\ mReleaseFenceFd = 0
  /\ mPreviousFrameDoneSync = 0 /\ mThisFrameDoneSync = 0
  /\ lastDrawn = <<0, 0>>
  /\ mLatestRenderFrameId = 2 /\ mLastCompletedFrameId = 0
  /\ mWaitForPresentQueries = <<>> /\ mRecycledQuery = NoQuery
  /\ gpuDone = 2
  /\ lost = FALSE /\ handlingDeviceReset = FALSE /\ errors = {}
  /\ framePc = "idle" /\ fence = 0
  /\ sent = 1 /\ applied = 0 /\ flushed = 0 /\ drawnOnce = FALSE
  /\ mLastPipelineInfo = 0 /\ reads = [e \in 1 .. MaxEpochs |-> 0]
  /\ updates = <<>> /\ reported = 0 /\ released = 0 /\ handedOver = <<0, 0>>

-----------------------------------------------------------------------------
(* Queries for the end of the GPU's work                                    *)

UsesQueries == platform = "windows"

(* The front query is finished when the GPU has come to where it was ended *)
(* last; a frame's commands are submitted when it gets its id.              *)
FrontIsFinished ==
  LET front == Head(mWaitForPresentQueries)
  IN ~lost /\ \A pair \in ToSet(mWaitForPresentQueries) :
                pair.query = front.query => pair.id <= gpuDone

(* The recycled query is taken out of its place.                           *)
RecycledAfterGet_Kept == mRecycledQuery
RecycledAfterGet == NoQuery

(* A query that is made is known by the frame it is made for.               *)
GetD3D11Query(id) ==
  IF mRecycledQuery # NoQuery THEN mRecycledQuery ELSE id

(* A query that cannot be made leaves the frame without one.               *)
InsertGraphicsCommandsFinishedWaitQuery(id, made) ==
  IF UsesQueries /\ (made \/ mRecycledQuery # NoQuery)
  THEN /\ mWaitForPresentQueries' =
            Append(mWaitForPresentQueries,
                   [id |-> id, query |-> GetD3D11Query(id)])
       /\ mRecycledQuery' = RecycledAfterGet
       /\ UNCHANGED mLastCompletedFrameId
  ELSE UNCHANGED queryVars

GetNextRenderFrameId ==
  Latest < 2 + MaxFrames /\ mLatestRenderFrameId' = Latest + 1

PopFinished ==
  LET pair == Head(mWaitForPresentQueries)
  IN /\ mWaitForPresentQueries' = Tail(mWaitForPresentQueries)
     /\ mRecycledQuery' = pair.query
     /\ mLastCompletedFrameId' = pair.id

CompletedAfterFailure_Anyway(pair) == pair.id
CompletedAfterFailure(pair) == mLastCompletedFrameId

(* WaitForPreviousGraphicsCommandsFinishedQuery, one query at a time; a    *)
(* wait that fails (time is up, or the device is gone) gives up its query.  *)
WaitLatency ==
  IF framePc = "waitAll" THEN 1 ELSE IF mUseTripleBuffering THEN 3 ELSE 2

MoreToWaitFor == Len(mWaitForPresentQueries) >= WaitLatency

WaitFails ==
  /\ mWaitForPresentQueries' = Tail(mWaitForPresentQueries)
  /\ mLastCompletedFrameId' =
       CompletedAfterFailure(Head(mWaitForPresentQueries))
  /\ UNCHANGED mRecycledQuery

-----------------------------------------------------------------------------
(* RendererOGL::UpdateAndRender, up to the drawing                          *)

UseCompositor == mUseNativeCompositor

IsPaused == platform \in {"android", "linux"} /\ ~mEGLSurface

(* wr_renderer_update, and FlushPipelineInfo after it.                      *)
Updated == /\ applied' = sent /\ UNCHANGED sent
FlushPipelineInfo(update) ==
  /\ mLastPipelineInfo' = IF update > flushed THEN update ELSE 0
  /\ flushed' = update

(* The window is not drawn: it is paused, its widget is not ready.          *)
SkipFrame(madeCurrent, made) ==
  /\ framePc = "idle"
  /\ GetNextRenderFrameId
  /\ InsertGraphicsCommandsFinishedWaitQuery(Latest + 1, made)
  /\ handlingDeviceReset' = (handlingDeviceReset \/ lost)
  /\ framePc' = "report"
  /\ UNCHANGED <<angleVars, mEGLSurface, eglVars, worldVars, managerVars,
                 errors, fence>>
  /\ IF madeCurrent
     THEN Updated /\ FlushPipelineInfo(sent) /\ UNCHANGED <<drawnOnce, reads>>
     ELSE UNCHANGED wrVars

(* ANGLE: a new size takes a new buffer, all of which has to be drawn.      *)
NeedsResize == mBufferSize # clientSize

FullAfterResize_NotAsked == mFullRender
FullAfterResize == mFullRender \/ mUsePartialPresent

ResizeBufferIfNeeded(ok) ==
  IF ~NeedsResize THEN ok /\ UNCHANGED <<angleVars, mEGLSurface>>
  ELSE /\ mBufferSize' = IF ok THEN clientSize ELSE 0
       /\ mEGLSurface' = ok /\ whole' = FALSE
       /\ mFullRender' = IF ok THEN FullAfterResize ELSE mFullRender
       /\ UNCHANGED <<mUseNativeCompositor, mUsePartialPresent, mSwapChain,
                      mUseTripleBuffering, mDisablingNativeCompositor>>

(* BeginFrame may fail at the resize, at MakeCurrent or at the sync object. *)
BeginFrame(resized, ok) ==
  /\ framePc = "idle" /\ ~IsPaused /\ ~handlingDeviceReset
  /\ IF platform = "windows" /\ ~UseCompositor
     THEN ResizeBufferIfNeeded(resized)
     ELSE resized /\ UNCHANGED <<angleVars, mEGLSurface>>
  /\ framePc' = IF resized /\ ok THEN "render" ELSE "noId"
  /\ \E timeout \in BOOLEAN :
       /\ timeout => resized /\ ~ok /\ platform = "windows"
       /\ handlingDeviceReset' = (timeout \/ (lost /\ ~(resized /\ ok)))
  /\ UNCHANGED <<eglVars, mLatestRenderFrameId, queryVars, wrVars,
                 managerVars, worldVars, errors, fence>>

(* EnableNativeCompositor(false), which WebRender calls while it draws.     *)
DisableNative(chain, resized) ==
  /\ platform = "windows" /\ UseCompositor
  /\ mUseNativeCompositor' = FALSE
  /\ mSwapChain' = IF chain THEN "flip" ELSE mSwapChain
  /\ mBufferSize' = IF chain /\ resized THEN clientSize ELSE 0
  /\ mEGLSurface' = (chain /\ resized)
  /\ mDisablingNativeCompositor' = (mDisablingNativeCompositor \/ chain)
  /\ errors' = IF chain THEN errors ELSE errors \cup {"NEW_SURFACE"}
  /\ whole' = FALSE
  /\ UNCHANGED <<mUsePartialPresent, mUseTripleBuffering, mFullRender>>

RequestFullRender == mFullRender

(* WebRender draws all of it the first time, when it is asked to, and when *)
(* frames are not presented in parts.  If it fails, RenderThread is told    *)
(* (HandleWebRenderError, see RenderThread.tla).                            *)
DrawsAll(readback) ==
  ~mUsePartialPresent \/ RequestFullRender \/ readback \/ ~drawnOnce

FlushedByRender_IfDrawn(rendered) ==
  IF rendered THEN FlushPipelineInfo(sent)
  ELSE UNCHANGED <<mLastPipelineInfo, flushed>>
FlushedByRender(rendered) == FlushPipelineInfo(sent)

Draw(rendered, readback) ==
  /\ framePc = "render"
  /\ Updated
  /\ FlushedByRender(rendered)
  /\ \/ UNCHANGED <<angleVars, mEGLSurface, errors>>
     \/ rendered /\ \E chain, resized \in BOOLEAN :
          DisableNative(chain, resized)
  /\ reads' = [reads EXCEPT ![sent] = Latest + 1]
  /\ drawnOnce' = (drawnOnce \/ rendered)
  /\ framePc' = IF ~rendered THEN "noId"
                ELSE IF DrawsAll(readback) THEN "endAll" ELSE "endPart"
  /\ UNCHANGED <<eglVars, mLatestRenderFrameId, queryVars, managerVars,
                 worldVars, handlingDeviceReset, fence>>

-----------------------------------------------------------------------------
(* EndFrame, WaitForGPU and the report                                      *)

(* ANGLE: parts of the window are presented when something in it changed;   *)
(* a failed Present1 asks for a full frame.  The blit chain has one buffer, *)
(* which keeps what was drawn.                                              *)
FullAfterPresent_ClearedLast(part, failed) ==
  IF mUsePartialPresent /\ mSwapChain = "flip" THEN FALSE ELSE mFullRender

FullAfterPresent(part, failed) ==
  IF mUsePartialPresent /\ mSwapChain = "flip" THEN part /\ failed
  ELSE mFullRender

Present(dirty, failed) ==
  IF UseCompositor THEN UNCHANGED <<mFullRender, whole>>
  ELSE /\ mFullRender' = FullAfterPresent(dirty, failed)
       /\ whole' = IF mSwapChain = "flip" /\ dirty /\ failed THEN FALSE
                   ELSE whole \/ framePc = "endAll"

EndFrameANGLE(made, dirty, failed) ==
  /\ framePc \in {"endAll", "endPart"} /\ platform = "windows"
  /\ framePc = "endAll" => dirty
  /\ UseCompositor \/ mBufferSize # 0
  /\ GetNextRenderFrameId
  /\ InsertGraphicsCommandsFinishedWaitQuery(Latest + 1, made)
  /\ Present(dirty, failed)
  /\ framePc' = IF mDisablingNativeCompositor THEN "waitAll" ELSE "wait"
  /\ UNCHANGED <<mUseNativeCompositor, mUsePartialPresent, mSwapChain,
                 mUseTripleBuffering, mBufferSize, mDisablingNativeCompositor,
                 mEGLSurface, eglVars, wrVars, managerVars, worldVars,
                 resetVars, fence>>

(* mBufferSize.ref() after the swap chain could not be made or resized.     *)
EndFrameWithoutBuffer ==
  /\ framePc \in {"endAll", "endPart"} /\ platform = "windows"
  /\ ~UseCompositor /\ mBufferSize = 0
  /\ framePc' = "crashed"
  /\ UNCHANGED <<angleVars, mEGLSurface, eglVars, mLatestRenderFrameId,
                 queryVars, wrVars, managerVars, worldVars, resetVars,
                 fence>>

(* Android: the sync object, or its descriptor, may not be had.  macOS: a   *)
(* sync object that nobody waited for is replaced (InsertFrameDoneSync).    *)
EndFrameGL(fenced) ==
  /\ framePc \in {"endAll", "endPart"} /\ platform # "windows"
  /\ fenced => platform = "android"
  /\ GetNextRenderFrameId
  /\ mReleaseFenceFd' = IF fenced THEN Latest + 1 ELSE mReleaseFenceFd
  /\ IF platform = "mac"
     THEN /\ mThisFrameDoneSync' = Latest + 1
          /\ lastDrawn' = <<lastDrawn[2], Latest + 1>>
     ELSE UNCHANGED <<mThisFrameDoneSync, lastDrawn>>
  /\ framePc' = "wait"
  /\ UNCHANGED <<angleVars, mEGLSurface, mHandlingNewSurfaceError,
                 surfaceFailures, mPreviousFrameDoneSync, queryVars, wrVars,
                 managerVars, worldVars,
                 resetVars, fence>>

(* GetAndResetReleaseFence moves it out.                                    *)
FenceAfterGet_Copied == mReleaseFenceFd
FenceAfterGet == 0

Wait ==
  /\ framePc \in {"wait", "waitAll"} /\ UsesQueries /\ MoreToWaitFor
  /\ \/ /\ FrontIsFinished
        /\ PopFinished /\ UNCHANGED <<framePc, mDisablingNativeCompositor,
                                      handlingDeviceReset>>
     \/ /\ WaitFails
        /\ framePc' = IF framePc = "waitAll" THEN "wait" ELSE "report"
        /\ mDisablingNativeCompositor' =
             (mDisablingNativeCompositor /\ framePc # "waitAll")
        /\ handlingDeviceReset' =
             (handlingDeviceReset \/ (lost /\ framePc = "wait"))
  /\ UNCHANGED <<mUseNativeCompositor, mUsePartialPresent, mSwapChain,
                 mUseTripleBuffering, mBufferSize, mFullRender, whole,
                 mEGLSurface, eglVars, mLatestRenderFrameId, wrVars,
                 managerVars, worldVars, errors, fence>>

(* macOS waits for the frame before this one; the others for none.          *)
PreviousAfterWait_Dropped == 0
PreviousAfterWait == mThisFrameDoneSync

WaitOver ==
  /\ framePc \in {"wait", "waitAll"} /\ ~(UsesQueries /\ MoreToWaitFor)
  /\ mPreviousFrameDoneSync <= gpuDone
  /\ mPreviousFrameDoneSync' = PreviousAfterWait
  /\ mThisFrameDoneSync' = 0 /\ UNCHANGED lastDrawn
  /\ framePc' = IF framePc = "waitAll" THEN "wait" ELSE "report"
  /\ mDisablingNativeCompositor' =
       (mDisablingNativeCompositor /\ framePc # "waitAll")
  /\ fence' = IF framePc = "wait" THEN mReleaseFenceFd ELSE fence
  /\ mReleaseFenceFd' =
       IF framePc = "wait" THEN FenceAfterGet ELSE mReleaseFenceFd
  /\ handlingDeviceReset' = (handlingDeviceReset \/ lost)
  /\ UNCHANGED <<mUseNativeCompositor, mUsePartialPresent, mSwapChain,
                 mUseTripleBuffering, mBufferSize, mFullRender, whole,
                 mEGLSurface, mHandlingNewSurfaceError, surfaceFailures,
                 mLatestRenderFrameId, queryVars, wrVars, managerVars,
                 worldVars, errors>>

(* RenderThread::UpdateAndRender, when no frame was drawn: UpdateFrameId.   *)
UpdateFrameId(made) ==
  /\ framePc = "noId"
  /\ GetNextRenderFrameId
  /\ InsertGraphicsCommandsFinishedWaitQuery(Latest + 1, made)
  /\ framePc' = "report"
  /\ handlingDeviceReset' = (handlingDeviceReset \/ lost)
  /\ UNCHANGED <<angleVars, mEGLSurface, eglVars, wrVars, managerVars,
                 worldVars, errors, fence>>

(* GetLastCompletedFrameId takes each finished query from the front.        *)
Poll ==
  /\ framePc = "report" /\ mWaitForPresentQueries # <<>>
  /\ FrontIsFinished
  /\ PopFinished
  /\ UNCHANGED <<angleVars, mEGLSurface, eglVars, mLatestRenderFrameId,
                 wrVars, managerVars, worldVars, resetVars, frameVars>>

GetLastCompletedFrameId ==
  IF UsesQueries THEN mLastCompletedFrameId ELSE Latest - 1

(* NotifyPipelinesUpdated: the manager takes the updates up to the frame    *)
(* that is completed, and releases what they replaced.                      *)
Completed(seq) ==
  {i \in DOMAIN seq : seq[i].id <= GetLastCompletedFrameId}

NotifyPipelinesUpdated ==
  LET all  == Append(updates, [id |-> Latest, epoch |-> mLastPipelineInfo])
      done == {all[i].epoch : i \in Completed(all)} \cup {released}
  IN /\ framePc = "report"
     /\ mWaitForPresentQueries = <<>> \/ ~FrontIsFinished
     /\ released' = CHOOSE e \in done : \A f \in done : f <= e
     /\ updates' = SubSeq(all, Cardinality(Completed(all)) + 1, Len(all))
     /\ reported' = IF mLastPipelineInfo > reported
                    THEN mLastPipelineInfo ELSE reported
     /\ handedOver' = IF fence = 0 THEN handedOver
                      ELSE <<Latest, fence>>
     /\ fence' = 0 /\ framePc' = "idle"
     /\ UNCHANGED <<angleVars, mEGLSurface, eglVars, mLatestRenderFrameId,
                    queryVars, wrVars, worldVars, resetVars>>

-----------------------------------------------------------------------------
(* EGL: the surface goes when the window is paused                          *)

Pause ==
  /\ framePc = "idle" /\ platform \in {"android", "linux"}
  /\ mEGLSurface' = FALSE
  /\ UNCHANGED <<angleVars, eglVars, mLatestRenderFrameId, queryVars, wrVars,
                 managerVars, worldVars, resetVars, frameVars>>

(* On Android the first failure only returns false, so that the widget may *)
(* ask for another Java surface.                                            *)
RaisesError_LinuxOnly == platform = "linux"
RaisesError == platform = "linux" \/ mHandlingNewSurfaceError

Resume(tooBig, ok) ==
  /\ framePc = "idle" /\ platform \in {"android", "linux"}
  /\ tooBig => platform = "android" /\ ~ok
  /\ mEGLSurface' = ok
  /\ errors' = IF ok \/ tooBig \/ ~RaisesError THEN errors
               ELSE errors \cup {"NEW_SURFACE"}
  /\ mHandlingNewSurfaceError' =
       IF tooBig \/ platform = "linux" THEN mHandlingNewSurfaceError ELSE ~ok
  /\ surfaceFailures' =
       IF ok THEN 0
       ELSE IF tooBig \/ surfaceFailures = 2 THEN surfaceFailures
       ELSE surfaceFailures + 1
  /\ UNCHANGED <<angleVars, mReleaseFenceFd, syncVars, mLatestRenderFrameId,
                 queryVars,
                 wrVars, managerVars, worldVars, handlingDeviceReset,
                 frameVars>>

-----------------------------------------------------------------------------
(* The world                                                                *)

GpuRuns ==
  /\ ~lost /\ gpuDone < Latest /\ gpuDone' = gpuDone + 1
  /\ UNCHANGED <<platform, lost, clientSize, sent>>

DeviceLost ==
  /\ platform = "windows" /\ ~lost /\ lost' = TRUE
  /\ UNCHANGED <<platform, gpuDone, clientSize, sent>>

WindowResized(size) ==
  /\ framePc = "idle" /\ platform = "windows"
  /\ size # clientSize /\ clientSize' = size
  /\ UNCHANGED <<platform, gpuDone, lost, sent>>

SendEpoch ==
  /\ framePc = "idle" /\ sent < MaxEpochs /\ sent' = sent + 1
  /\ UNCHANGED worldVars

World ==
  /\ \/ GpuRuns \/ DeviceLost \/ SendEpoch
     \/ \E size \in ClientSizes : WindowResized(size)
  /\ UNCHANGED <<angleVars, mEGLSurface, eglVars, mLatestRenderFrameId,
                 queryVars, applied, flushed, drawnOnce, mLastPipelineInfo,
                 reads, managerVars, resetVars, frameVars>>

Next ==
  \/ \E a, b, c \in BOOLEAN :
       \/ SkipFrame(a, b)
       \/ BeginFrame(a, b)
       \/ Draw(a, b)
       \/ EndFrameANGLE(a, b, c)
       \/ Resume(a, b)
  \/ \E a \in BOOLEAN : EndFrameGL(a) \/ UpdateFrameId(a)
  \/ EndFrameWithoutBuffer
  \/ Wait \/ WaitOver \/ Poll \/ NotifyPipelinesUpdated
  \/ Pause \/ World

Spec == Init /\ [][Next]_vars

-----------------------------------------------------------------------------
(* Properties                                                               *)

(* RenderCompositorANGLE.cpp:557 "This ensures we're done reading textures  *)
(* before swapping buffers": an image that is given back for reuse is read  *)
(* by no command that the GPU has still to run, whichever waits failed,     *)
(* queries could not be made or frames were not drawn.                      *)
ReleasedAreNotRead ==
  platform = "windows" /\ ~lost =>
    \A e \in 1 .. MaxEpochs : e < released => reads[e] <= gpuDone

(* A window that is presented in parts shows no pixel that was not drawn:   *)
(* after its buffers are new, or a Present1 was lost, a full frame comes    *)
(* first (RequestFullRender).                                               *)
PresentedIsWhole ==
  framePc = "endPart" /\ ~UseCompositor => whole

(* No query waits for two frames, and none is both in use and recycled.     *)
QueriesAreDistinct ==
  LET used == [i \in DOMAIN mWaitForPresentQueries |->
                 mWaitForPresentQueries[i].query]
  IN IsInjective(used) /\ mRecycledQuery \notin ToSet(used)

(* A fence is handed over once, with the frame whose end it tells.          *)
FencesAreFresh == handedOver[1] = handedOver[2]

(* RenderCompositorEGL.cpp:191-198: a second surface that cannot be made    *)
(* raises an error.                                                         *)
SurfaceErrorsAreRaised == surfaceFailures = 2 => "NEW_SURFACE" \in errors

(* macOS: the render thread is never more than one drawn frame ahead of the *)
(* GPU.                                                                     *)
DrawnFramesAreWaitedFor ==
  platform = "mac" /\ framePc = "idle" => lastDrawn[1] <= gpuDone

(* What WebRender took into use was reported when the update ends, also if  *)
(* the frame was not drawn or failed.                                       *)
EpochsAreReported == framePc = "idle" => reported = applied

RendererConsistent ==
  /\ QueriesAreDistinct /\ FencesAreFresh
  /\ SurfaceErrorsAreRaised /\ DrawnFramesAreWaitedFor
  /\ EpochsAreReported
=============================================================================
