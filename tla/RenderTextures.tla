--------------------------- MODULE RenderTextures ---------------------------
(***************************************************************************)
(* The registry of external images (RenderThread.cpp, under                *)
(* mRenderTextureMapLock): which RenderTextureHost stands behind which     *)
(* ExternalImageId, the operations queued for the hosts, the hosts waiting *)
(* to be released on the render thread, and the frames that lock them.     *)
(*                                                                         *)
(* An image stands for its id and for the host registered under it: ids    *)
(* are not used twice.  Several threads register, unregister and notify;   *)
(* the render thread runs one runnable after the other; the main thread    *)
(* shuts it down.  A scope that holds the lock is one step.                *)
(***************************************************************************)
EXTENDS Integers, Sequences

CONSTANTS
  Images,           \* the external images
  NoImage,          \* not an image
  SyncObjectHosts,  \* those whose host says SyncObjectNeeded()
  Wrappers,         \* those whose host is a RenderTextureHostWrapper
  Buffers,          \* those whose host is a RenderBufferTextureHost
  Ops,              \* the operations the other threads ask for
  MaxOps,           \* bound: operations added
  MaxFrames,        \* bound: frames sent
  AllowErrors,      \* may devices be lost and renders fail?
  AllowShutDown     \* may the main thread call ShutDown?

ASSUME ImagesAssumption ==
  /\ NoImage \notin Images
  /\ SyncObjectHosts \subseteq Images
  /\ Buffers \subseteq Images
  /\ Wrappers \subseteq Images \ (SyncObjectHosts \cup Buffers)
ASSUME BoundsAssumption == /\ Ops \subseteq {"PrepareForUse", "NotifyForUse",
                                         "NotifyNotUsed"}
                           /\ MaxOps \in Nat
                           /\ MaxFrames \in Nat
                           /\ AllowErrors \in BOOLEAN
                           /\ AllowShutDown \in BOOLEAN

VARIABLES
  mRenderTextures,
  mSyncObjectNeededRenderTextures,
  mRenderTexturesDeferred,
  mRenderTextureOps,
  mRenderTextureOpsRunnable,  \* is the RefPtr set?
  mTextureHost,               \* of each RenderTextureHostWrapper
  mDestroyed,                 \* of each RenderBufferTextureHost
  mHandlingDeviceReset, mHandlingWebRenderError,
  mThread,                    \* the runnables dispatched to the thread
  sentFrames, framesRunnable, \* NewFrameReady events, is their runnable due?
  pc,                         \* where the render thread stands
  renderTextureOps, nextOp,   \* HandleRenderTextureOps' local list
  hosts,                      \* DestroyExternalImages' local list
  frames,                     \* the frames it still has to handle
  synced, locked,             \* of the frame being rendered
  dropped,                    \* history: hosts an error took from the frame
  cached, stale,              \* hosts with GL resources, of a lost device
  main,                       \* where RenderThread::ShutDown stands
  waiting, taskDone, freed,   \* DestroyExternalImagesSyncWait
  used, issued, applied       \* history: ids, operations added and run

mapVars      == <<mRenderTextures, mSyncObjectNeededRenderTextures,
                  mRenderTexturesDeferred>>
opsVars      == <<mRenderTextureOps, mRenderTextureOpsRunnable>>
registryVars == <<mapVars, opsVars>>
hostVars     == <<mTextureHost, mDestroyed, cached, stale>>
sentVars     == <<sentFrames, framesRunnable>>
opListVars   == <<renderTextureOps, nextOp>>
frameVars    == <<frames, synced, locked, dropped>>
localVars    == <<pc, opListVars, hosts, frameVars>>
handling     == <<mHandlingDeviceReset, mHandlingWebRenderError>>
waitVars     == <<waiting, taskDone, freed>>
historyVars  == <<used, issued, applied>>
otherVars    == <<historyVars, handling, main, waitVars>>
vars == <<registryVars, hostVars, sentVars, localVars, otherVars, mThread>>

-----------------------------------------------------------------------------
Op    == [op : Ops, texture : Images]
(* A frame: the images it locks, and how many operations had been added     *)
(* when it was sent.                                                        *)
Frame == [images : SUBSET Images, ops : Nat]

Runnables == {"HandleRenderTextureOps", "DeferredRenderTextureHostDestroy",
              "DestroyExternalImages", "HandleFrames", "ShutDownTask"}

mHasShutdown == main # "running"
HasThread    == main # "joined"

(* The hosts a reference to which is held by a map, a list or a local, and  *)
(* those that a wrapper among these holds.                                  *)
Textures(ops) == {ops[k].texture : k \in DOMAIN ops}
Held == mRenderTextures \cup mSyncObjectNeededRenderTextures
          \cup mRenderTexturesDeferred \cup Textures(mRenderTextureOps)
          \cup Textures(renderTextureOps) \cup hosts

(* The host behind an image, and the one it forwards to if it is a wrapper. *)
HostsOf(S) == S \cup ({mTextureHost[i] : i \in S \cap Wrappers} \ {NoImage})
Alive      == HostsOf(Held)

-----------------------------------------------------------------------------
Init ==
  /\ mRenderTextures = {} /\ mSyncObjectNeededRenderTextures = {}
  /\ mRenderTexturesDeferred = {}
  /\ mRenderTextureOps = <<>> /\ mRenderTextureOpsRunnable = FALSE
  /\ mTextureHost = [i \in Wrappers |-> NoImage]
  /\ mDestroyed = {}
  /\ mHandlingDeviceReset = FALSE /\ mHandlingWebRenderError = FALSE
  /\ mThread = <<>>
  /\ sentFrames = <<>> /\ framesRunnable = FALSE
  /\ pc = "idle"
  /\ renderTextureOps = <<>> /\ nextOp = 1
  /\ hosts = {} /\ frames = <<>>
  /\ synced = FALSE /\ locked = {} /\ dropped = {}
  /\ cached = {} /\ stale = {}
  /\ main = "running"
  /\ waiting = {} /\ taskDone = FALSE /\ freed = {}
  /\ used = {} /\ issued = <<>> /\ applied = <<>>

PostRunnable(tag) == mThread' = Append(mThread, tag)

-----------------------------------------------------------------------------
(* What the other threads do.                                               *)

(* A wrapper looks its image up when it is made; it stays empty if that is  *)
(* not registered.                                                          *)
EnsureTextureHost(i) ==
  IF i \in Wrappers
  THEN \E j \in Images \ Wrappers :
         mTextureHost' = [mTextureHost EXCEPT ![i] =
                            IF j \in mRenderTextures THEN j ELSE NoImage]
  ELSE UNCHANGED mTextureHost

(* Mutants: also after ShutDown; the sync object is forgotten.              *)
MayRegister_Always  == HasThread
SyncObjectNeeded_Forgotten(i) == FALSE

MayRegister         == ~mHasShutdown
SyncObjectNeeded(i) == i \in SyncObjectHosts

RegisterExternalImage(i) ==
  /\ MayRegister
  /\ i \notin used
  /\ used' = used \cup {i}
  /\ EnsureTextureHost(i)
  /\ mRenderTextures' = mRenderTextures \cup {i}
  /\ mSyncObjectNeededRenderTextures' =
       mSyncObjectNeededRenderTextures \cup {j \in {i} : SyncObjectNeeded(j)}
  /\ UNCHANGED <<localVars, opsVars, sentVars, handling, waitVars,
                 mRenderTexturesDeferred, issued, applied, main, mDestroyed,
                 cached, stale, mThread>>

(* Mutants: the host goes where it is unregistered; no one is told.         *)
ReleaseOnRenderThread_Not(i) ==
  UNCHANGED <<mRenderTexturesDeferred, mThread>>
ReleaseOnRenderThread_NoRunnable(i) ==
  /\ mRenderTexturesDeferred' = mRenderTexturesDeferred \cup {i}
  /\ UNCHANGED mThread

ReleaseOnRenderThread(i) ==
  /\ mRenderTexturesDeferred' = mRenderTexturesDeferred \cup {i}
  /\ PostRunnable("DeferredRenderTextureHostDestroy")

(* UnregisterExternalImage off the render thread: the host is released on   *)
(* the render thread later. Nobody unregisters an image whose destruction   *)
(* is being waited for.                                                     *)
UnregisterExternalImage(i) ==
  /\ ~mHasShutdown
  /\ i \in mRenderTextures \ waiting
  /\ mRenderTextures' = mRenderTextures \ {i}
  /\ mSyncObjectNeededRenderTextures' = mSyncObjectNeededRenderTextures \ {i}
  /\ ReleaseOnRenderThread(i)
  /\ UNCHANGED <<localVars, otherVars, opsVars, hostVars, sentVars>>

(* The same on the render thread, called by another component's runnable.   *)
UnregisterOnRenderThread(i) ==
  /\ pc = "idle"
  /\ ~mHasShutdown
  /\ i \in mRenderTextures \ waiting
  /\ mRenderTextures' = mRenderTextures \ {i}
  /\ mSyncObjectNeededRenderTextures' = mSyncObjectNeededRenderTextures \ {i}
  /\ UNCHANGED <<localVars, otherVars, opsVars, hostVars, sentVars,
                 mRenderTexturesDeferred, mThread>>

(* Mutant: a runnable is taken to be queued already.                        *)
PostRenderTextureOps_Not == UNCHANGED <<mRenderTextureOpsRunnable, mThread>>

PostRenderTextureOps ==
  IF mRenderTextureOpsRunnable
  THEN UNCHANGED <<mRenderTextureOpsRunnable, mThread>>
  ELSE /\ mRenderTextureOpsRunnable' = TRUE
       /\ PostRunnable("HandleRenderTextureOps")

(* PrepareForUse, NotifyForUse, NotifyNotUsed: the host is found now, the   *)
(* operation runs on the render thread. This goes on after ShutDown, until  *)
(* ShutDownTask has emptied mRenderTextures.                                *)
AddRenderTextureOp(op, i) ==
  /\ Len(issued) < MaxOps
  /\ i \in mRenderTextures
  /\ mRenderTextureOps' = Append(mRenderTextureOps, [op |-> op, texture |-> i])
  /\ issued' = Append(issued, [op |-> op, texture |-> i])
  /\ PostRenderTextureOps
  /\ UNCHANGED <<localVars, mapVars, hostVars, sentVars, handling, waitVars,
                 used, applied, main>>

(* A frame that WebRender has built reaches the render thread: its images   *)
(* were registered when the scene was sent. RenderThread models the way it  *)
(* takes; one runnable handles all the frames that have come by then.       *)
SendFrame(S) ==
  /\ HasThread
  /\ Len(sentFrames) + Len(frames) < MaxFrames
  /\ S # {} /\ S \subseteq mRenderTextures
  /\ sentFrames' = Append(sentFrames, [images |-> S, ops |-> Len(issued)])
  /\ IF framesRunnable
     THEN UNCHANGED <<framesRunnable, mThread>>
     ELSE framesRunnable' = TRUE /\ PostRunnable("HandleFrames")
  /\ UNCHANGED <<registryVars, localVars, otherVars, hostVars>>

(* DestroyExternalImagesSyncWait off the render thread. The buffers of the  *)
(* images are the caller's to free once it returns.                         *)
DestroyExternalImagesSyncWait(S) ==
  /\ HasThread
  /\ waiting = {}
  /\ S # {} /\ S \subseteq (mRenderTextures \cap Buffers) \ freed
  /\ waiting' = S
  /\ PostRunnable("DestroyExternalImages")
  /\ UNCHANGED <<registryVars, localVars, hostVars, sentVars, handling,
                 historyVars, main, taskDone, freed>>

DestroyExternalImagesReturns ==
  /\ taskDone
  /\ taskDone' = FALSE
  /\ waiting' = {}
  /\ freed' = freed \cup waiting
  /\ UNCHANGED <<registryVars, localVars, hostVars, sentVars, handling,
                 historyVars, main, mThread>>

(* RenderThread::ShutDown on the main thread, up to the join and after it.  *)
ShutDown ==
  /\ AllowShutDown
  /\ main = "running"
  /\ main' = "shut_down"
  /\ UNCHANGED <<registryVars, localVars, hostVars, sentVars, handling,
                 waitVars, historyVars, mThread>>

PostShutDownTask ==
  /\ main = "shut_down"
  /\ main' = "joining"
  /\ PostRunnable("ShutDownTask")
  /\ UNCHANGED <<registryVars, localVars, hostVars, sentVars, handling,
                 waitVars, historyVars>>

ThreadJoined ==
  /\ main = "joining"
  /\ mThread = <<>> /\ pc = "idle"
  /\ main' = "joined"
  /\ UNCHANGED <<registryVars, localVars, hostVars, sentVars, handling,
                 waitVars, historyVars, mThread>>

-----------------------------------------------------------------------------
(* What the render thread does: its next runnable, or the rest of one.      *)

NextRunnable(tag) ==
  /\ pc = "idle"
  /\ mThread # <<>> /\ Head(mThread) = tag
  /\ mThread' = Tail(mThread)

(* Mutant: the list is copied, not swapped.                                 *)
SwapRenderTextureOps_Copy ==
  /\ renderTextureOps' = mRenderTextureOps
  /\ nextOp' = 1
  /\ mRenderTextureOpsRunnable' = FALSE
  /\ UNCHANGED mRenderTextureOps

(* HandleRenderTextureOps up to the end of its scope.                       *)
SwapRenderTextureOps ==
  /\ renderTextureOps' = mRenderTextureOps
  /\ nextOp' = 1
  /\ mRenderTextureOps' = <<>>
  /\ mRenderTextureOpsRunnable' = FALSE

HandleRenderTextureOps ==
  /\ NextRunnable("HandleRenderTextureOps")
  /\ SwapRenderTextureOps
  /\ pc' = "ops"
  /\ UNCHANGED <<otherVars, mapVars, hostVars, sentVars, frameVars, hosts>>

(* The host's PrepareForUse(), NotifyForUse() or NotifyNotUsed().           *)
RunRenderTextureOp ==
  /\ pc \in {"ops", "frame_ops"}
  /\ nextOp <= Len(renderTextureOps)
  /\ applied' = Append(applied, renderTextureOps[nextOp])
  /\ nextOp' = nextOp + 1
  /\ UNCHANGED <<registryVars, hostVars, sentVars, frameVars, handling,
                 waitVars, pc, renderTextureOps, hosts, used, issued, main,
                 mThread>>

(* The local list goes, with the references it holds.                       *)
RenderTextureOpsDone ==
  /\ pc \in {"ops", "frame_ops"}
  /\ nextOp > Len(renderTextureOps)
  /\ renderTextureOps' = <<>> /\ nextOp' = 1
  /\ pc' = IF pc = "ops" THEN "idle" ELSE "begin_frame"
  /\ UNCHANGED <<registryVars, otherVars, hostVars, sentVars, frameVars,
                 hosts, mThread>>

DeferredRenderTextureHostDestroy ==
  /\ NextRunnable("DeferredRenderTextureHostDestroy")
  /\ mRenderTexturesDeferred' = {}
  /\ UNCHANGED <<localVars, otherVars, opsVars, hostVars, sentVars,
                 mRenderTextures, mSyncObjectNeededRenderTextures>>

(* Mutant: the early return leaves the waiting thread waiting.              *)
AfterLookup_ReturnsEarly == IF mHasShutdown THEN "idle" ELSE "destroy"

(* AutoCompleteTask: DestroyHosts completes the task in either case.        *)
AfterLookup == "destroy"

(* DestroyExternalImages: the hosts are found under the lock and destroyed  *)
(* after it; after ShutDown none is. Either way the waiting thread goes on. *)
DestroyExternalImages ==
  /\ NextRunnable("DestroyExternalImages")
  /\ hosts' = IF mHasShutdown THEN {} ELSE waiting \cap mRenderTextures
  /\ pc' = AfterLookup
  /\ UNCHANGED <<registryVars, otherVars, hostVars, sentVars, opListVars,
                 frameVars>>

DestroyHosts ==
  /\ pc = "destroy"
  /\ mDestroyed' = mDestroyed \cup hosts
  /\ hosts' = {}
  /\ taskDone' = TRUE
  /\ pc' = "idle"
  /\ UNCHANGED <<registryVars, sentVars, opListVars, frameVars, handling,
                 historyVars, main, waiting, freed, mTextureHost, cached,
                 stale, mThread>>

-----------------------------------------------------------------------------
(* Frames (HandleWrNotifierEvents, HandleFrameOneDoc, UpdateAndRender).     *)

HandleFrames ==
  /\ NextRunnable("HandleFrames")
  /\ frames' = sentFrames /\ sentFrames' = <<>>
  /\ framesRunnable' = FALSE
  /\ pc' = "frames"
  /\ UNCHANGED <<registryVars, otherVars, hostVars, opListVars, hosts,
                 synced, locked, dropped>>

FramesDone ==
  /\ pc = "frames" /\ frames = <<>>
  /\ pc' = "idle"
  /\ UNCHANGED <<registryVars, otherVars, hostVars, sentVars, opListVars,
                 frameVars, hosts, mThread>>

(* Mutant: the check of mHasShutdown is forgotten.                          *)
FrameIsSkipped_NotAtShutDown == mHandlingDeviceReset

FrameIsSkipped == mHasShutdown \/ mHandlingDeviceReset

HandleFrameOneDoc_Skipped ==
  /\ pc = "frames" /\ frames # <<>>
  /\ FrameIsSkipped
  /\ frames' = Tail(frames)
  /\ UNCHANGED <<registryVars, otherVars, hostVars, sentVars, opListVars, pc,
                 hosts, synced, locked, dropped, mThread>>

(* Mutant: the operations are left to their own runnable.                   *)
OpsBeforeFrame_None == UNCHANGED <<opsVars, opListVars>>

OpsBeforeFrame == SwapRenderTextureOps

(* The operations run before the frame locks anything.                      *)
HandleFrameOneDoc ==
  /\ pc = "frames" /\ frames # <<>>
  /\ ~FrameIsSkipped
  /\ OpsBeforeFrame
  /\ pc' = "frame_ops"
  /\ UNCHANGED <<otherVars, mapVars, hostVars, sentVars, frameVars, hosts,
                 mThread>>

(* BeginFrame: Synchronize() if some registered host needs it.              *)
BeginFrame ==
  /\ pc = "begin_frame"
  /\ synced' = (mSyncObjectNeededRenderTextures # {})
  /\ pc' = "render"
  /\ UNCHANGED <<registryVars, otherVars, hostVars, sentVars, opListVars,
                 hosts, frames, locked, dropped, mThread>>

(* wr_renderer_lock_external_image: the host is found under the lock and    *)
(* used until the frame's images are unlocked; a destroyed buffer and an    *)
(* image no longer registered are not.                                      *)
LockImage(i) ==
  /\ pc = "render"
  /\ i \in frames[1].images
  /\ frames' = [frames EXCEPT ![1].images = @ \ {i}]
  /\ LET found == HostsOf({i} \cap mRenderTextures) \ mDestroyed
     IN  /\ locked' = locked \cup found
         /\ cached' = cached \cup found
  /\ UNCHANGED <<registryVars, otherVars, sentVars, opListVars, pc, hosts,
                 synced, dropped, mTextureHost, mDestroyed, stale, mThread>>

(* The frame's images are unlocked, and the frame is over.                  *)
FrameOver ==
  /\ locked' = {} /\ synced' = FALSE /\ dropped' = {}
  /\ frames' = Tail(frames)
  /\ pc' = "frames"

(* (Or BeginFrame refused, without a report, and nothing is drawn.)         *)
RenderDone ==
  /\ \/ pc = "render" /\ frames[1].images = {}
     \/ pc = "begin_frame" /\ AllowErrors
  /\ FrameOver
  /\ UNCHANGED <<registryVars, otherVars, hostVars, sentVars, opListVars,
                 hosts, mThread>>

(* Mutant: a wrapper keeps the call from the host behind it.                *)
ClearCachedResources_NotForwarded == mRenderTextures

(* The hosts that hear of ClearCachedResources(): a wrapper forwards it.    *)
ClearCachedResources == HostsOf(mRenderTextures)

(* The device is found lost in BeginFrame or, the frame rendered, in        *)
(* WaitForGPU (HandleDeviceReset): every resource is the lost device's.     *)
DeviceLost ==
  /\ AllowErrors
  /\ \/ pc = "begin_frame"
     \/ pc = "render" /\ frames[1].images = {}
  /\ FrameOver
  /\ mHandlingDeviceReset' = TRUE
  /\ mRenderTexturesDeferred' = {}
  /\ stale' = (stale \cup cached) \ ClearCachedResources
  /\ cached' = {}
  /\ UNCHANGED <<opsVars, sentVars, opListVars, waitVars, historyVars,
                 mRenderTextures, mSyncObjectNeededRenderTextures, hosts,
                 mHandlingWebRenderError, main, mTextureHost, mDestroyed,
                 mThread>>

(* The first error is handled, later ones are not (HandleWebRenderError):   *)
(* what waits to be released goes at once.                                  *)
HandleWebRenderError ==
  IF mHandlingWebRenderError
  THEN UNCHANGED <<mHandlingWebRenderError, mRenderTexturesDeferred, cached>>
  ELSE /\ mHandlingWebRenderError' = TRUE
       /\ mRenderTexturesDeferred' = {}
       /\ cached' = cached \ ClearCachedResources

(* A compositor reports an error while the frame is drawn (a BeginDraw or   *)
(* the mapping of a tile fails), whatever is locked; the frame goes on.     *)
CompositorFails ==
  /\ AllowErrors
  /\ pc = "render"
  /\ HandleWebRenderError
  /\ dropped' = IF mHandlingWebRenderError THEN dropped
                ELSE dropped \cup HostsOf(mRenderTexturesDeferred)
  /\ UNCHANGED <<opsVars, sentVars, opListVars, waitVars, historyVars,
                 mRenderTextures, mSyncObjectNeededRenderTextures, hosts,
                 mHandlingDeviceReset, main, mTextureHost, mDestroyed, stale,
                 frames, synced, locked, pc, mThread>>

(* The compositor's BeginFrame failed, or wr_renderer_render did.           *)
RenderFails ==
  /\ AllowErrors
  /\ \/ pc = "begin_frame"
     \/ pc = "render" /\ frames[1].images = {}
  /\ FrameOver
  /\ HandleWebRenderError
  /\ UNCHANGED <<opsVars, sentVars, opListVars, waitVars, historyVars,
                 mRenderTextures, mSyncObjectNeededRenderTextures, hosts,
                 mHandlingDeviceReset, main, mTextureHost, mDestroyed, stale,
                 mThread>>

(* A compositor fails outside a frame: when it is made or resumed.          *)
CompositorFailsWhenIdle ==
  /\ AllowErrors
  /\ pc = "idle" /\ HasThread
  /\ HandleWebRenderError
  /\ UNCHANGED <<opsVars, sentVars, localVars, waitVars, historyVars,
                 mRenderTextures, mSyncObjectNeededRenderTextures,
                 mHandlingDeviceReset, main, mTextureHost, mDestroyed, stale,
                 mThread>>

(* RemoveRenderer, of the last renderer: the errors have been handled.      *)
LastRendererRemoved ==
  /\ pc = "idle" /\ HasThread
  /\ mHandlingDeviceReset \/ mHandlingWebRenderError
  /\ mHandlingDeviceReset' = FALSE /\ mHandlingWebRenderError' = FALSE
  /\ UNCHANGED <<registryVars, localVars, hostVars, sentVars, waitVars,
                 historyVars, main, mThread>>

ShutDownTask ==
  /\ NextRunnable("ShutDownTask")
  /\ mRenderTextures' = {} /\ mSyncObjectNeededRenderTextures' = {}
  /\ mRenderTexturesDeferred' = {}
  /\ mRenderTextureOps' = <<>>
  /\ UNCHANGED <<localVars, otherVars, hostVars, sentVars,
                 mRenderTextureOpsRunnable>>

-----------------------------------------------------------------------------
(* The render thread with a runnable in hand.                               *)
RenderThreadStep ==
  \/ HandleRenderTextureOps \/ RunRenderTextureOp \/ RenderTextureOpsDone
  \/ DeferredRenderTextureHostDestroy
  \/ DestroyExternalImages \/ DestroyHosts
  \/ HandleFrames \/ FramesDone
  \/ HandleFrameOneDoc_Skipped \/ HandleFrameOneDoc
  \/ BeginFrame \/ RenderDone \/ DeviceLost
  \/ CompositorFails \/ RenderFails
  \/ \E i \in Images : LockImage(i)
  \/ ShutDownTask

OtherThreads ==
  \/ \E i \in Images : \/ RegisterExternalImage(i)
                       \/ UnregisterExternalImage(i)
                       \/ \E op \in Ops : AddRenderTextureOp(op, i)
  \/ \E S \in SUBSET Images : SendFrame(S) \/ DestroyExternalImagesSyncWait(S)
  \/ DestroyExternalImagesReturns
  \/ ShutDown \/ PostShutDownTask \/ ThreadJoined

Next ==
  \/ RenderThreadStep
  \/ LastRendererRemoved \/ CompositorFailsWhenIdle
  \/ \E i \in Images : UnregisterOnRenderThread(i)
  \/ OtherThreads

Spec == Init /\ [][Next]_vars

(* The event loop of the render thread runs what is queued.                 *)
Fairness == WF_vars(RenderThreadStep) /\ WF_vars(DestroyExternalImagesReturns)

FairSpec == Spec /\ Fairness

-----------------------------------------------------------------------------
RegistryTypeOK ==
  /\ mRenderTextures \subseteq Images
  /\ mSyncObjectNeededRenderTextures \subseteq Images
  /\ mRenderTexturesDeferred \subseteq Images
  /\ mRenderTextureOps \in Seq(Op) /\ mRenderTextureOpsRunnable \in BOOLEAN

HostTypeOK ==
  /\ mTextureHost \in [Wrappers -> Images \cup {NoImage}]
  /\ mDestroyed \subseteq Images
  /\ cached \subseteq Images /\ stale \subseteq Images

ThreadTypeOK ==
  /\ mThread \in Seq(Runnables)
  /\ sentFrames \in Seq(Frame) /\ framesRunnable \in BOOLEAN
  /\ main \in {"running", "shut_down", "joining", "joined"}
  /\ mHandlingDeviceReset \in BOOLEAN /\ mHandlingWebRenderError \in BOOLEAN

LocalTypeOK ==
  /\ pc \in {"idle", "ops", "destroy", "frames", "frame_ops", "begin_frame",
             "render"}
  /\ renderTextureOps \in Seq(Op) /\ nextOp \in Nat \ {0}
  /\ hosts \subseteq Images
  /\ frames \in Seq(Frame)
  /\ pc \in {"frame_ops", "begin_frame", "render"} => frames # <<>>
  /\ synced \in BOOLEAN /\ locked \subseteq Images
  /\ dropped \subseteq Images

OtherTypeOK ==
  /\ waiting \subseteq Images /\ taskDone \in BOOLEAN /\ freed \subseteq Images
  /\ used \subseteq Images /\ issued \in Seq(Op) /\ applied \in Seq(Op)

TypeOK == RegistryTypeOK /\ HostTypeOK /\ ThreadTypeOK /\ LocalTypeOK
            /\ OtherTypeOK

(* While a frame has images locked, the hosts behind them, and those that   *)
(* the wrappers among them forward to, are referenced: what other threads   *)
(* unregister meanwhile is not destroyed under the frame, although          *)
(* GetRenderTexture hands out a plain pointer. The exception: the handling  *)
(* of the first error that is reported while the frame is drawn empties the *)
(* list in which those hosts wait, and takes them from under the frame.     *)
LockedHostsAreAlive == locked \subseteq Alive \cup dropped

(* Until ShutDownTask drops the rest, the operations added to the images    *)
(* are run once each and in the order in which they were added, whether     *)
(* their own runnable or a frame gets to them; none is forgotten.           *)
ShutDownTaskHasRun ==
  /\ main \in {"joining", "joined"}
  /\ \A k \in DOMAIN mThread : mThread[k] # "ShutDownTask"

OpsRunInOrder ==
  LET known ==
        applied \o SubSeq(renderTextureOps, nextOp, Len(renderTextureOps))
          \o mRenderTextureOps
  IN  \/ known = issued
      \/ ShutDownTaskHasRun /\ known = SubSeq(issued, 1, Len(known))

(* Every operation added before a frame was sent has been run when the      *)
(* frame locks its images: PrepareForUse() comes before Lock(), also for a  *)
(* frame handled by a runnable that was queued before the operation's.      *)
OpsRunBeforeLock == pc = "render" => Len(applied) >= frames[1].ops

(* A frame reads no buffer whose owner was told, by the return of           *)
(* DestroyExternalImagesSyncWait, that it is no longer used; neither when   *)
(* ShutDown came between and the host was not destroyed.                    *)
FreedBuffersAreNotRead == locked \cap freed = {}

(* Nothing a frame locks still has resources of a device that was lost.     *)
LockedHostsAreNotStale == locked \cap stale = {}

(* When the thread has been joined, no host is referenced any more          *)
(* (~RenderThread asserts it of the deferred ones): each was released by a  *)
(* step of the render thread.                                               *)
NothingLeftAtExit == main = "joined" => Alive = {}

(* A host is released by the render thread and by no other.                 *)
ReleasedOnRenderThread ==
  [][Alive \subseteq Alive' \/ RenderThreadStep \/ CompositorFailsWhenIdle
       \/ \E i \in Images : UnregisterOnRenderThread(i)]_vars

(* A frame that locks a host which needs the sync object has synchronised   *)
(* before, whoever registered or unregistered images since it was sent. (Of *)
(* the images it locks itself: a wrapper says that it needs none.)          *)
SyncedBeforeLock ==
  [][\A i \in SyncObjectHosts :
       LockImage(i) /\ i \in mRenderTextures => synced]_vars

(* An image unregistered off the render thread is released in the end,      *)
(* unless a registered wrapper goes on using its host.                      *)
UnregisteredAreReleased ==
  \A i \in Images :
    (i \in used \ mRenderTextures)
      ~> (i \notin Alive \/ i \in HostsOf(mRenderTextures))

(* An operation that was added is run, unless the thread is shut down.      *)
OpsAreRun == \A n \in 1..MaxOps :
  (Len(issued) >= n) ~> (Len(applied) >= n \/ mHasShutdown)

(* DestroyExternalImagesSyncWait returns, also when ShutDown comes between. *)
DestroyReturns == (waiting # {}) ~> (waiting = {})
=============================================================================
