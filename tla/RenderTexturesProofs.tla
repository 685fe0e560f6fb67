------------------------ MODULE RenderTexturesProofs ------------------------
(***************************************************************************)
(* What holds of the registry of external images for any images and any    *)
(* bounds: it is type correct, no host goes while a frame has it locked or *)
(* by another thread's doing, and no freed buffer is read; then, from the  *)
(* second invariant, the order of the operations, what a frame finds when  *)
(* it locks its images, and what is left at exit.                          *)
(***************************************************************************)
EXTENDS RenderTexturesInvariant, SequenceTheorems, TLAPS

-----------------------------------------------------------------------------
(* What a step leaves alone keeps its type: the registry.                   *)
LEMMA RegistryUnchanged ==
    RegistryTypeOK /\ UNCHANGED registryVars => RegistryTypeOK'
  BY DEF RegistryTypeOK, registryVars, mapVars, opsVars
(* Likewise the hosts.                                                      *)
LEMMA HostUnchanged == HostTypeOK /\ UNCHANGED hostVars => HostTypeOK'
  BY DEF HostTypeOK, hostVars
(* Likewise the queues of the render thread, and what stops it.             *)
LEMMA ThreadUnchanged ==
    ThreadTypeOK /\ UNCHANGED <<mThread, sentVars, main, handling>>
      => ThreadTypeOK'
  BY DEF ThreadTypeOK, sentVars, handling
(* Likewise its local variables.                                            *)
LEMMA LocalUnchanged == LocalTypeOK /\ UNCHANGED localVars => LocalTypeOK'
  BY DEF LocalTypeOK, localVars, opListVars, frameVars
(* Likewise the waiting thread's, and the history.                          *)
LEMMA OtherUnchanged ==
    OtherTypeOK /\ UNCHANGED <<waitVars, historyVars>> => OtherTypeOK'
  BY DEF OtherTypeOK, waitVars, historyVars

(* The registry starts well-typed.                                          *)
LEMMA InitTypeOK == Init => TypeOK
<1> SUFFICES ASSUME Init PROVE TypeOK
  OBVIOUS
<1>1. RegistryTypeOK BY EmptySeq DEF Init, RegistryTypeOK
<1>2. HostTypeOK BY DEF Init, HostTypeOK
<1>3. ThreadTypeOK BY EmptySeq DEF Init, ThreadTypeOK
<1>4. LocalTypeOK
  <2>1. <<>> \in Seq(Op) /\ <<>> \in Seq(Frame) /\ 1 \in Nat \ {0}
    BY EmptySeq
  <2>2. /\ pc = "idle" /\ renderTextureOps = <<>> /\ nextOp = 1
        /\ hosts = {} /\ frames = <<>> /\ synced = FALSE
        /\ locked = {} /\ dropped = {}
    BY DEF Init
  <2> QED BY <2>1, <2>2 DEF LocalTypeOK
<1>5. OtherTypeOK BY EmptySeq DEF Init, OtherTypeOK
<1> QED BY <1>1, <1>2, <1>3, <1>4, <1>5 DEF TypeOK

(* A runnable put in the queue leaves it well-typed.                        *)
LEMMA PostRunnableType ==
  ASSUME ThreadTypeOK, NEW tag \in Runnables, PostRunnable(tag)
  PROVE  mThread' \in Seq(Runnables)
  BY DEF ThreadTypeOK, PostRunnable

(* So does the one taken from it.                                           *)
LEMMA NextRunnableType ==
  ASSUME ThreadTypeOK, NEW tag, NextRunnable(tag)
  PROVE  mThread' \in Seq(Runnables)
  BY DEF ThreadTypeOK, NextRunnable

(* The list that HandleRenderTextureOps takes is well-typed.                *)
LEMMA SwapType ==
  ASSUME RegistryTypeOK, SwapRenderTextureOps
  PROVE  /\ renderTextureOps' \in Seq(Op) /\ nextOp' \in Nat \ {0}
         /\ mRenderTextureOps' \in Seq(Op)
         /\ mRenderTextureOpsRunnable' \in BOOLEAN
<1>1. <<>> \in Seq(Op) /\ 1 \in Nat \ {0}
  BY EmptySeq
<1> QED BY <1>1 DEF RegistryTypeOK, SwapRenderTextureOps

(* A wrapper's host is an image.                                            *)
LEMMA HostsOfType ==
  ASSUME HostTypeOK, NEW S \in SUBSET Images
  PROVE  HostsOf(S) \subseteq Images
  BY DEF HostTypeOK, HostsOf

(* The frames that are left when one is over.                               *)
LEMMA FrameOverType ==
  ASSUME LocalTypeOK, frames # <<>>, FrameOver
  PROVE  /\ pc' = "frames" /\ frames' \in Seq(Frame)
         /\ synced' \in BOOLEAN /\ locked' \subseteq Images
         /\ dropped' \subseteq Images
  BY HeadTailProperties DEF LocalTypeOK, FrameOver

(* The handling of an error leaves well-typed what it clears.               *)
LEMMA HandleErrorType ==
  ASSUME RegistryTypeOK, HostTypeOK, ThreadTypeOK, HandleWebRenderError
  PROVE  /\ mHandlingWebRenderError' \in BOOLEAN
         /\ mRenderTexturesDeferred' \subseteq Images
         /\ cached' \subseteq Images
  BY DEF RegistryTypeOK, HostTypeOK, ThreadTypeOK, HandleWebRenderError

(* Nor does it register anything or keep more resources.                    *)
LEMMA HandleErrorClears ==
  ASSUME HandleWebRenderError
  PROVE  /\ mRenderTexturesDeferred' \subseteq mRenderTexturesDeferred
         /\ cached' \subseteq cached
         /\ ~mHandlingWebRenderError => mRenderTexturesDeferred' = {}
         /\ mHandlingWebRenderError
              => UNCHANGED mRenderTexturesDeferred
         /\ mHandlingWebRenderError'
  BY DEF HandleWebRenderError

(* A step keeps the types.                                                  *)
LEMMA NextTypeOK == TypeOK /\ [Next]_vars => TypeOK'
<1> SUFFICES ASSUME TypeOK, [Next]_vars PROVE TypeOK'
  OBVIOUS
<1>0. /\ RegistryTypeOK /\ HostTypeOK /\ ThreadTypeOK
     /\ LocalTypeOK /\ OtherTypeOK
  BY DEF TypeOK
<1>1. CASE HandleRenderTextureOps
  <2>1. RegistryTypeOK'
    BY <1>0, <1>1, SwapType DEF HandleRenderTextureOps, RegistryTypeOK, mapVars
  <2>2. ThreadTypeOK'
    BY <1>0, <1>1 DEF HandleRenderTextureOps, NextRunnable,
       SwapRenderTextureOps,
       ThreadTypeOK, handling, historyVars, otherVars, sentVars, waitVars
  <2>3. LocalTypeOK'
    BY <1>0, <1>1, SwapType
    DEF HandleRenderTextureOps, LocalTypeOK, frameVars
  <2>4. HostTypeOK' /\ OtherTypeOK'
    BY <1>0, <1>1, HostUnchanged, OtherUnchanged DEF HandleRenderTextureOps,
       handling, historyVars, hostVars, otherVars, waitVars
  <2> QED BY <1>0, <2>1, <2>2, <2>3, <2>4 DEF TypeOK
<1>2. CASE RunRenderTextureOp
  <2>1. LocalTypeOK'
    BY <1>0, <1>2 DEF RunRenderTextureOp, LocalTypeOK, frameVars
  <2>2. OtherTypeOK'
    <3>1. renderTextureOps[nextOp] \in Op
      BY <1>0, <1>2 DEF RunRenderTextureOp, LocalTypeOK
    <3>2. applied' \in Seq(Op)
      BY <1>0, <1>2, <3>1 DEF RunRenderTextureOp, OtherTypeOK
    <3> QED BY <1>0, <1>2, <3>2 DEF RunRenderTextureOp, OtherTypeOK, waitVars
  <2>3. RegistryTypeOK' /\ HostTypeOK' /\ ThreadTypeOK'
    BY <1>0, <1>2, RegistryUnchanged, HostUnchanged, ThreadUnchanged DEF
       RunRenderTextureOp, handling, hostVars, mapVars, opsVars, registryVars,
       sentVars
  <2> QED BY <1>0, <2>1, <2>2, <2>3 DEF TypeOK
<1>3. CASE RenderTextureOpsDone
  <2>1. LocalTypeOK'
    BY <1>0, <1>3 DEF RenderTextureOpsDone, LocalTypeOK, frameVars
  <2>2. RegistryTypeOK' /\ HostTypeOK' /\ ThreadTypeOK' /\ OtherTypeOK'
    BY <1>0, <1>3, RegistryUnchanged, HostUnchanged, ThreadUnchanged,
       OtherUnchanged
       DEF RenderTextureOpsDone, handling, historyVars, hostVars, mapVars,
       opsVars, otherVars, registryVars, sentVars, waitVars
  <2> QED BY <1>0, <2>1, <2>2 DEF TypeOK
<1>4. CASE DeferredRenderTextureHostDestroy
  <2>1. RegistryTypeOK'
    BY <1>0, <1>4 DEF DeferredRenderTextureHostDestroy, NextRunnable,
       RegistryTypeOK,
       opsVars
  <2>2. ThreadTypeOK'
    BY <1>0, <1>4 DEF DeferredRenderTextureHostDestroy, NextRunnable,
       ThreadTypeOK,
       handling, historyVars, otherVars, sentVars, waitVars
  <2>3. HostTypeOK' /\ LocalTypeOK' /\ OtherTypeOK'
    BY <1>0, <1>4, HostUnchanged, LocalUnchanged, OtherUnchanged DEF
       DeferredRenderTextureHostDestroy, frameVars, handling, historyVars,
       hostVars, localVars, opListVars, otherVars, waitVars
  <2> QED BY <1>0, <2>1, <2>2, <2>3 DEF TypeOK
<1>5. CASE DestroyExternalImages
  <2>1. ThreadTypeOK'
    BY <1>0, <1>5 DEF DestroyExternalImages, NextRunnable, AfterLookup,
       ThreadTypeOK,
       handling, historyVars, otherVars, sentVars, waitVars
  <2>2. LocalTypeOK'
    <3>1. hosts' \subseteq Images
      BY <1>0, <1>5 DEF DestroyExternalImages, OtherTypeOK, RegistryTypeOK
    <3> QED BY <1>0, <1>5, <3>1 DEF DestroyExternalImages, AfterLookup,
           LocalTypeOK, opListVars, frameVars
  <2>3. RegistryTypeOK' /\ HostTypeOK' /\ OtherTypeOK'
    BY <1>0, <1>5, RegistryUnchanged, HostUnchanged, OtherUnchanged DEF
       DestroyExternalImages, handling, historyVars, hostVars, mapVars,
       opsVars, otherVars, registryVars, waitVars
  <2> QED BY <1>0, <2>1, <2>2, <2>3 DEF TypeOK
<1>6. CASE DestroyHosts
  <2>1. HostTypeOK'
    BY <1>0, <1>6 DEF DestroyHosts, HostTypeOK, LocalTypeOK
  <2>2. LocalTypeOK'
    BY <1>0, <1>6 DEF DestroyHosts, LocalTypeOK, frameVars, opListVars
  <2>3. OtherTypeOK'
    BY <1>0, <1>6 DEF DestroyHosts, OtherTypeOK, historyVars
  <2>4. RegistryTypeOK' /\ ThreadTypeOK'
    BY <1>0, <1>6, RegistryUnchanged, ThreadUnchanged DEF DestroyHosts,
       handling,
       mapVars, opsVars, registryVars, sentVars
  <2> QED BY <1>0, <2>1, <2>2, <2>3, <2>4 DEF TypeOK
<1>7. CASE HandleFrames
  <2>1. ThreadTypeOK'
    BY <1>0, <1>7, NextRunnableType, EmptySeq DEF HandleFrames, ThreadTypeOK,
       handling, otherVars
  <2>2. LocalTypeOK'
    BY <1>0, <1>7 DEF HandleFrames, ThreadTypeOK, LocalTypeOK, opListVars
  <2>3. RegistryTypeOK' /\ HostTypeOK' /\ OtherTypeOK'
    BY <1>0, <1>7, RegistryUnchanged, HostUnchanged, OtherUnchanged DEF
       HandleFrames,
       handling, historyVars, hostVars, mapVars, opsVars, otherVars,
       registryVars, waitVars
  <2> QED BY <1>0, <2>1, <2>2, <2>3 DEF TypeOK
<1>8. CASE FramesDone
  <2>1. LocalTypeOK'
    BY <1>0, <1>8 DEF FramesDone, LocalTypeOK, frameVars, opListVars
  <2>2. RegistryTypeOK' /\ HostTypeOK' /\ ThreadTypeOK' /\ OtherTypeOK'
    BY <1>0, <1>8, RegistryUnchanged, HostUnchanged, ThreadUnchanged,
       OtherUnchanged
       DEF FramesDone, handling, historyVars, hostVars, mapVars, opsVars,
       otherVars, registryVars, sentVars, waitVars
  <2> QED BY <1>0, <2>1, <2>2 DEF TypeOK
<1>9. CASE HandleFrameOneDoc_Skipped
  <2>1. LocalTypeOK'
    BY <1>0, <1>9 DEF HandleFrameOneDoc_Skipped, LocalTypeOK, opListVars
  <2>2. RegistryTypeOK' /\ HostTypeOK' /\ ThreadTypeOK' /\ OtherTypeOK'
    BY <1>0, <1>9, RegistryUnchanged, HostUnchanged, ThreadUnchanged,
       OtherUnchanged
       DEF HandleFrameOneDoc_Skipped, handling, historyVars, hostVars, mapVars,
       opsVars, otherVars, registryVars, sentVars, waitVars
  <2> QED BY <1>0, <2>1, <2>2 DEF TypeOK
<1>10. CASE HandleFrameOneDoc
  <2>1. RegistryTypeOK'
    BY <1>0, <1>10, SwapType DEF HandleFrameOneDoc, OpsBeforeFrame,
       RegistryTypeOK, mapVars
  <2>2. LocalTypeOK'
    BY <1>0, <1>10, SwapType DEF HandleFrameOneDoc, OpsBeforeFrame,
       LocalTypeOK, frameVars
  <2>3. HostTypeOK' /\ ThreadTypeOK' /\ OtherTypeOK'
    BY <1>0, <1>10, HostUnchanged, ThreadUnchanged, OtherUnchanged DEF
       HandleFrameOneDoc, handling, historyVars, hostVars, otherVars, sentVars,
       waitVars
  <2> QED BY <1>0, <2>1, <2>2, <2>3 DEF TypeOK
<1>11. CASE BeginFrame
  <2>1. LocalTypeOK'
    BY <1>0, <1>11 DEF BeginFrame, LocalTypeOK, opListVars
  <2>2. RegistryTypeOK' /\ HostTypeOK' /\ ThreadTypeOK' /\ OtherTypeOK'
    BY <1>0, <1>11, RegistryUnchanged, HostUnchanged, ThreadUnchanged,
       OtherUnchanged
       DEF BeginFrame, handling, historyVars, hostVars, mapVars, opsVars,
       otherVars, registryVars, sentVars, waitVars
  <2> QED BY <1>0, <2>1, <2>2 DEF TypeOK
<1>12. CASE RenderDone
  <2>1. LocalTypeOK'
    BY <1>0, <1>12, FrameOverType DEF RenderDone, LocalTypeOK, opListVars
  <2>2. RegistryTypeOK' /\ HostTypeOK' /\ ThreadTypeOK' /\ OtherTypeOK'
    BY <1>0, <1>12, RegistryUnchanged, HostUnchanged, ThreadUnchanged,
       OtherUnchanged
       DEF RenderDone, handling, historyVars, hostVars, mapVars, opsVars,
       otherVars, registryVars, sentVars, waitVars
  <2> QED BY <1>0, <2>1, <2>2 DEF TypeOK
<1>13. CASE DeviceLost
  <2>1. RegistryTypeOK'
    BY <1>0, <1>13 DEF DeviceLost, FrameOver, ClearCachedResources,
       RegistryTypeOK,
       opsVars
  <2>2. HostTypeOK'
    BY <1>0, <1>13 DEF DeviceLost, FrameOver, ClearCachedResources, HostTypeOK
  <2>3. ThreadTypeOK'
    BY <1>0, <1>13 DEF DeviceLost, FrameOver, ClearCachedResources,
       ThreadTypeOK,
       sentVars
  <2>4. LocalTypeOK'
    BY <1>0, <1>13, FrameOverType DEF DeviceLost, LocalTypeOK, opListVars
  <2>5. OtherTypeOK'
    BY <1>0, <1>13, OtherUnchanged DEF DeviceLost, historyVars, waitVars
  <2> QED BY <1>0, <2>1, <2>2, <2>3, <2>4, <2>5 DEF TypeOK
<1>14. CASE RenderFails
  <2>1. RegistryTypeOK'
    BY <1>0, <1>14, HandleErrorType DEF RenderFails, RegistryTypeOK, opsVars
  <2>2. HostTypeOK'
    BY <1>0, <1>14, HandleErrorType DEF RenderFails, HostTypeOK
  <2>3. ThreadTypeOK'
    BY <1>0, <1>14, HandleErrorType DEF RenderFails, ThreadTypeOK, sentVars
  <2>4. LocalTypeOK'
    BY <1>0, <1>14, FrameOverType DEF RenderFails, LocalTypeOK, opListVars
  <2>5. OtherTypeOK'
    BY <1>0, <1>14, OtherUnchanged DEF RenderFails, historyVars, waitVars
  <2> QED BY <1>0, <2>1, <2>2, <2>3, <2>4, <2>5 DEF TypeOK
<1>30. CASE CompositorFails
  <2>1. RegistryTypeOK'
    BY <1>0, <1>30, HandleErrorType DEF CompositorFails, RegistryTypeOK, opsVars
  <2>2. HostTypeOK'
    BY <1>0, <1>30, HandleErrorType DEF CompositorFails, HostTypeOK
  <2>3. ThreadTypeOK'
    BY <1>0, <1>30, HandleErrorType DEF CompositorFails, ThreadTypeOK, sentVars
  <2>4. LocalTypeOK'
    <3>1. HostsOf(mRenderTexturesDeferred) \subseteq Images
      BY <1>0, HostsOfType DEF RegistryTypeOK
    <3> QED BY <1>0, <1>30, <3>1 DEF CompositorFails, LocalTypeOK, opListVars
  <2>5. OtherTypeOK'
    BY <1>0, <1>30, OtherUnchanged DEF CompositorFails, historyVars, waitVars
  <2> QED BY <1>0, <2>1, <2>2, <2>3, <2>4, <2>5 DEF TypeOK
<1>31. CASE CompositorFailsWhenIdle
  <2>1. RegistryTypeOK'
    BY <1>0, <1>31, HandleErrorType DEF CompositorFailsWhenIdle,
       RegistryTypeOK, opsVars
  <2>2. HostTypeOK'
    BY <1>0, <1>31, HandleErrorType DEF CompositorFailsWhenIdle, HostTypeOK
  <2>3. ThreadTypeOK'
    BY <1>0, <1>31, HandleErrorType DEF CompositorFailsWhenIdle, ThreadTypeOK,
       sentVars
  <2>4. LocalTypeOK' /\ OtherTypeOK'
    BY <1>0, <1>31, LocalUnchanged, OtherUnchanged
    DEF CompositorFailsWhenIdle, historyVars, waitVars
  <2> QED BY <1>0, <2>1, <2>2, <2>3, <2>4 DEF TypeOK
<1>15. CASE \E i \in Images : LockImage(i)
  <2>0. PICK i \in Images : LockImage(i)
    BY <1>15
  <2>1. HostTypeOK'
    <3>1. HostsOf({i} \cap mRenderTextures) \subseteq Images
      BY <1>0, HostsOfType
    <3> QED BY <1>0, <2>0, <3>1 DEF LockImage, HostTypeOK
  <2>2. LocalTypeOK'
    <3>1. HostsOf({i} \cap mRenderTextures) \subseteq Images
      BY <1>0, HostsOfType
    <3>2. frames \in Seq(Frame) /\ frames # <<>>
      BY <1>0, <2>0 DEF LockImage, LocalTypeOK
    <3>3. 1 \in 1..Len(frames) /\ frames[1] \in Frame
      BY <3>2
    <3>4. [frames[1] EXCEPT !.images = @ \ {i}] \in Frame
      BY <3>3 DEF Frame
    <3>5. frames' \in Seq(Frame) /\ Len(frames') = Len(frames)
      BY <1>0, <2>0, <3>2, <3>3, <3>4, ExceptSeq DEF LockImage
    <3>6. frames' # <<>>
      BY <3>2, <3>3, <3>5
    <3>7. pc' = pc /\ UNCHANGED <<opListVars, hosts, synced, dropped>>
      BY <1>0, <2>0 DEF LockImage
    <3>8. locked' \subseteq Images
      BY <1>0, <2>0, <3>1 DEF LockImage, LocalTypeOK
    <3> QED BY <1>0, <3>5, <3>6, <3>7, <3>8 DEF LocalTypeOK, opListVars
  <2>3. RegistryTypeOK' /\ ThreadTypeOK' /\ OtherTypeOK'
    BY <1>0, <2>0, RegistryUnchanged, ThreadUnchanged, OtherUnchanged DEF
       LockImage,
       handling, historyVars, mapVars, opsVars, otherVars, registryVars,
       sentVars, waitVars
  <2> QED BY <1>0, <2>1, <2>2, <2>3 DEF TypeOK
<1>16. CASE ShutDownTask
  <2>1. RegistryTypeOK'
    BY <1>0, <1>16 DEF ShutDownTask, NextRunnable, RegistryTypeOK
  <2>2. ThreadTypeOK'
    BY <1>0, <1>16 DEF ShutDownTask, NextRunnable, ThreadTypeOK, handling,
       historyVars, otherVars, sentVars, waitVars
  <2>3. HostTypeOK' /\ LocalTypeOK' /\ OtherTypeOK'
    BY <1>0, <1>16, HostUnchanged, LocalUnchanged, OtherUnchanged DEF
       ShutDownTask,
       frameVars, handling, historyVars, hostVars, localVars, opListVars,
       otherVars, waitVars
  <2> QED BY <1>0, <2>1, <2>2, <2>3 DEF TypeOK
<1>17. CASE LastRendererRemoved
  <2>1. ThreadTypeOK'
    BY <1>0, <1>17 DEF LastRendererRemoved, ThreadTypeOK, sentVars
  <2>2. RegistryTypeOK' /\ HostTypeOK' /\ LocalTypeOK' /\ OtherTypeOK'
    BY <1>0, <1>17, RegistryUnchanged, HostUnchanged, LocalUnchanged,
       OtherUnchanged
       DEF LastRendererRemoved, frameVars, historyVars, hostVars, localVars,
       mapVars, opListVars, opsVars, registryVars, waitVars
  <2> QED BY <1>0, <2>1, <2>2 DEF TypeOK
<1>18. CASE \E i \in Images : UnregisterOnRenderThread(i)
  <2>0. PICK i \in Images : UnregisterOnRenderThread(i)
    BY <1>18
  <2>1. RegistryTypeOK'
    BY <1>0, <2>0 DEF UnregisterOnRenderThread, RegistryTypeOK, opsVars
  <2>2. HostTypeOK' /\ ThreadTypeOK' /\ LocalTypeOK' /\ OtherTypeOK'
    BY <1>0, <2>0, HostUnchanged, ThreadUnchanged, LocalUnchanged,
       OtherUnchanged DEF
       UnregisterOnRenderThread, frameVars, handling, historyVars, hostVars,
       localVars, opListVars, otherVars, sentVars, waitVars
  <2> QED BY <1>0, <2>1, <2>2 DEF TypeOK
<1>19. CASE \E i \in Images : RegisterExternalImage(i)
  <2>0. PICK i \in Images : RegisterExternalImage(i)
    BY <1>19
  <2>1. RegistryTypeOK'
    BY <1>0, <2>0 DEF RegisterExternalImage, EnsureTextureHost, MayRegister,
       SyncObjectNeeded, RegistryTypeOK, opsVars
  <2>2. HostTypeOK'
    BY <1>0, <2>0 DEF RegisterExternalImage, EnsureTextureHost, MayRegister,
       SyncObjectNeeded, HostTypeOK
  <2>3. OtherTypeOK'
    BY <1>0, <2>0 DEF RegisterExternalImage, EnsureTextureHost, MayRegister,
       SyncObjectNeeded, OtherTypeOK, waitVars
  <2>4. ThreadTypeOK' /\ LocalTypeOK'
    BY <1>0, <2>0, ThreadUnchanged, LocalUnchanged DEF RegisterExternalImage,
       frameVars, handling, localVars, opListVars, sentVars
  <2> QED BY <1>0, <2>1, <2>2, <2>3, <2>4 DEF TypeOK
<1>20. CASE \E i \in Images : UnregisterExternalImage(i)
  <2>0. PICK i \in Images : UnregisterExternalImage(i)
    BY <1>20
  <2>1. RegistryTypeOK'
    BY <1>0, <2>0 DEF UnregisterExternalImage, ReleaseOnRenderThread,
       PostRunnable,
       RegistryTypeOK, opsVars
  <2>2. ThreadTypeOK'
    <3>1. mThread' \in Seq(Runnables)
      BY <1>0, <2>0, PostRunnableType DEF UnregisterExternalImage,
         ReleaseOnRenderThread, Runnables
    <3> QED BY <1>0, <2>0, <3>1 DEF UnregisterExternalImage, ThreadTypeOK,
           sentVars, otherVars, handling
  <2>3. HostTypeOK' /\ LocalTypeOK' /\ OtherTypeOK'
    BY <1>0, <2>0, HostUnchanged, LocalUnchanged, OtherUnchanged DEF
       UnregisterExternalImage, frameVars, handling, historyVars, hostVars,
       localVars, opListVars, otherVars, waitVars
  <2> QED BY <1>0, <2>1, <2>2, <2>3 DEF TypeOK
<1>21. CASE \E i \in Images : \E op \in Ops : AddRenderTextureOp(op, i)
  <2>0. PICK i \in Images, op \in Ops : AddRenderTextureOp(op, i)
    BY <1>21
  <2>1. RegistryTypeOK'
    <3>1. mRenderTextureOps' \in Seq(Op)
      BY <1>0, <2>0 DEF AddRenderTextureOp, RegistryTypeOK, Op
    <3> QED BY <1>0, <2>0, <3>1 DEF AddRenderTextureOp, PostRenderTextureOps,
           RegistryTypeOK, mapVars
  <2>2. ThreadTypeOK'
    <3>1. mThread' \in Seq(Runnables)
      BY <1>0, <2>0, PostRunnableType DEF AddRenderTextureOp,
         PostRenderTextureOps, ThreadTypeOK, Runnables
    <3> QED BY <1>0, <2>0, <3>1 DEF AddRenderTextureOp, ThreadTypeOK,
           sentVars, handling
  <2>3. OtherTypeOK'
    <3>1. issued' \in Seq(Op)
      BY <1>0, <2>0 DEF AddRenderTextureOp, OtherTypeOK, Op
    <3> QED BY <1>0, <2>0, <3>1 DEF AddRenderTextureOp, OtherTypeOK, waitVars
  <2>4. HostTypeOK' /\ LocalTypeOK'
    BY <1>0, <2>0, HostUnchanged, LocalUnchanged DEF AddRenderTextureOp,
       frameVars,
       hostVars, localVars, opListVars
  <2> QED BY <1>0, <2>1, <2>2, <2>3, <2>4 DEF TypeOK
<1>22. CASE \E S \in SUBSET Images : SendFrame(S)
  <2>0. PICK S \in SUBSET Images : SendFrame(S)
    BY <1>22
  <2>1. ThreadTypeOK'
    <3>1. mThread' \in Seq(Runnables)
      BY <1>0, <2>0, PostRunnableType DEF SendFrame, ThreadTypeOK, Runnables
    <3>2. Len(issued) \in Nat
      BY <1>0 DEF OtherTypeOK
    <3>3. [images |-> S, ops |-> Len(issued)] \in Frame
      BY <3>2 DEF Frame
    <3>4. sentFrames' \in Seq(Frame)
      BY <1>0, <2>0, <3>3 DEF SendFrame, ThreadTypeOK
    <3> QED BY <1>0, <2>0, <3>1, <3>4 DEF SendFrame, ThreadTypeOK, otherVars,
           handling
  <2>2. RegistryTypeOK' /\ HostTypeOK' /\ LocalTypeOK' /\ OtherTypeOK'
    BY <1>0, <2>0, RegistryUnchanged, HostUnchanged, LocalUnchanged,
       OtherUnchanged
       DEF SendFrame, frameVars, handling, historyVars, hostVars, localVars,
       mapVars, opListVars, opsVars, otherVars, registryVars, waitVars
  <2> QED BY <1>0, <2>1, <2>2 DEF TypeOK
<1>23. CASE \E S \in SUBSET Images : DestroyExternalImagesSyncWait(S)
  <2>0. PICK S \in SUBSET Images : DestroyExternalImagesSyncWait(S)
    BY <1>23
  <2>1. ThreadTypeOK'
    <3>1. mThread' \in Seq(Runnables)
      BY <1>0, <2>0, PostRunnableType DEF DestroyExternalImagesSyncWait,
         Runnables
    <3> QED BY <1>0, <2>0, <3>1 DEF DestroyExternalImagesSyncWait,
       ThreadTypeOK,
           sentVars, handling
  <2>2. OtherTypeOK'
    BY <1>0, <2>0 DEF DestroyExternalImagesSyncWait, PostRunnable, OtherTypeOK,
       historyVars
  <2>3. RegistryTypeOK' /\ HostTypeOK' /\ LocalTypeOK'
    BY <1>0, <2>0, RegistryUnchanged, HostUnchanged, LocalUnchanged DEF
       DestroyExternalImagesSyncWait, frameVars, hostVars, localVars, mapVars,
       opListVars, opsVars, registryVars
  <2> QED BY <1>0, <2>1, <2>2, <2>3 DEF TypeOK
<1>24. CASE DestroyExternalImagesReturns
  <2>1. OtherTypeOK'
    BY <1>0, <1>24 DEF DestroyExternalImagesReturns, OtherTypeOK, historyVars
  <2>2. RegistryTypeOK' /\ HostTypeOK' /\ ThreadTypeOK' /\ LocalTypeOK'
    BY <1>0, <1>24, RegistryUnchanged, HostUnchanged, ThreadUnchanged,
       LocalUnchanged
       DEF DestroyExternalImagesReturns, frameVars, handling, hostVars,
       localVars, mapVars, opListVars, opsVars, registryVars, sentVars
  <2> QED BY <1>0, <2>1, <2>2 DEF TypeOK
<1>25. CASE ShutDown
  <2>1. ThreadTypeOK'
    BY <1>0, <1>25 DEF ShutDown, ThreadTypeOK, handling, sentVars
  <2>2. RegistryTypeOK' /\ HostTypeOK' /\ LocalTypeOK' /\ OtherTypeOK'
    BY <1>0, <1>25, RegistryUnchanged, HostUnchanged, LocalUnchanged,
       OtherUnchanged
       DEF ShutDown, frameVars, historyVars, hostVars, localVars, mapVars,
       opListVars, opsVars, registryVars, waitVars
  <2> QED BY <1>0, <2>1, <2>2 DEF TypeOK
<1>26. CASE PostShutDownTask
  <2>1. ThreadTypeOK'
    <3>1. mThread' \in Seq(Runnables)
      BY <1>0, <1>26, PostRunnableType DEF PostShutDownTask, Runnables
    <3> QED BY <1>0, <1>26, <3>1 DEF PostShutDownTask, ThreadTypeOK,
           sentVars, handling
  <2>2. RegistryTypeOK' /\ HostTypeOK' /\ LocalTypeOK' /\ OtherTypeOK'
    BY <1>0, <1>26, RegistryUnchanged, HostUnchanged, LocalUnchanged,
       OtherUnchanged
       DEF PostShutDownTask, frameVars, historyVars, hostVars, localVars,
       mapVars, opListVars, opsVars, registryVars, waitVars
  <2> QED BY <1>0, <2>1, <2>2 DEF TypeOK
<1>27. CASE ThreadJoined
  <2>1. ThreadTypeOK'
    BY <1>0, <1>27 DEF ThreadJoined, ThreadTypeOK, handling, sentVars
  <2>2. RegistryTypeOK' /\ HostTypeOK' /\ LocalTypeOK' /\ OtherTypeOK'
    BY <1>0, <1>27, RegistryUnchanged, HostUnchanged, LocalUnchanged,
       OtherUnchanged
       DEF ThreadJoined, frameVars, historyVars, hostVars, localVars, mapVars,
       opListVars, opsVars, registryVars, waitVars
  <2> QED BY <1>0, <2>1, <2>2 DEF TypeOK
<1>28. CASE UNCHANGED vars
  BY <1>0, <1>28, RegistryUnchanged, HostUnchanged, ThreadUnchanged,
     LocalUnchanged,
     OtherUnchanged DEF vars, TypeOK, otherVars, sentVars, handling,
     historyVars, waitVars
<1> QED BY <1>0, <1>1, <1>2, <1>3, <1>4, <1>5, <1>6, <1>7, <1>8, <1>9, <1>10,
   <1>11,
   <1>12, <1>13, <1>14, <1>15, <1>16, <1>17, <1>18, <1>19, <1>20, <1>21, <1>22,
   <1>23, <1>24, <1>25, <1>26, <1>27, <1>28, <1>30, <1>31
   DEF Next, RenderThreadStep,
   OtherThreads

-----------------------------------------------------------------------------
(* A step that leaves the references alone registers nothing that was not.  *)
LEMMA HeldWasRegisteredUnchanged ==
    HeldWasRegistered /\ UNCHANGED <<mRenderTextures,
       mSyncObjectNeededRenderTextures, mRenderTexturesDeferred,
       mRenderTextureOps, renderTextureOps, hosts, used>> => HeldWasRegistered'
  BY DEF HeldWasRegistered, Held, Textures
(* A step that leaves the maps and the frame alone leaves locked hosts held.*)
LEMMA LockedIsReferencedUnchanged ==
    LockedIsReferenced /\ UNCHANGED <<locked, dropped, pc,
       mHandlingWebRenderError, mRenderTextures, mRenderTexturesDeferred,
       mTextureHost>> => LockedIsReferenced'
  BY DEF LockedIsReferenced, HostsOf
(* A step that leaves the queue alone queues no ShutDownTask.               *)
LEMMA ShutDownTaskOnlyOnceShutUnchanged ==
    ShutDownTaskOnlyOnceShut /\ UNCHANGED <<main, mThread>> =>
       ShutDownTaskOnlyOnceShut'
  BY DEF ShutDownTaskOnlyOnceShut, mHasShutdown
(* A step that leaves a wait alone leaves it one runnable.                  *)
LEMMA OneDestructionUnchanged ==
    OneDestruction /\ UNCHANGED <<mThread, pc, taskDone, waiting>> =>
       OneDestruction'
  BY DEF OneDestruction, Destroying
(* A step that leaves the buffers alone frees none.                         *)
LEMMA DestroyedOrNoMoreFramesUnchanged ==
    DestroyedOrNoMoreFrames /\ UNCHANGED <<main, waiting, mRenderTextures, pc,
       hosts, taskDone, mDestroyed, freed, locked>> => DestroyedOrNoMoreFrames'
  BY DEF DestroyedOrNoMoreFrames, NoMoreFrames, mHasShutdown

(* Where a runnable is after one was queued.                                *)
LEMMA PostRunnableIndex ==
  ASSUME ThreadTypeOK, NEW tag \in Runnables, PostRunnable(tag)
  PROVE  /\ DOMAIN mThread = 1..Len(mThread) /\ Len(mThread) \in Nat
         /\ DOMAIN mThread' = 1..(Len(mThread) + 1)
         /\ \A k \in DOMAIN mThread : mThread'[k] = mThread[k]
         /\ mThread'[Len(mThread) + 1] = tag
  BY DEF ThreadTypeOK, PostRunnable

(* Where it is after the first was taken.                                   *)
LEMMA NextRunnableIndex ==
  ASSUME ThreadTypeOK, NEW tag, NextRunnable(tag)
  PROVE  /\ 1 \in DOMAIN mThread /\ mThread[1] = tag
         /\ DOMAIN mThread \subseteq Nat \ {0}
         /\ \A k \in DOMAIN mThread' :
              k \in Nat \ {0} /\ k + 1 \in DOMAIN mThread
                /\ mThread'[k] = mThread[k + 1]
  BY HeadTailProperties DEF ThreadTypeOK, NextRunnable

(* Other runnables that are queued leave DestroyExternalImages' alone.      *)
LEMMA PostOther ==
  ASSUME ThreadTypeOK, NEW tag \in Runnables \ {"DestroyExternalImages"},
         PostRunnable(tag)
  PROVE  Destroying' = Destroying
  BY PostRunnableIndex DEF Destroying

(* Taking the first runnable moves the others up by one.                    *)
LEMMA TakeOther ==
  ASSUME ThreadTypeOK, NEW tag, NextRunnable(tag),
         \A k, l \in Destroying : k = l
  PROVE  /\ \A k, l \in Destroying' : k = l
         /\ Destroying = {} => Destroying' = {}
         /\ tag = "DestroyExternalImages"
              => Destroying # {} /\ Destroying' = {}
<1>1. \A k \in Destroying' : k + 1 \in Destroying /\ k \in Nat \ {0}
  BY NextRunnableIndex DEF Destroying
<1>2. tag = "DestroyExternalImages" => 1 \in Destroying
  BY NextRunnableIndex DEF Destroying
<1> QED BY <1>1, <1>2

(* A queue left alone holds the same runnables.                             *)
LEMMA SameThread == UNCHANGED mThread => Destroying' = Destroying
  BY DEF Destroying

(* The first DestroyExternalImages queued is the only one.                  *)
LEMMA PostDestroy ==
  ASSUME ThreadTypeOK, Destroying = {}, PostRunnable("DestroyExternalImages")
  PROVE  \A k, l \in Destroying' : k = l
<1>1. "DestroyExternalImages" \in Runnables
  BY DEF Runnables
<1>2. \A k \in DOMAIN mThread' : k \in DOMAIN mThread \/ k = Len(mThread) + 1
  BY <1>1, PostRunnableIndex
<1>3. \A k \in Destroying' : k = Len(mThread) + 1
  BY <1>1, <1>2, PostRunnableIndex DEF Destroying
<1> QED BY <1>3

(* Registering an image changes nothing for those registered before.        *)
LEMMA RegisterKeepsHosts ==
  ASSUME HostTypeOK, NEW i \in Images, RegisterExternalImage(i),
         NEW S \in SUBSET used, NEW T, S \subseteq T
  PROVE  HostsOf(S)
           \subseteq T \cup ({mTextureHost'[c] : c \in T \cap Wrappers}
                             \ {NoImage})
<1>1. \A c \in S \cap Wrappers : mTextureHost'[c] = mTextureHost[c]
  BY DEF HostTypeOK, RegisterExternalImage, EnsureTextureHost
<1> QED BY <1>1 DEF HostsOf


(* A step keeps the invariant.                                              *)
LEMMA NextInv == TypeOK /\ Inv /\ [Next]_vars => Inv'
<1> SUFFICES ASSUME TypeOK, Inv, [Next]_vars PROVE Inv'
  OBVIOUS
<1>0. /\ RegistryTypeOK /\ HostTypeOK /\ ThreadTypeOK /\ LocalTypeOK
      /\ OtherTypeOK /\ HeldWasRegistered /\ LockedIsReferenced
      /\ ShutDownTaskOnlyOnceShut /\ OneDestruction
      /\ DestroyedOrNoMoreFrames
  BY DEF TypeOK, Inv
<1>1. CASE HandleRenderTextureOps
  <2>1. HeldWasRegistered'
    BY <1>0, <1>1 DEF HandleRenderTextureOps, NextRunnable,
       SwapRenderTextureOps, HeldWasRegistered, Held, Textures, handling,
       historyVars, mapVars, otherVars, waitVars
  <2>2. LockedIsReferenced'
    BY <1>0, <1>1 DEF HandleRenderTextureOps, NextRunnable,
       SwapRenderTextureOps, LockedIsReferenced, HostsOf, frameVars, hostVars,
       mapVars
  <2>3. ShutDownTaskOnlyOnceShut'
    BY <1>0, <1>1, NextRunnableIndex DEF HandleRenderTextureOps,
       SwapRenderTextureOps, ShutDownTaskOnlyOnceShut, mHasShutdown, handling,
       historyVars, otherVars, waitVars
  <2>4. OneDestruction'
    BY <1>0, <1>1, TakeOther DEF HandleRenderTextureOps, SwapRenderTextureOps,
       NextRunnable, OneDestruction, handling, historyVars, otherVars, waitVars
  <2>5. DestroyedOrNoMoreFrames'
    BY <1>0, <1>1 DEF HandleRenderTextureOps, NextRunnable,
       SwapRenderTextureOps, DestroyedOrNoMoreFrames, NoMoreFrames,
       mHasShutdown, frameVars, handling, historyVars, hostVars, mapVars,
       otherVars, waitVars
  <2> QED BY <2>1, <2>2, <2>3, <2>4, <2>5 DEF Inv
<1>2. CASE RunRenderTextureOp
  <2>1. HeldWasRegistered' /\ LockedIsReferenced' /\ ShutDownTaskOnlyOnceShut'
     /\ OneDestruction' /\ DestroyedOrNoMoreFrames'
    BY <1>0, <1>2, HeldWasRegisteredUnchanged, LockedIsReferencedUnchanged,
       ShutDownTaskOnlyOnceShutUnchanged, OneDestructionUnchanged,
       DestroyedOrNoMoreFramesUnchanged DEF RunRenderTextureOp, frameVars,
       handling, hostVars, mapVars, opsVars, registryVars, waitVars
  <2> QED BY <2>1 DEF Inv
<1>3. CASE RenderTextureOpsDone
  <2>1. HeldWasRegistered'
    BY <1>0, <1>3 DEF RenderTextureOpsDone, HeldWasRegistered, Held, Textures,
       handling, historyVars, mapVars, opsVars, otherVars, registryVars,
       waitVars
  <2>2. LockedIsReferenced'
    BY <1>0, <1>3 DEF RenderTextureOpsDone, LockedIsReferenced, HostsOf,
       frameVars, hostVars, mapVars, opsVars, registryVars
  <2>3. OneDestruction'
    BY <1>0, <1>3, SameThread DEF RenderTextureOpsDone, OneDestruction,
       handling, historyVars, otherVars, waitVars
  <2>4. DestroyedOrNoMoreFrames'
    BY <1>0, <1>3 DEF RenderTextureOpsDone, DestroyedOrNoMoreFrames,
       NoMoreFrames, mHasShutdown, frameVars, handling, historyVars, hostVars,
       mapVars, opsVars, otherVars, registryVars, waitVars
  <2>5. ShutDownTaskOnlyOnceShut'
    BY <1>0, <1>3, ShutDownTaskOnlyOnceShutUnchanged DEF RenderTextureOpsDone,
       handling, historyVars, otherVars, waitVars
  <2> QED BY <2>1, <2>2, <2>3, <2>4, <2>5 DEF Inv
<1>4. CASE DeferredRenderTextureHostDestroy
  <2>1. HeldWasRegistered'
    BY <1>0, <1>4 DEF DeferredRenderTextureHostDestroy, NextRunnable,
       HeldWasRegistered, Held, Textures, frameVars, handling, historyVars,
       localVars, opListVars, opsVars, otherVars, waitVars
  <2>2. LockedIsReferenced'
    BY <1>0, <1>4 DEF DeferredRenderTextureHostDestroy, NextRunnable,
       LockedIsReferenced, HostsOf, frameVars, hostVars, localVars, opListVars
  <2>3. ShutDownTaskOnlyOnceShut'
    BY <1>0, <1>4, NextRunnableIndex DEF DeferredRenderTextureHostDestroy,
       ShutDownTaskOnlyOnceShut, mHasShutdown, handling, historyVars,
       otherVars, waitVars
  <2>4. OneDestruction'
    BY <1>0, <1>4, TakeOther DEF DeferredRenderTextureHostDestroy,
       NextRunnable, OneDestruction, frameVars, handling, historyVars,
       localVars, opListVars, otherVars, waitVars
  <2>5. DestroyedOrNoMoreFrames'
    BY <1>0, <1>4, DestroyedOrNoMoreFramesUnchanged DEF
       DeferredRenderTextureHostDestroy, frameVars, handling, historyVars,
       hostVars, localVars, opListVars, otherVars, waitVars
  <2> QED BY <2>1, <2>2, <2>3, <2>4, <2>5 DEF Inv
<1>5. CASE DestroyExternalImages
  <2>1. HeldWasRegistered'
    BY <1>0, <1>5 DEF DestroyExternalImages, NextRunnable, AfterLookup,
       HeldWasRegistered, Held, Textures, handling, historyVars, mapVars,
       opListVars, opsVars, otherVars, registryVars, waitVars
  <2>2. LockedIsReferenced'
    BY <1>0, <1>5 DEF DestroyExternalImages, NextRunnable, AfterLookup,
       LockedIsReferenced, HostsOf, frameVars, hostVars, mapVars, opsVars,
       registryVars
  <2>3. ShutDownTaskOnlyOnceShut'
    BY <1>0, <1>5, NextRunnableIndex DEF DestroyExternalImages, AfterLookup,
       ShutDownTaskOnlyOnceShut, mHasShutdown, handling, historyVars,
       otherVars, waitVars
  <2>4. OneDestruction'
    BY <1>0, <1>5, TakeOther DEF DestroyExternalImages, AfterLookup,
       NextRunnable, OneDestruction, handling, historyVars, otherVars, waitVars
  <2>5. DestroyedOrNoMoreFrames'
    BY <1>0, <1>5 DEF DestroyExternalImages, NextRunnable, AfterLookup,
       DestroyedOrNoMoreFrames, NoMoreFrames, mHasShutdown, frameVars,
       handling, historyVars, hostVars, mapVars, opsVars, otherVars,
       registryVars, waitVars
  <2> QED BY <2>1, <2>2, <2>3, <2>4, <2>5 DEF Inv
<1>6. CASE DestroyHosts
  <2>1. HeldWasRegistered'
    BY <1>0, <1>6 DEF DestroyHosts, HeldWasRegistered, Held, Textures,
       historyVars, mapVars, opListVars, opsVars, registryVars
  <2>2. LockedIsReferenced'
    BY <1>0, <1>6 DEF DestroyHosts, LockedIsReferenced, HostsOf, frameVars,
       mapVars, opsVars, registryVars
  <2>3. OneDestruction'
    BY <1>0, <1>6, SameThread DEF DestroyHosts, OneDestruction
  <2>4. DestroyedOrNoMoreFrames'
    <3>1. locked = {}
      BY <1>0, <1>6 DEF DestroyHosts, LockedIsReferenced
    <3>2. UNCHANGED <<main, waiting, freed, locked, mRenderTextures>>
      BY <1>6 DEF DestroyHosts, registryVars, mapVars, frameVars
    <3> QED BY <1>0, <1>6, <3>1, <3>2 DEF DestroyHosts,
           DestroyedOrNoMoreFrames, NoMoreFrames, mHasShutdown
  <2>5. ShutDownTaskOnlyOnceShut'
    BY <1>0, <1>6, ShutDownTaskOnlyOnceShutUnchanged DEF DestroyHosts
  <2> QED BY <2>1, <2>2, <2>3, <2>4, <2>5 DEF Inv
<1>7. CASE HandleFrames
  <2>1. LockedIsReferenced'
    BY <1>0, <1>7 DEF HandleFrames, NextRunnable, LockedIsReferenced, HostsOf,
       hostVars, mapVars, opsVars, registryVars
  <2>2. ShutDownTaskOnlyOnceShut'
    BY <1>0, <1>7, NextRunnableIndex DEF HandleFrames,
       ShutDownTaskOnlyOnceShut, mHasShutdown, handling, historyVars,
       otherVars, waitVars
  <2>3. OneDestruction'
    BY <1>0, <1>7, TakeOther DEF HandleFrames, NextRunnable, OneDestruction,
       handling, historyVars, otherVars, waitVars
  <2>4. DestroyedOrNoMoreFrames'
    BY <1>0, <1>7 DEF HandleFrames, NextRunnable, DestroyedOrNoMoreFrames,
       NoMoreFrames, mHasShutdown, handling, historyVars, hostVars, mapVars,
       opsVars, otherVars, registryVars, waitVars
  <2>5. HeldWasRegistered'
    BY <1>0, <1>7, HeldWasRegisteredUnchanged DEF HandleFrames, handling,
       historyVars, mapVars, opListVars, opsVars, otherVars, registryVars,
       waitVars
  <2> QED BY <2>1, <2>2, <2>3, <2>4, <2>5 DEF Inv
<1>8. CASE FramesDone
  <2>1. LockedIsReferenced'
    BY <1>0, <1>8 DEF FramesDone, LockedIsReferenced, HostsOf, frameVars,
       hostVars, mapVars, opsVars, registryVars
  <2>2. OneDestruction'
    BY <1>0, <1>8, SameThread DEF FramesDone, OneDestruction, handling,
       historyVars, otherVars, waitVars
  <2>3. DestroyedOrNoMoreFrames'
    BY <1>0, <1>8 DEF FramesDone, DestroyedOrNoMoreFrames, NoMoreFrames,
       mHasShutdown, frameVars, handling, historyVars, hostVars, mapVars,
       opsVars, otherVars, registryVars, waitVars
  <2>4. HeldWasRegistered' /\ ShutDownTaskOnlyOnceShut'
    BY <1>0, <1>8, HeldWasRegisteredUnchanged,
       ShutDownTaskOnlyOnceShutUnchanged DEF FramesDone, handling, historyVars,
       mapVars, opListVars, opsVars, otherVars, registryVars, waitVars
  <2> QED BY <2>1, <2>2, <2>3, <2>4 DEF Inv
<1>9. CASE HandleFrameOneDoc_Skipped
  <2>1. HeldWasRegistered' /\ LockedIsReferenced' /\ ShutDownTaskOnlyOnceShut'
     /\ OneDestruction' /\ DestroyedOrNoMoreFrames'
    BY <1>0, <1>9, HeldWasRegisteredUnchanged, LockedIsReferencedUnchanged,
       ShutDownTaskOnlyOnceShutUnchanged, OneDestructionUnchanged,
       DestroyedOrNoMoreFramesUnchanged DEF HandleFrameOneDoc_Skipped,
       handling, historyVars, hostVars, mapVars, opListVars, opsVars,
       otherVars, registryVars, waitVars
  <2> QED BY <2>1 DEF Inv
<1>10. CASE HandleFrameOneDoc
  <2>1. HeldWasRegistered'
    BY <1>0, <1>10 DEF HandleFrameOneDoc, OpsBeforeFrame, SwapRenderTextureOps,
       FrameIsSkipped, HeldWasRegistered, Held, Textures, handling,
       historyVars, mapVars, otherVars, waitVars
  <2>2. LockedIsReferenced'
    BY <1>0, <1>10 DEF HandleFrameOneDoc, OpsBeforeFrame, SwapRenderTextureOps,
       FrameIsSkipped, LockedIsReferenced, HostsOf, frameVars, hostVars,
       mapVars
  <2>3. OneDestruction'
    BY <1>0, <1>10, SameThread DEF HandleFrameOneDoc, OpsBeforeFrame,
       SwapRenderTextureOps, FrameIsSkipped, OneDestruction, handling,
       historyVars, otherVars, waitVars
  <2>4. DestroyedOrNoMoreFrames'
    BY <1>0, <1>10 DEF HandleFrameOneDoc, OpsBeforeFrame, SwapRenderTextureOps,
       FrameIsSkipped, DestroyedOrNoMoreFrames, NoMoreFrames, mHasShutdown,
       frameVars, handling, historyVars, hostVars, mapVars, otherVars, waitVars
  <2>5. ShutDownTaskOnlyOnceShut'
    BY <1>0, <1>10, ShutDownTaskOnlyOnceShutUnchanged DEF HandleFrameOneDoc,
       handling, historyVars, otherVars, waitVars
  <2> QED BY <2>1, <2>2, <2>3, <2>4, <2>5 DEF Inv
<1>11. CASE BeginFrame
  <2>1. LockedIsReferenced'
    BY <1>0, <1>11 DEF BeginFrame, LockedIsReferenced, HostsOf, hostVars,
       mapVars, opsVars, registryVars
  <2>2. OneDestruction'
    BY <1>0, <1>11, SameThread DEF BeginFrame, OneDestruction, handling,
       historyVars, otherVars, waitVars
  <2>3. DestroyedOrNoMoreFrames'
    BY <1>0, <1>11 DEF BeginFrame, DestroyedOrNoMoreFrames, NoMoreFrames,
       mHasShutdown, handling, historyVars, hostVars, mapVars, opsVars,
       otherVars, registryVars, waitVars
  <2>4. HeldWasRegistered' /\ ShutDownTaskOnlyOnceShut'
    BY <1>0, <1>11, HeldWasRegisteredUnchanged,
       ShutDownTaskOnlyOnceShutUnchanged DEF BeginFrame, handling, historyVars,
       mapVars, opListVars, opsVars, otherVars, registryVars, waitVars
  <2> QED BY <2>1, <2>2, <2>3, <2>4 DEF Inv
<1>12. CASE RenderDone
  <2>1. LockedIsReferenced'
    BY <1>0, <1>12 DEF RenderDone, FrameOver, LockedIsReferenced, HostsOf,
       hostVars, mapVars, opsVars, registryVars
  <2>2. OneDestruction'
    BY <1>0, <1>12, SameThread DEF RenderDone, FrameOver, OneDestruction,
       handling, historyVars, otherVars, waitVars
  <2>3. DestroyedOrNoMoreFrames'
    BY <1>0, <1>12 DEF RenderDone, FrameOver, DestroyedOrNoMoreFrames,
       NoMoreFrames, mHasShutdown, handling, historyVars, hostVars, mapVars,
       opsVars, otherVars, registryVars, waitVars
  <2>4. HeldWasRegistered' /\ ShutDownTaskOnlyOnceShut'
    BY <1>0, <1>12, HeldWasRegisteredUnchanged,
       ShutDownTaskOnlyOnceShutUnchanged DEF RenderDone, handling, historyVars,
       mapVars, opListVars, opsVars, otherVars, registryVars, waitVars
  <2> QED BY <2>1, <2>2, <2>3, <2>4 DEF Inv
<1>13. CASE DeviceLost
  <2>1. HeldWasRegistered'
    BY <1>0, <1>13 DEF DeviceLost, FrameOver, ClearCachedResources,
       HeldWasRegistered, Held, Textures, historyVars, opListVars, opsVars
  <2>2. LockedIsReferenced'
    BY <1>0, <1>13 DEF DeviceLost, FrameOver, ClearCachedResources,
       LockedIsReferenced, HostsOf
  <2>3. OneDestruction'
    BY <1>0, <1>13, SameThread DEF DeviceLost, FrameOver, ClearCachedResources,
       OneDestruction, waitVars
  <2>4. DestroyedOrNoMoreFrames'
    BY <1>0, <1>13 DEF DeviceLost, FrameOver, ClearCachedResources,
       DestroyedOrNoMoreFrames, NoMoreFrames, mHasShutdown, waitVars
  <2>5. ShutDownTaskOnlyOnceShut'
    BY <1>0, <1>13, ShutDownTaskOnlyOnceShutUnchanged DEF DeviceLost
  <2> QED BY <2>1, <2>2, <2>3, <2>4, <2>5 DEF Inv
<1>14. CASE RenderFails
  <2>0. mRenderTexturesDeferred' \subseteq mRenderTexturesDeferred
    BY <1>14, HandleErrorClears DEF RenderFails
  <2>1. HeldWasRegistered'
    BY <1>0, <1>14, <2>0 DEF RenderFails, FrameOver,
       HeldWasRegistered, Held, Textures, historyVars, opListVars, opsVars
  <2>2. LockedIsReferenced'
    BY <1>0, <1>14 DEF RenderFails, FrameOver, LockedIsReferenced
  <2>3. OneDestruction'
    BY <1>0, <1>14, SameThread DEF RenderFails, FrameOver,
       OneDestruction, waitVars
  <2>4. DestroyedOrNoMoreFrames'
    BY <1>0, <1>14 DEF RenderFails, FrameOver,
       DestroyedOrNoMoreFrames, NoMoreFrames, mHasShutdown, waitVars
  <2>5. ShutDownTaskOnlyOnceShut'
    BY <1>0, <1>14, ShutDownTaskOnlyOnceShutUnchanged
    DEF RenderFails
  <2> QED BY <2>1, <2>2, <2>3, <2>4, <2>5 DEF Inv
<1>30. CASE CompositorFails
  <2>0. mRenderTexturesDeferred' \subseteq mRenderTexturesDeferred
    BY <1>30, HandleErrorClears DEF CompositorFails
  <2>1. HeldWasRegistered'
    BY <1>0, <1>30, <2>0 DEF CompositorFails,
       HeldWasRegistered, Held, Textures, historyVars, opListVars, opsVars
  <2>2. LockedIsReferenced'
    <3>1. /\ pc = "render" /\ mHandlingWebRenderError'
          /\ UNCHANGED <<pc, locked, mRenderTextures, mTextureHost>>
      BY <1>30, HandleErrorClears DEF CompositorFails
    <3>2. CASE mHandlingWebRenderError
      BY <1>0, <1>30, <3>1, <3>2, HandleErrorClears
      DEF CompositorFails, LockedIsReferenced, HostsOf
    <3>3. CASE ~mHandlingWebRenderError
      <4>1. dropped' = dropped \cup HostsOf(mRenderTexturesDeferred)
        BY <1>30, <3>3 DEF CompositorFails
      <4>2. HostsOf(mRenderTextures \cup mRenderTexturesDeferred)
              \subseteq HostsOf(mRenderTextures)'
                          \cup HostsOf(mRenderTexturesDeferred)
        BY <3>1 DEF HostsOf
      <4>3. HostsOf(mRenderTextures)'
              \subseteq HostsOf(mRenderTextures \cup mRenderTexturesDeferred)'
        BY DEF HostsOf
      <4>4. locked \subseteq HostsOf(mRenderTextures \cup
                                     mRenderTexturesDeferred) \cup dropped
        BY <1>0 DEF LockedIsReferenced
      <4> QED BY <3>1, <4>1, <4>2, <4>3, <4>4 DEF LockedIsReferenced
    <3> QED BY <3>2, <3>3
  <2>3. OneDestruction'
    BY <1>0, <1>30, SameThread DEF CompositorFails,
       OneDestruction, waitVars
  <2>4. DestroyedOrNoMoreFrames'
    BY <1>0, <1>30 DEF CompositorFails,
       DestroyedOrNoMoreFrames, NoMoreFrames, mHasShutdown, waitVars
  <2>5. ShutDownTaskOnlyOnceShut'
    BY <1>0, <1>30, ShutDownTaskOnlyOnceShutUnchanged
    DEF CompositorFails
  <2> QED BY <2>1, <2>2, <2>3, <2>4, <2>5 DEF Inv
<1>31. CASE CompositorFailsWhenIdle
  <2>0. mRenderTexturesDeferred' \subseteq mRenderTexturesDeferred
    BY <1>31, HandleErrorClears DEF CompositorFailsWhenIdle
  <2>1. HeldWasRegistered'
    BY <1>0, <1>31, <2>0 DEF CompositorFailsWhenIdle,
       HeldWasRegistered, Held, Textures, historyVars, opListVars, opsVars,
       localVars
  <2>2. LockedIsReferenced'
    BY <1>0, <1>31 DEF CompositorFailsWhenIdle, LockedIsReferenced, localVars,
       frameVars
  <2>3. OneDestruction'
    BY <1>0, <1>31, SameThread DEF CompositorFailsWhenIdle,
       OneDestruction, waitVars, localVars
  <2>4. DestroyedOrNoMoreFrames'
    BY <1>0, <1>31 DEF CompositorFailsWhenIdle,
       DestroyedOrNoMoreFrames, NoMoreFrames, mHasShutdown, waitVars,
       localVars, frameVars
  <2>5. ShutDownTaskOnlyOnceShut'
    BY <1>0, <1>31, ShutDownTaskOnlyOnceShutUnchanged
    DEF CompositorFailsWhenIdle
  <2> QED BY <2>1, <2>2, <2>3, <2>4, <2>5 DEF Inv
<1>15. CASE \E i \in Images : LockImage(i)
  <2>0. PICK i \in Images : LockImage(i)
    BY <1>15
  <2>1. LockedIsReferenced'
    BY <1>0, <2>0 DEF LockImage, LockedIsReferenced, HostsOf, handling,
       mapVars, opsVars,
       otherVars, registryVars
  <2>2. DestroyedOrNoMoreFrames'
    BY <1>0, <2>0 DEF LockImage, DestroyedOrNoMoreFrames, NoMoreFrames,
       mHasShutdown, handling, historyVars, mapVars, opsVars, otherVars,
       registryVars, waitVars
  <2>3. HeldWasRegistered' /\ ShutDownTaskOnlyOnceShut' /\ OneDestruction'
    BY <1>0, <2>0, HeldWasRegisteredUnchanged,
       ShutDownTaskOnlyOnceShutUnchanged, OneDestructionUnchanged DEF
       LockImage, handling, historyVars, mapVars, opListVars, opsVars,
       otherVars, registryVars, waitVars
  <2> QED BY <2>1, <2>2, <2>3 DEF Inv
<1>16. CASE ShutDownTask
  <2>1. HeldWasRegistered'
    BY <1>0, <1>16 DEF ShutDownTask, NextRunnable, HeldWasRegistered, Held,
       Textures, frameVars, handling, historyVars, localVars, opListVars,
       otherVars, waitVars
  <2>2. LockedIsReferenced'
    BY <1>0, <1>16 DEF ShutDownTask, NextRunnable, LockedIsReferenced, HostsOf,
       frameVars, hostVars, localVars, opListVars
  <2>3. ShutDownTaskOnlyOnceShut'
    BY <1>0, <1>16, NextRunnableIndex DEF ShutDownTask,
       ShutDownTaskOnlyOnceShut, mHasShutdown, handling, historyVars,
       otherVars, waitVars
  <2>4. OneDestruction'
    BY <1>0, <1>16, TakeOther DEF ShutDownTask, NextRunnable, OneDestruction,
       frameVars, handling, historyVars, localVars, opListVars, otherVars,
       waitVars
  <2>5. DestroyedOrNoMoreFrames'
    <3>1. mHasShutdown
      BY <1>0, <1>16, NextRunnableIndex DEF ShutDownTask,
         ShutDownTaskOnlyOnceShut
    <3>2. pc = "idle" /\ pc' = pc
      BY <1>16 DEF ShutDownTask, NextRunnable, localVars
    <3>3. UNCHANGED <<main, waiting, taskDone, mDestroyed, freed, locked>>
      BY <1>16 DEF ShutDownTask, otherVars, waitVars, hostVars, localVars,
         frameVars
    <3> QED BY <1>0, <3>1, <3>2, <3>3 DEF DestroyedOrNoMoreFrames,
           NoMoreFrames, mHasShutdown
  <2> QED BY <2>1, <2>2, <2>3, <2>4, <2>5 DEF Inv
<1>17. CASE LastRendererRemoved
  <2>0. LockedIsReferenced'
    BY <1>0, <1>17 DEF LastRendererRemoved, LockedIsReferenced, localVars,
       frameVars
  <2>1. HeldWasRegistered' /\ ShutDownTaskOnlyOnceShut'
     /\ OneDestruction' /\ DestroyedOrNoMoreFrames'
    BY <1>0, <1>17, HeldWasRegisteredUnchanged,
       ShutDownTaskOnlyOnceShutUnchanged, OneDestructionUnchanged,
       DestroyedOrNoMoreFramesUnchanged DEF LastRendererRemoved, frameVars,
       historyVars, hostVars, localVars, mapVars, opListVars, opsVars,
       registryVars, waitVars
  <2> QED BY <2>0, <2>1 DEF Inv
<1>18. CASE \E i \in Images : UnregisterOnRenderThread(i)
  <2>0. PICK i \in Images : UnregisterOnRenderThread(i)
    BY <1>18
  <2>1. HeldWasRegistered'
    BY <1>0, <2>0 DEF UnregisterOnRenderThread, HeldWasRegistered, Held,
       Textures, frameVars, handling, historyVars, localVars, opListVars,
       opsVars, otherVars, waitVars
  <2>2. LockedIsReferenced'
    BY <1>0, <2>0 DEF UnregisterOnRenderThread, LockedIsReferenced, HostsOf,
       frameVars, hostVars, localVars, opListVars
  <2>3. DestroyedOrNoMoreFrames'
    BY <1>0, <2>0 DEF UnregisterOnRenderThread, DestroyedOrNoMoreFrames,
       NoMoreFrames, mHasShutdown, frameVars, handling, historyVars, hostVars,
       localVars, opListVars, otherVars, waitVars
  <2>4. ShutDownTaskOnlyOnceShut' /\ OneDestruction'
    BY <1>0, <2>0, ShutDownTaskOnlyOnceShutUnchanged, OneDestructionUnchanged
       DEF UnregisterOnRenderThread, frameVars, handling, historyVars,
       localVars, opListVars, otherVars, waitVars
  <2> QED BY <2>1, <2>2, <2>3, <2>4 DEF Inv
<1>19. CASE \E i \in Images : RegisterExternalImage(i)
  <2>0. PICK i \in Images : RegisterExternalImage(i)
    BY <1>19
  <2>1. HeldWasRegistered'
    BY <1>0, <2>0 DEF RegisterExternalImage, EnsureTextureHost, MayRegister,
       SyncObjectNeeded, HeldWasRegistered, Held, Textures, frameVars,
       localVars, opListVars, opsVars
  <2>2. LockedIsReferenced'
    <3>1. HostsOf(mRenderTextures \cup mRenderTexturesDeferred)
            \subseteq HostsOf(mRenderTextures \cup mRenderTexturesDeferred)'
      <4> DEFINE S == mRenderTextures \cup mRenderTexturesDeferred
      <4>1. S \subseteq used /\ S \subseteq S'
        BY <1>0, <2>0 DEF RegisterExternalImage, HeldWasRegistered, Held
      <4>2. HostsOf(S)
              \subseteq S' \cup ({mTextureHost'[c] : c \in S' \cap Wrappers}
                                  \ {NoImage})
        BY <1>0, <4>1, <2>0, RegisterKeepsHosts
      <4> QED BY <4>2 DEF HostsOf
    <3> QED BY <1>0, <2>0, <3>1 DEF RegisterExternalImage, LockedIsReferenced,
           localVars, frameVars, handling
  <2>3. DestroyedOrNoMoreFrames'
    BY <1>0, <2>0 DEF RegisterExternalImage, EnsureTextureHost, MayRegister,
       SyncObjectNeeded, DestroyedOrNoMoreFrames, NoMoreFrames, mHasShutdown,
       frameVars, localVars, opListVars, waitVars
  <2>4. ShutDownTaskOnlyOnceShut' /\ OneDestruction'
    BY <1>0, <2>0, ShutDownTaskOnlyOnceShutUnchanged, OneDestructionUnchanged
       DEF RegisterExternalImage, frameVars, localVars, opListVars, waitVars
  <2> QED BY <2>1, <2>2, <2>3, <2>4 DEF Inv
<1>20. CASE \E i \in Images : UnregisterExternalImage(i)
  <2>0. PICK i \in Images : UnregisterExternalImage(i)
    BY <1>20
  <2>1. HeldWasRegistered'
    BY <1>0, <2>0 DEF UnregisterExternalImage, ReleaseOnRenderThread,
       PostRunnable, HeldWasRegistered, Held, Textures, frameVars, handling,
       historyVars, localVars, opListVars, opsVars, otherVars, waitVars
  <2>2. LockedIsReferenced'
    BY <1>0, <2>0 DEF UnregisterExternalImage, ReleaseOnRenderThread,
       PostRunnable, LockedIsReferenced, HostsOf, frameVars, handling, hostVars,
       localVars, opListVars, otherVars
  <2>3. ShutDownTaskOnlyOnceShut'
    BY <1>0, <2>0, PostRunnableIndex DEF UnregisterExternalImage,
       ReleaseOnRenderThread, Runnables, ShutDownTaskOnlyOnceShut,
       mHasShutdown, handling, historyVars, otherVars, waitVars
  <2>4. OneDestruction'
    BY <1>0, <2>0, PostOther DEF UnregisterExternalImage,
       ReleaseOnRenderThread, Runnables, OneDestruction, frameVars, handling,
       historyVars, localVars, opListVars, otherVars, waitVars
  <2>5. DestroyedOrNoMoreFrames'
    BY <1>0, <2>0 DEF UnregisterExternalImage, ReleaseOnRenderThread,
       PostRunnable, DestroyedOrNoMoreFrames, NoMoreFrames, mHasShutdown,
       frameVars, handling, historyVars, hostVars, localVars, opListVars,
       otherVars, waitVars
  <2> QED BY <2>1, <2>2, <2>3, <2>4, <2>5 DEF Inv
<1>21. CASE \E i \in Images : \E op \in Ops : AddRenderTextureOp(op, i)
  <2>0. PICK i \in Images, op \in Ops : AddRenderTextureOp(op, i)
    BY <1>21
  <2>1. HeldWasRegistered'
    BY <1>0, <2>0 DEF AddRenderTextureOp, PostRenderTextureOps, PostRunnable,
       HeldWasRegistered, Held, Textures, frameVars, localVars, mapVars,
       opListVars
  <2>2. ShutDownTaskOnlyOnceShut'
    BY <1>0, <2>0, PostRunnableIndex DEF AddRenderTextureOp,
       PostRenderTextureOps, Runnables, ShutDownTaskOnlyOnceShut, mHasShutdown
  <2>3. OneDestruction'
    <3>1. Destroying' = Destroying
      BY <1>0, <2>0, PostOther, SameThread DEF AddRenderTextureOp,
         PostRenderTextureOps, Runnables
    <3> QED BY <1>0, <2>0, <3>1 DEF AddRenderTextureOp, OneDestruction,
           localVars, waitVars
  <2>4. LockedIsReferenced' /\ DestroyedOrNoMoreFrames'
    BY <1>0, <2>0, LockedIsReferencedUnchanged,
       DestroyedOrNoMoreFramesUnchanged DEF AddRenderTextureOp, frameVars,
       handling, hostVars, localVars, mapVars, opListVars, waitVars
  <2> QED BY <2>1, <2>2, <2>3, <2>4 DEF Inv
<1>22. CASE \E S \in SUBSET Images : SendFrame(S)
  <2>0. PICK S \in SUBSET Images : SendFrame(S)
    BY <1>22
  <2>1. ShutDownTaskOnlyOnceShut'
    BY <1>0, <2>0, PostRunnableIndex DEF SendFrame, Runnables,
       ShutDownTaskOnlyOnceShut, mHasShutdown, handling, historyVars,
       otherVars, waitVars
  <2>2. OneDestruction'
    <3>1. Destroying' = Destroying
      BY <1>0, <2>0, PostOther, SameThread DEF SendFrame, Runnables
    <3> QED BY <1>0, <2>0, <3>1 DEF SendFrame, OneDestruction, localVars,
           otherVars, waitVars
  <2>3. HeldWasRegistered' /\ LockedIsReferenced' /\ DestroyedOrNoMoreFrames'
    BY <1>0, <2>0, HeldWasRegisteredUnchanged, LockedIsReferencedUnchanged,
       DestroyedOrNoMoreFramesUnchanged DEF SendFrame, frameVars, handling,
       historyVars, hostVars, localVars, mapVars, opListVars, opsVars,
       otherVars, registryVars, waitVars
  <2> QED BY <2>1, <2>2, <2>3 DEF Inv
<1>23. CASE \E S \in SUBSET Images : DestroyExternalImagesSyncWait(S)
  <2>0. PICK S \in SUBSET Images : DestroyExternalImagesSyncWait(S)
    BY <1>23
  <2>1. ShutDownTaskOnlyOnceShut'
    BY <1>0, <2>0, PostRunnableIndex DEF DestroyExternalImagesSyncWait,
       Runnables, ShutDownTaskOnlyOnceShut, mHasShutdown
  <2>2. OneDestruction'
    <3>1. Destroying = {} /\ ~taskDone /\ pc # "destroy"
      BY <1>0, <2>0 DEF DestroyExternalImagesSyncWait, OneDestruction
    <3>2. \A k, l \in Destroying' : k = l
      BY <1>0, <3>1, <2>0, PostDestroy DEF DestroyExternalImagesSyncWait
    <3> QED BY <2>0, <3>1, <3>2 DEF DestroyExternalImagesSyncWait,
           OneDestruction, localVars
  <2>3. DestroyedOrNoMoreFrames'
    BY <1>0, <2>0 DEF DestroyExternalImagesSyncWait, OneDestruction,
       DestroyedOrNoMoreFrames, NoMoreFrames, mHasShutdown, registryVars,
       mapVars, localVars, frameVars, hostVars
  <2>4. HeldWasRegistered' /\ LockedIsReferenced'
    BY <1>0, <2>0, HeldWasRegisteredUnchanged, LockedIsReferencedUnchanged DEF
       DestroyExternalImagesSyncWait, frameVars, handling, historyVars,
       hostVars,
       localVars, mapVars, opListVars, opsVars, registryVars
  <2> QED BY <2>1, <2>2, <2>3, <2>4 DEF Inv
<1>24. CASE DestroyExternalImagesReturns
  <2>1. OneDestruction'
    BY <1>0, <1>24, SameThread DEF DestroyExternalImagesReturns,
       OneDestruction, frameVars, localVars, opListVars
  <2>2. DestroyedOrNoMoreFrames'
    BY <1>0, <1>24 DEF DestroyExternalImagesReturns, DestroyedOrNoMoreFrames,
       NoMoreFrames, mHasShutdown, frameVars, hostVars, localVars, mapVars,
       opListVars, opsVars, registryVars
  <2>3. HeldWasRegistered' /\ LockedIsReferenced' /\ ShutDownTaskOnlyOnceShut'
    BY <1>0, <1>24, HeldWasRegisteredUnchanged, LockedIsReferencedUnchanged,
       ShutDownTaskOnlyOnceShutUnchanged DEF DestroyExternalImagesReturns,
       frameVars, handling, historyVars, hostVars, localVars, mapVars,
       opListVars,
       opsVars, registryVars
  <2> QED BY <2>1, <2>2, <2>3 DEF Inv
<1>25. CASE ShutDown
  <2>1. ShutDownTaskOnlyOnceShut'
    BY <1>0, <1>25 DEF ShutDown, ShutDownTaskOnlyOnceShut, mHasShutdown
  <2>2. DestroyedOrNoMoreFrames'
    BY <1>0, <1>25 DEF ShutDown, DestroyedOrNoMoreFrames, NoMoreFrames,
       mHasShutdown, frameVars, hostVars, localVars, mapVars, opListVars,
       opsVars, registryVars, waitVars
  <2>3. HeldWasRegistered' /\ LockedIsReferenced' /\ OneDestruction'
    BY <1>0, <1>25, HeldWasRegisteredUnchanged, LockedIsReferencedUnchanged,
       OneDestructionUnchanged DEF ShutDown, frameVars, historyVars, hostVars,
       handling, localVars, mapVars, opListVars, opsVars, registryVars, waitVars
  <2> QED BY <2>1, <2>2, <2>3 DEF Inv
<1>26. CASE PostShutDownTask
  <2>1. ShutDownTaskOnlyOnceShut'
    BY <1>0, <1>26, PostRunnableIndex DEF PostShutDownTask, Runnables,
       ShutDownTaskOnlyOnceShut, mHasShutdown
  <2>2. OneDestruction'
    BY <1>0, <1>26, PostOther DEF PostShutDownTask, Runnables, OneDestruction,
       frameVars, localVars, opListVars, waitVars
  <2>3. DestroyedOrNoMoreFrames'
    BY <1>0, <1>26 DEF PostShutDownTask, PostRunnable, DestroyedOrNoMoreFrames,
       NoMoreFrames, mHasShutdown, frameVars, hostVars, localVars, mapVars,
       opListVars, opsVars, registryVars, waitVars
  <2>4. HeldWasRegistered' /\ LockedIsReferenced'
    BY <1>0, <1>26, HeldWasRegisteredUnchanged, LockedIsReferencedUnchanged DEF
       PostShutDownTask, frameVars, historyVars, hostVars, localVars, mapVars,
       handling, opListVars, opsVars, registryVars
  <2> QED BY <2>1, <2>2, <2>3, <2>4 DEF Inv
<1>27. CASE ThreadJoined
  <2>1. ShutDownTaskOnlyOnceShut'
    BY <1>0, <1>27 DEF ThreadJoined, ShutDownTaskOnlyOnceShut, mHasShutdown
  <2>2. DestroyedOrNoMoreFrames'
    BY <1>0, <1>27 DEF ThreadJoined, DestroyedOrNoMoreFrames, NoMoreFrames,
       mHasShutdown, frameVars, hostVars, localVars, mapVars, opListVars,
       opsVars, registryVars, waitVars
  <2>3. HeldWasRegistered' /\ LockedIsReferenced' /\ OneDestruction'
    BY <1>0, <1>27, HeldWasRegisteredUnchanged, LockedIsReferencedUnchanged,
       OneDestructionUnchanged DEF ThreadJoined, frameVars, historyVars,
       handling, hostVars, localVars, mapVars, opListVars, opsVars,
       registryVars,
       waitVars
  <2> QED BY <2>1, <2>2, <2>3 DEF Inv
<1>28. CASE UNCHANGED vars
  BY <1>0, <1>28, HeldWasRegisteredUnchanged, LockedIsReferencedUnchanged,
     ShutDownTaskOnlyOnceShutUnchanged, OneDestructionUnchanged,
     DestroyedOrNoMoreFramesUnchanged DEF vars, Inv, registryVars, mapVars,
     opsVars, hostVars, sentVars, localVars, opListVars, frameVars, otherVars,
     handling, waitVars, historyVars
<1> QED BY <1>1, <1>2, <1>3, <1>4, <1>5, <1>6, <1>7, <1>8, <1>9, <1>10, <1>11,
   <1>12, <1>13, <1>14, <1>15, <1>16, <1>17, <1>18, <1>19, <1>20, <1>21, <1>22,
   <1>23, <1>24, <1>25, <1>26, <1>27, <1>28, <1>30, <1>31
   DEF Next, RenderThreadStep,
   OtherThreads

-----------------------------------------------------------------------------
(* The registry starts in the invariant.                                    *)
LEMMA InitInv == Init => Inv
<1> SUFFICES ASSUME Init PROVE Inv
  OBVIOUS
<1>1. HeldWasRegistered
  BY DEF Init, HeldWasRegistered, Held, Textures
<1>2. LockedIsReferenced /\ ShutDownTaskOnlyOnceShut
  BY DEF Init, LockedIsReferenced, ShutDownTaskOnlyOnceShut
<1>3. OneDestruction
  BY DEF Init, OneDestruction, Destroying
<1>4. DestroyedOrNoMoreFrames
  BY DEF Init, DestroyedOrNoMoreFrames
<1> QED BY <1>1, <1>2, <1>3, <1>4 DEF Inv

(* The registry, its queues and the hosts are what their declarations in    *)
(* RenderThread.h say, for any images and any bounds.                       *)
THEOREM TypeCorrect == Spec => []TypeOK
<1>1. Init => TypeOK
  BY InitTypeOK
<1>2. TypeOK /\ [Next]_vars => TypeOK'
  BY NextTypeOK
<1> QED BY <1>1, <1>2, PTL DEF Spec

(* The invariant holds of every behaviour.                                  *)
THEOREM Invariant == Spec => []Inv
<1>1. Init => Inv
  BY InitInv
<1>2. TypeOK /\ Inv /\ [Next]_vars => Inv'
  BY NextInv
<1> QED BY <1>1, <1>2, TypeCorrect, PTL DEF Spec

(* A host is not destroyed while a frame has it locked, whatever the other  *)
(* threads unregister meanwhile: GetRenderTexture's plain pointer is good,  *)
(* but to what the first error reported during the frame dropped.           *)
THEOREM LockedHostsStayAlive == Spec => []LockedHostsAreAlive
<1>1. Inv => LockedHostsAreAlive
  BY DEF Inv, LockedIsReferenced, LockedHostsAreAlive, Alive, Held, HostsOf
<1> QED BY <1>1, Invariant, PTL

(* Once DestroyExternalImagesSyncWait has returned, no frame reads the      *)
(* buffers of its images, ShutDown or not.                                  *)
THEOREM FreedBuffersStayUnread == Spec => []FreedBuffersAreNotRead
<1>1. Inv => FreedBuffersAreNotRead
  BY DEF Inv, LockedIsReferenced, DestroyedOrNoMoreFrames, NoMoreFrames,
     FreedBuffersAreNotRead
<1> QED BY <1>1, Invariant, PTL

-----------------------------------------------------------------------------
(* What is referenced before RegisterExternalImage is referenced after it.  *)
LEMMA RegisterKeepsAlive ==
  ASSUME TypeOK, Inv, NEW i \in Images, RegisterExternalImage(i)
  PROVE  Alive \subseteq Alive'
<1>1. Held \subseteq used /\ HostTypeOK
  BY DEF Inv, HeldWasRegistered, TypeOK
<1>2. Held \subseteq Held'
  BY DEF RegisterExternalImage, Held, Textures, opsVars, localVars, opListVars
<1>3. HostsOf(Held)
        \subseteq Held' \cup ({mTextureHost'[c] : c \in Held' \cap Wrappers}
                               \ {NoImage})
  BY <1>1, <1>2, RegisterKeepsHosts
<1> QED BY <1>3 DEF Alive, HostsOf

(* More references to the same hosts keep more of them alive.               *)
LEMMA MoreIsAlive ==
  ASSUME Held \subseteq Held', UNCHANGED mTextureHost
  PROVE  Alive \subseteq Alive'
  BY DEF Alive, HostsOf

(* A host is released by the render thread and by no other thread, as       *)
(* ~RenderTextureHost asserts.                                              *)
THEOREM HostsReleasedOnRenderThread == Spec => ReleasedOnRenderThread
<1> DEFINE R == RenderThreadStep \/ CompositorFailsWhenIdle
                  \/ \E i \in Images : UnregisterOnRenderThread(i)
<1>1. ASSUME TypeOK, Inv, OtherThreads PROVE Alive \subseteq Alive'
  <2>0. RegistryTypeOK
    BY <1>1 DEF TypeOK
  <2>1. CASE \E i \in Images : RegisterExternalImage(i)
    BY <2>1, <1>1, RegisterKeepsAlive
  <2>2. CASE \E i \in Images : UnregisterExternalImage(i)
    BY <2>2, MoreIsAlive DEF UnregisterExternalImage, ReleaseOnRenderThread,
       Held, Textures, localVars, opListVars, opsVars, hostVars
  <2>3. CASE \E i \in Images : \E op \in Ops : AddRenderTextureOp(op, i)
    <3>1. PICK i \in Images, op \in Ops : AddRenderTextureOp(op, i)
      BY <2>3
    <3>2. Textures(mRenderTextureOps) \subseteq Textures(mRenderTextureOps)'
      BY <2>0, <3>1 DEF AddRenderTextureOp, Textures, RegistryTypeOK
    <3> QED BY <3>1, <3>2, MoreIsAlive DEF AddRenderTextureOp, Held,
           Textures, mapVars, localVars, opListVars, hostVars
  <2>4. CASE \E S \in SUBSET Images : SendFrame(S)
    BY <2>4, MoreIsAlive DEF SendFrame, Held, Textures, registryVars, mapVars,
       opsVars, localVars, opListVars, hostVars
  <2>5. CASE \E S \in SUBSET Images : DestroyExternalImagesSyncWait(S)
    BY <2>5, MoreIsAlive DEF DestroyExternalImagesSyncWait, Held, Textures,
       registryVars, mapVars, opsVars, localVars, opListVars, hostVars
  <2>6. CASE DestroyExternalImagesReturns
    BY <2>6, MoreIsAlive DEF DestroyExternalImagesReturns, Held, Textures,
       registryVars, mapVars, opsVars, localVars, opListVars, hostVars
  <2>7. CASE ShutDown \/ PostShutDownTask \/ ThreadJoined
    BY <2>7, MoreIsAlive DEF ShutDown, PostShutDownTask, ThreadJoined, Held,
       Textures, registryVars, mapVars, opsVars, localVars, opListVars,
       hostVars
  <2> QED BY <1>1, <2>1, <2>2, <2>3, <2>4, <2>5, <2>6, <2>7 DEF OtherThreads
<1>2. ASSUME LastRendererRemoved \/ UNCHANGED vars
      PROVE  Alive \subseteq Alive'
  BY <1>2, MoreIsAlive DEF LastRendererRemoved, vars, Held, Textures,
     registryVars, mapVars, opsVars, localVars, opListVars, hostVars
<1>3. TypeOK /\ Inv /\ [Next]_vars => [Alive \subseteq Alive' \/ R]_vars
  BY <1>1, <1>2 DEF Next
<1> QED BY <1>3, TypeCorrect, Invariant, PTL DEF Spec, ReleasedOnRenderThread

-----------------------------------------------------------------------------
(* What a step does with the queue of runnables                             *)

(* The runnables ShutDownTask in it.                                        *)
ShutDowns == {k \in DOMAIN mThread : mThread[k] = "ShutDownTask"}

(* Queueing another runnable leaves them where they are.                    *)
LEMMA PostOtherThanShutDown ==
  ASSUME ThreadTypeOK, NEW tag \in Runnables \ {"ShutDownTask"},
         PostRunnable(tag)
  PROVE  ShutDowns' = ShutDowns
  BY PostRunnableIndex DEF ShutDowns

(* Taking the first runnable moves them up by one.                          *)
LEMMA TakeFirst ==
  ASSUME ThreadTypeOK, NEW tag, NextRunnable(tag),
         \A k, l \in ShutDowns : k = l
  PROVE  /\ \A k, l \in ShutDowns' : k = l
         /\ ShutDowns = {} => ShutDowns' = {}
         /\ ShutDowns' = {} => ShutDowns = {} \/ tag = "ShutDownTask"
<1>1. \A k \in ShutDowns' : k + 1 \in ShutDowns /\ k \in Nat \ {0}
  BY NextRunnableIndex DEF ShutDowns
<1>2. ASSUME NEW k \in ShutDowns, tag # "ShutDownTask" PROVE ShutDowns' # {}
  <2>1. /\ mThread \in Seq(Runnables) /\ mThread # <<>> /\ mThread[1] = tag
        /\ mThread' = Tail(mThread) /\ k \in 1..Len(mThread)
    BY NextRunnableIndex DEF ThreadTypeOK, NextRunnable, ShutDowns
  <2>2. k # 1 /\ mThread[k] = "ShutDownTask"
    BY <1>2, <2>1 DEF ShutDowns
  <2>3. /\ mThread' \in Seq(Runnables) /\ Len(mThread') = Len(mThread) - 1
        /\ \A j \in 1..Len(mThread') : mThread'[j] = mThread[j + 1]
    BY <2>1, HeadTailProperties
  <2>4. k - 1 \in 1..Len(mThread') /\ (k - 1) + 1 = k /\ Len(mThread) \in Nat
    BY <2>1, <2>2, <2>3
  <2>5. mThread'[k - 1] = "ShutDownTask" /\ k - 1 \in DOMAIN mThread'
    BY <2>2, <2>3, <2>4
  <2> QED BY <2>5 DEF ShutDowns
<1> QED BY <1>1, <1>2

(* The steps, by what they do with the queue and with `main'.               *)
Takes == \E tag \in Runnables : NextRunnable(tag)
Posts == \E tag \in Runnables \ {"ShutDownTask"} : PostRunnable(tag)

(* Each step takes a runnable, queues one, or leaves the queue alone.       *)
LEMMA StepThread ==
  ASSUME [Next]_vars
  PROVE  \/ UNCHANGED <<mThread, main>>
         \/ Takes /\ ~NextRunnable("ShutDownTask") /\ UNCHANGED main
         \/ ShutDownTask
         \/ Posts /\ UNCHANGED main
         \/ ShutDown \/ PostShutDownTask \/ ThreadJoined
<1>1. ASSUME NEW tag \in Runnables \ {"ShutDownTask"}, NextRunnable(tag)
      PROVE  Takes /\ ~NextRunnable("ShutDownTask")
  BY <1>1 DEF Takes, NextRunnable
<1>2. /\ {"HandleRenderTextureOps", "DeferredRenderTextureHostDestroy",
          "DestroyExternalImages", "HandleFrames"} \subseteq
           Runnables \ {"ShutDownTask"}
  BY DEF Runnables
<1>3. CASE HandleRenderTextureOps \/ DeferredRenderTextureHostDestroy
           \/ DestroyExternalImages \/ HandleFrames
  BY <1>1, <1>2, <1>3 DEF HandleRenderTextureOps,
     DeferredRenderTextureHostDestroy, DestroyExternalImages, HandleFrames,
     otherVars
<1>4. CASE RunRenderTextureOp \/ RenderTextureOpsDone \/ DestroyHosts
           \/ FramesDone \/ HandleFrameOneDoc_Skipped \/ HandleFrameOneDoc
           \/ BeginFrame \/ RenderDone \/ DeviceLost \/ RenderFails
           \/ CompositorFails \/ CompositorFailsWhenIdle
           \/ LastRendererRemoved \/ DestroyExternalImagesReturns
           \/ UNCHANGED vars
  BY <1>4 DEF RunRenderTextureOp, RenderTextureOpsDone, DestroyHosts,
     FramesDone, HandleFrameOneDoc_Skipped, HandleFrameOneDoc, BeginFrame,
     RenderDone, DeviceLost, RenderFails, LastRendererRemoved,
     CompositorFails, CompositorFailsWhenIdle,
     DestroyExternalImagesReturns, vars, otherVars
<1>5. ASSUME NEW i \in Images,
             \/ LockImage(i) \/ UnregisterOnRenderThread(i)
             \/ RegisterExternalImage(i)
      PROVE  UNCHANGED <<mThread, main>>
  BY <1>5 DEF LockImage, UnregisterOnRenderThread, RegisterExternalImage,
     otherVars
<1>6. ASSUME NEW i \in Images,
             \/ UnregisterExternalImage(i)
             \/ \E op \in Ops : AddRenderTextureOp(op, i)
      PROVE  (Posts /\ UNCHANGED main) \/ UNCHANGED <<mThread, main>>
  BY <1>2, <1>6 DEF UnregisterExternalImage, ReleaseOnRenderThread,
     AddRenderTextureOp, PostRenderTextureOps, Posts, otherVars
<1>7. ASSUME NEW S \in SUBSET Images,
             SendFrame(S) \/ DestroyExternalImagesSyncWait(S)
      PROVE  (Posts /\ UNCHANGED main) \/ UNCHANGED <<mThread, main>>
  BY <1>2, <1>7 DEF SendFrame, DestroyExternalImagesSyncWait, Posts, otherVars
<1> QED BY <1>3, <1>4, <1>5, <1>6, <1>7 DEF Next, RenderThreadStep,
           OtherThreads

(* ShutDownTask is queued once, and what is behind it stays behind it.      *)
LEMMA StepShutDownTask ==
  ASSUME TypeOK, OneShutDownTask, [Next]_vars
  PROVE  /\ OneShutDownTask'
         /\ ShutDownTaskHasRun' => ShutDownTaskHasRun \/ ShutDownTask
<1>0. ThreadTypeOK
  BY DEF TypeOK
<1>1. /\ \A k, l \in ShutDowns : k = l
      /\ main \in {"running", "shut_down"} => ShutDowns = {}
  BY DEF OneShutDownTask, ShutDowns
<1>2. ASSUME /\ \A k, l \in ShutDowns' : k = l
             /\ main' \in {"running", "shut_down"} => ShutDowns' = {}
      PROVE  OneShutDownTask'
  BY <1>2 DEF OneShutDownTask, ShutDowns
<1>3. /\ ShutDownTaskHasRun <=> main \in {"joining", "joined"} /\ ShutDowns = {}
      /\ ShutDownTaskHasRun' <=>
           main' \in {"joining", "joined"} /\ ShutDowns' = {}
  BY DEF ShutDownTaskHasRun, ShutDowns
<1>4. CASE UNCHANGED <<mThread, main>>
  BY <1>4 DEF OneShutDownTask, ShutDownTaskHasRun
<1>5. CASE Takes /\ ~NextRunnable("ShutDownTask") /\ UNCHANGED main
  BY <1>0, <1>1, <1>2, <1>3, <1>5, TakeFirst DEF Takes
<1>6. CASE ShutDownTask
  BY <1>0, <1>1, <1>2, <1>6, TakeFirst DEF ShutDownTask, otherVars
<1>7. CASE Posts /\ UNCHANGED main
  BY <1>0, <1>1, <1>2, <1>3, <1>7, PostOtherThanShutDown DEF Posts
<1>8. CASE ShutDown \/ ThreadJoined
  <2>1. UNCHANGED mThread
    BY <1>8 DEF ShutDown, ThreadJoined
  <2> QED BY <1>1, <1>2, <1>3, <1>8, <2>1 DEF ShutDown, ThreadJoined, ShutDowns
<1>9. CASE PostShutDownTask
  <2>1. main = "shut_down" /\ main' = "joining" /\ PostRunnable("ShutDownTask")
    BY <1>9 DEF PostShutDownTask
  <2>2. "ShutDownTask" \in Runnables
    BY DEF Runnables
  <2>3. /\ DOMAIN mThread' = 1..(Len(mThread) + 1) /\ Len(mThread) \in Nat
        /\ DOMAIN mThread = 1..Len(mThread)
        /\ \A k \in DOMAIN mThread : mThread'[k] = mThread[k]
        /\ mThread'[Len(mThread) + 1] = "ShutDownTask"
    BY <1>0, <2>1, <2>2, PostRunnableIndex
  <2>4. ShutDowns = {}
    BY <1>1, <2>1
  <2>5. \A k \in DOMAIN mThread' : k \in DOMAIN mThread \/ k = Len(mThread) + 1
    BY <2>3
  <2>6. ShutDowns' = {Len(mThread) + 1}
    BY <2>3, <2>4, <2>5 DEF ShutDowns
  <2> QED BY <1>2, <1>3, <2>1, <2>6
<1> QED BY <1>4, <1>5, <1>6, <1>7, <1>8, <1>9, StepThread

-----------------------------------------------------------------------------
(* The lists that the steps work on                                         *)

(* The local list of operations is there while it is run through.           *)
LEMMA StepListInUse ==
  ASSUME TypeOK, OpsListInUse, [Next]_vars
  PROVE  OpsListInUse'
<1>0. LocalTypeOK /\ RegistryTypeOK
  BY DEF TypeOK
<1>1. ASSUME UNCHANGED <<renderTextureOps, nextOp>>,
             pc' \in {"ops", "frame_ops"} => pc \in {"ops", "frame_ops"},
             pc \in {"ops", "frame_ops"} => pc' \in {"ops", "frame_ops"}
      PROVE  OpsListInUse'
  BY <1>1 DEF OpsListInUse
<1>2. CASE HandleRenderTextureOps \/ HandleFrameOneDoc
  BY <1>0, <1>2, LenProperties DEF HandleRenderTextureOps, HandleFrameOneDoc,
     OpsBeforeFrame, SwapRenderTextureOps, OpsListInUse, RegistryTypeOK
<1>3. CASE RunRenderTextureOp
  BY <1>0, <1>3 DEF RunRenderTextureOp, OpsListInUse, LocalTypeOK
<1>4. CASE RenderTextureOpsDone
  <2>1. renderTextureOps' = <<>> /\ nextOp' = 1 /\ Len(<<>>) = 0
    BY <1>4, EmptySeq DEF RenderTextureOpsDone
  <2> QED BY <2>1 DEF OpsListInUse
<1>5. CASE DestroyExternalImages \/ DestroyHosts \/ HandleFrames \/ FramesDone
           \/ BeginFrame \/ RenderDone \/ DeviceLost \/ RenderFails
           \/ CompositorFails
  BY <1>1, <1>5 DEF DestroyExternalImages, NextRunnable, AfterLookup,
     DestroyHosts, HandleFrames, FramesDone, BeginFrame, RenderDone, DeviceLost,
     RenderFails, CompositorFails, FrameOver, opListVars
<1>6. CASE DeferredRenderTextureHostDestroy \/ HandleFrameOneDoc_Skipped
           \/ ShutDownTask \/ LastRendererRemoved
           \/ DestroyExternalImagesReturns
           \/ CompositorFailsWhenIdle \/ ShutDown \/ PostShutDownTask
           \/ ThreadJoined \/ UNCHANGED vars
  BY <1>1, <1>6 DEF DeferredRenderTextureHostDestroy,
     HandleFrameOneDoc_Skipped, ShutDownTask, LastRendererRemoved,
     CompositorFailsWhenIdle, DestroyExternalImagesReturns, ShutDown,
     PostShutDownTask, ThreadJoined,
     vars, localVars, opListVars
<1>7. ASSUME NEW i \in Images,
             \/ LockImage(i) \/ UnregisterOnRenderThread(i)
             \/ RegisterExternalImage(i) \/ UnregisterExternalImage(i)
             \/ \E op \in Ops : AddRenderTextureOp(op, i)
      PROVE  OpsListInUse'
  BY <1>1, <1>7 DEF LockImage, UnregisterOnRenderThread,
     RegisterExternalImage, UnregisterExternalImage, AddRenderTextureOp,
     localVars, opListVars
<1>8. ASSUME NEW S \in SUBSET Images,
             SendFrame(S) \/ DestroyExternalImagesSyncWait(S)
      PROVE  OpsListInUse'
  BY <1>1, <1>8 DEF SendFrame, DestroyExternalImagesSyncWait, localVars,
     opListVars
<1> QED BY <1>2, <1>3, <1>4, <1>5, <1>6, <1>7, <1>8 DEF Next,
           RenderThreadStep, OtherThreads

(* What ShutDownTask has emptied.                                           *)
EmptyLists == /\ mRenderTextures = {} /\ mSyncObjectNeededRenderTextures = {}
              /\ mRenderTexturesDeferred = {} /\ mRenderTextureOps = <<>>

(* Nothing is put in after ShutDown, operations on registered images        *)
(* excepted, and then there are none.                                       *)
LEMMA EmptyStays ==
  ASSUME EmptyLists, mHasShutdown, [Next]_vars
  PROVE  EmptyLists'
<1>1. CASE HandleRenderTextureOps \/ HandleFrameOneDoc
  BY <1>1 DEF HandleRenderTextureOps, HandleFrameOneDoc, OpsBeforeFrame,
     SwapRenderTextureOps, mapVars, EmptyLists
<1>2. CASE RunRenderTextureOp \/ RenderTextureOpsDone \/ DestroyExternalImages
           \/ DestroyHosts \/ HandleFrames \/ FramesDone
           \/ HandleFrameOneDoc_Skipped \/ BeginFrame \/ RenderDone
           \/ LastRendererRemoved \/ DestroyExternalImagesReturns
           \/ ShutDown \/ PostShutDownTask \/ ThreadJoined \/ UNCHANGED vars
  BY <1>2 DEF RunRenderTextureOp, RenderTextureOpsDone, DestroyExternalImages,
     DestroyHosts, HandleFrames, FramesDone, HandleFrameOneDoc_Skipped,
     BeginFrame, RenderDone, LastRendererRemoved, DestroyExternalImagesReturns,
     ShutDown, PostShutDownTask, ThreadJoined, vars, registryVars, mapVars,
     opsVars, EmptyLists
<1>3. CASE DeferredRenderTextureHostDestroy \/ DeviceLost \/ RenderFails
           \/ CompositorFails \/ CompositorFailsWhenIdle
           \/ ShutDownTask
  BY <1>3, HandleErrorClears DEF DeferredRenderTextureHostDestroy, DeviceLost,
     RenderFails, CompositorFails, CompositorFailsWhenIdle, ShutDownTask,
     opsVars,
     EmptyLists
<1>4. ASSUME NEW i \in Images,
             \/ UnregisterOnRenderThread(i) \/ RegisterExternalImage(i)
             \/ UnregisterExternalImage(i)
             \/ \E op \in Ops : AddRenderTextureOp(op, i)
      PROVE  FALSE
  BY <1>4 DEF UnregisterOnRenderThread, RegisterExternalImage, MayRegister,
     UnregisterExternalImage, AddRenderTextureOp, EmptyLists
<1>5. ASSUME NEW i \in Images, LockImage(i) PROVE EmptyLists'
  BY <1>5 DEF LockImage, registryVars, mapVars, opsVars, EmptyLists
<1>6. ASSUME NEW S \in SUBSET Images,
             SendFrame(S) \/ DestroyExternalImagesSyncWait(S)
      PROVE  EmptyLists'
  BY <1>6 DEF SendFrame, DestroyExternalImagesSyncWait, registryVars, mapVars,
     opsVars, EmptyLists
<1> QED BY <1>1, <1>2, <1>3, <1>4, <1>5, <1>6 DEF Next, RenderThreadStep,
           OtherThreads

(* The hosts to destroy are held until they are.                            *)
LEMMA StepHosts ==
  ASSUME pc # "destroy" => hosts = {}, [Next]_vars
  PROVE  pc' # "destroy" => hosts' = {}
<1>1. CASE DestroyExternalImages \/ DestroyHosts
  BY <1>1 DEF DestroyExternalImages, AfterLookup, DestroyHosts
<1>2. CASE HandleRenderTextureOps \/ HandleFrameOneDoc \/ RunRenderTextureOp
           \/ RenderTextureOpsDone \/ HandleFrames \/ FramesDone
           \/ BeginFrame \/ RenderDone \/ DeviceLost \/ RenderFails
           \/ CompositorFails
  <2>1. hosts' = hosts /\ pc # "destroy"
    BY <1>2 DEF HandleRenderTextureOps, HandleFrameOneDoc, RunRenderTextureOp,
       RenderTextureOpsDone, HandleFrames, FramesDone, BeginFrame, RenderDone,
       DeviceLost, RenderFails, CompositorFails, NextRunnable
  <2> QED BY <2>1
<1>3. CASE DeferredRenderTextureHostDestroy \/ HandleFrameOneDoc_Skipped
           \/ ShutDownTask \/ LastRendererRemoved
           \/ DestroyExternalImagesReturns
           \/ CompositorFailsWhenIdle \/ ShutDown \/ PostShutDownTask
           \/ ThreadJoined \/ UNCHANGED vars
  BY <1>3 DEF DeferredRenderTextureHostDestroy, HandleFrameOneDoc_Skipped,
     ShutDownTask, LastRendererRemoved, CompositorFailsWhenIdle,
     DestroyExternalImagesReturns,
     ShutDown, PostShutDownTask, ThreadJoined, vars, localVars
<1>4. ASSUME NEW i \in Images,
             \/ LockImage(i) \/ UnregisterOnRenderThread(i)
             \/ RegisterExternalImage(i) \/ UnregisterExternalImage(i)
             \/ \E op \in Ops : AddRenderTextureOp(op, i)
      PROVE  UNCHANGED <<pc, hosts>>
  BY <1>4 DEF LockImage, UnregisterOnRenderThread, RegisterExternalImage,
     UnregisterExternalImage, AddRenderTextureOp, localVars
<1>5. ASSUME NEW S \in SUBSET Images,
             SendFrame(S) \/ DestroyExternalImagesSyncWait(S)
      PROVE  UNCHANGED <<pc, hosts>>
  BY <1>5 DEF SendFrame, DestroyExternalImagesSyncWait, localVars
<1> QED BY <1>1, <1>2, <1>3, <1>4, <1>5 DEF Next, RenderThreadStep,
           OtherThreads

(* Once joined the thread has nothing to do.                                *)
LEMMA StepJoined ==
  ASSUME TypeOK, EmptiedAtExit, [Next]_vars, main' = "joined"
  PROVE  mThread' = <<>> /\ pc' = "idle"
<1>1. CASE main # "joined"
  BY <1>1, StepThread DEF ShutDownTask, ShutDown, PostShutDownTask,
     ThreadJoined, otherVars, localVars
<1>2. CASE main = "joined"
  <2>1. mThread = <<>> /\ pc = "idle" /\ DOMAIN mThread = {}
    BY <1>2, EmptySeq DEF EmptiedAtExit
  <2>2. mRenderTextures = {}
    BY <1>2, <2>1 DEF EmptiedAtExit, ShutDownTaskHasRun
  <2>3. mHasShutdown /\ ~HasThread
    BY <1>2 DEF mHasShutdown, HasThread
  <2>4. ~RenderThreadStep
    BY <2>1 DEF RenderThreadStep, HandleRenderTextureOps, RunRenderTextureOp,
       RenderTextureOpsDone, DeferredRenderTextureHostDestroy,
       DestroyExternalImages, DestroyHosts, HandleFrames, FramesDone,
       HandleFrameOneDoc_Skipped, HandleFrameOneDoc, BeginFrame, RenderDone,
       DeviceLost, CompositorFails, RenderFails, LockImage, ShutDownTask,
       NextRunnable
  <2>5. \A i \in Images : /\ ~UnregisterOnRenderThread(i)
                          /\ ~RegisterExternalImage(i)
                          /\ ~UnregisterExternalImage(i)
                          /\ \A op \in Ops : ~AddRenderTextureOp(op, i)
    BY <2>2, <2>3 DEF UnregisterOnRenderThread, RegisterExternalImage,
       MayRegister, UnregisterExternalImage, AddRenderTextureOp
  <2>6. \A S \in SUBSET Images :
          ~SendFrame(S) /\ ~DestroyExternalImagesSyncWait(S)
    BY <2>3 DEF SendFrame, DestroyExternalImagesSyncWait
  <2>7. CASE LastRendererRemoved \/ CompositorFailsWhenIdle
             \/ DestroyExternalImagesReturns \/ ShutDown
             \/ PostShutDownTask \/ ThreadJoined \/ UNCHANGED vars
    BY <1>2, <2>1, <2>3, <2>7 DEF LastRendererRemoved,
       CompositorFailsWhenIdle, DestroyExternalImagesReturns,
       ShutDown, PostShutDownTask, ThreadJoined, vars, localVars
  <2> QED BY <2>4, <2>5, <2>6, <2>7 DEF Next, OtherThreads
<1> QED BY <1>1, <1>2

(* What ShutDownTask has emptied, and the thread at its end.                *)
LEMMA StepEmptied ==
  ASSUME TypeOK, OneShutDownTask, EmptiedAtExit, [Next]_vars
  PROVE  EmptiedAtExit'
<1>1. ASSUME ShutDownTaskHasRun' PROVE EmptyLists'
  <2>1. CASE ShutDownTask
    BY <2>1 DEF ShutDownTask, EmptyLists
  <2>2. CASE ShutDownTaskHasRun
    <3>1. EmptyLists /\ mHasShutdown
      BY <2>2 DEF EmptiedAtExit, EmptyLists, ShutDownTaskHasRun, mHasShutdown
    <3> QED BY <3>1, EmptyStays
  <2> QED BY <1>1, <2>1, <2>2, StepShutDownTask
<1>2. pc' # "destroy" => hosts' = {}
  BY StepHosts DEF EmptiedAtExit
<1> QED BY <1>1, <1>2, StepJoined DEF EmptiedAtExit, EmptyLists

-----------------------------------------------------------------------------
(* The operations and their order                                           *)

(* What is known of the operations: those run, those of the local list      *)
(* still to run, those to come.                                             *)
Rest     == SubSeq(renderTextureOps, nextOp, Len(renderTextureOps))
KnownOps == applied \o Rest \o mRenderTextureOps

(* The property in these terms.                                             *)
LEMMA InOrderMeans ==
  OpsRunInOrder <=>
    \/ KnownOps = issued
    \/ ShutDownTaskHasRun /\ KnownOps = SubSeq(issued, 1, Len(KnownOps))
  BY DEF OpsRunInOrder, KnownOps, Rest

(* The rest is a sequence, empty when there is nothing left to run.         *)
LEMMA RestType ==
  ASSUME LocalTypeOK
  PROVE  /\ Rest \in Seq(Op)
         /\ nextOp > Len(renderTextureOps) => Rest = <<>>
         /\ nextOp <= Len(renderTextureOps) =>
              Len(Rest) = Len(renderTextureOps) + 1 - nextOp
<1>1. /\ renderTextureOps \in Seq(Op) /\ nextOp \in Int /\ nextOp >= 1
      /\ Len(renderTextureOps) \in Int
      /\ \A i \in nextOp..Len(renderTextureOps) : renderTextureOps[i] \in Op
  BY LenProperties, ElementOfSeq DEF LocalTypeOK
<1>2. /\ Rest \in Seq(Op)
      /\ Len(Rest) = IF nextOp <= Len(renderTextureOps)
                     THEN Len(renderTextureOps) - nextOp + 1 ELSE 0
  BY <1>1, SubSeqProperties DEF Rest
<1>3. nextOp > Len(renderTextureOps) => Rest = <<>>
  BY <1>1, SubSeqEmpty DEF Rest
<1> QED BY <1>1, <1>2, <1>3

(* An operation is run: it is the first of the rest.                        *)
LEMMA RunKeepsOrder ==
  ASSUME TypeOK, RunRenderTextureOp
  PROVE  KnownOps' = KnownOps
<1> DEFINE op == renderTextureOps[nextOp]
           rest == SubSeq(renderTextureOps, nextOp + 1, Len(renderTextureOps))
<1>1. /\ renderTextureOps \in Seq(Op) /\ Len(renderTextureOps) \in Nat
      /\ nextOp \in 1..Len(renderTextureOps) /\ applied \in Seq(Op)
      /\ applied' = Append(applied, op) /\ Rest' = rest
      /\ mRenderTextureOps' = mRenderTextureOps
  BY LenProperties DEF TypeOK, LocalTypeOK, OtherTypeOK, RunRenderTextureOp,
     Rest, registryVars, opsVars
<1>2. Rest = <<op>> \o rest
  BY <1>1, SubSeqRecursiveFirst DEF Rest
<1>3. op \in Op /\ <<op>> \in Seq(Op) /\ applied' = applied \o <<op>>
  BY <1>1, ElementOfSeq, AppendIsConcat
<1>4. rest \in Seq(Op)
  <2>1. \A i \in (nextOp + 1)..Len(renderTextureOps) :
          renderTextureOps[i] \in Op
    BY <1>1, ElementOfSeq
  <2> QED BY <1>1, <2>1, SubSeqProperties
<1> HIDE DEF op, rest
<1>5. (applied \o <<op>>) \o rest = applied \o (<<op>> \o rest)
  <2>1. applied \in Seq(Op) /\ <<op>> \in Seq(Op) /\ rest \in Seq(Op)
    BY <1>1, <1>3, <1>4
  <2> QED BY ONLY <2>1, ConcatAssociative
<1> QED BY <1>1, <1>2, <1>3, <1>5 DEF KnownOps

(* The list is swapped: what was to come is what is to be run.              *)
LEMMA SwapKeepsOrder ==
  ASSUME TypeOK, renderTextureOps = <<>>, nextOp = 1, SwapRenderTextureOps,
         UNCHANGED applied
  PROVE  KnownOps' = KnownOps
<1>1. /\ applied \in Seq(Op) /\ mRenderTextureOps \in Seq(Op)
      /\ <<>> \in Seq(Op) /\ Len(<<>>) = 0
  BY EmptySeq DEF TypeOK, OtherTypeOK, RegistryTypeOK
<1>2. Rest = <<>>
  BY <1>1, RestType DEF TypeOK
<1>3. Rest' = mRenderTextureOps /\ mRenderTextureOps' = <<>>
  BY <1>1, SubSeqFull DEF SwapRenderTextureOps, Rest
<1>4. KnownOps = applied \o mRenderTextureOps
  BY <1>1, <1>2, ConcatEmptySeq DEF KnownOps
<1>5. applied \o mRenderTextureOps \in Seq(Op)
  BY <1>1, ConcatProperties
<1>6. KnownOps' = (applied \o mRenderTextureOps) \o <<>>
  BY <1>3 DEF KnownOps
<1> QED BY <1>4, <1>5, <1>6, ConcatEmptySeq

(* A list that was run through is dropped.                                  *)
LEMMA DoneKeepsOrder ==
  ASSUME TypeOK, RenderTextureOpsDone
  PROVE  KnownOps' = KnownOps
<1>1. Rest = <<>>
  BY RestType DEF TypeOK, RenderTextureOpsDone
<1>2. Rest' = <<>>
  <2>1. renderTextureOps' = <<>> /\ nextOp' = 1 /\ Len(<<>>) = 0
    BY EmptySeq DEF RenderTextureOpsDone
  <2> QED BY <2>1, SubSeqEmpty DEF Rest
<1>3. UNCHANGED <<applied, mRenderTextureOps>>
  BY DEF RenderTextureOpsDone, registryVars, opsVars, otherVars, historyVars
<1> QED BY <1>1, <1>2, <1>3 DEF KnownOps

(* An operation is added to both ends.                                      *)
LEMMA AddKeepsOrder ==
  ASSUME TypeOK, NEW op \in Ops, NEW i \in Images, AddRenderTextureOp(op, i)
  PROVE  \E o \in Op : /\ KnownOps' = Append(KnownOps, o)
                       /\ issued' = Append(issued, o)
<1> DEFINE o == [op |-> op, texture |-> i]
<1>1. /\ o \in Op /\ issued' = Append(issued, o)
      /\ mRenderTextureOps' = Append(mRenderTextureOps, o)
      /\ UNCHANGED <<applied, Rest>>
  BY DEF AddRenderTextureOp, Op, localVars, opListVars, Rest
<1>2. /\ applied \in Seq(Op) /\ Rest \in Seq(Op)
      /\ mRenderTextureOps \in Seq(Op)
  BY RestType DEF TypeOK, OtherTypeOK, RegistryTypeOK
<1> HIDE DEF o
<1>3. applied \o Rest \in Seq(Op) /\ <<o>> \in Seq(Op)
  BY <1>1, <1>2, ConcatProperties
<1>4. KnownOps \in Seq(Op)
  BY <1>2, <1>3, ConcatProperties DEF KnownOps
<1>5. mRenderTextureOps' = mRenderTextureOps \o <<o>>
  BY <1>1, <1>2, AppendIsConcat
<1>6. KnownOps' = (applied \o Rest) \o (mRenderTextureOps \o <<o>>)
  BY <1>1, <1>5 DEF KnownOps
<1>7. KnownOps' = KnownOps \o <<o>>
  BY <1>2, <1>3, <1>6, ConcatAssociative DEF KnownOps
<1> QED BY <1>1, <1>4, <1>7, AppendIsConcat

(* ShutDownTask drops those to come.                                        *)
LEMMA DropKeepsPrefix ==
  ASSUME TypeOK, ShutDownTask
  PROVE  KnownOps = issued => KnownOps' = SubSeq(issued, 1, Len(KnownOps'))
<1> DEFINE p == applied \o Rest
<1>1. /\ applied \in Seq(Op) /\ Rest \in Seq(Op)
      /\ mRenderTextureOps \in Seq(Op) /\ mRenderTextureOps' = <<>>
      /\ UNCHANGED <<applied, Rest, issued>>
  BY RestType DEF TypeOK, OtherTypeOK, RegistryTypeOK, ShutDownTask, localVars,
     opListVars, otherVars, historyVars, Rest
<1>2. p \in Seq(Op)
  BY <1>1, ConcatProperties
<1>3. KnownOps' = p \o <<>> /\ KnownOps = p \o mRenderTextureOps
  BY <1>1 DEF KnownOps
<1> HIDE DEF p
<1>4. KnownOps' = p
  BY <1>2, <1>3, ConcatEmptySeq
<1>5. SubSeq(p \o mRenderTextureOps, 1, Len(p)) = p
  <2>1. CASE Len(p) = 0
    <3>1. p = <<>>
      BY <1>2, <2>1, EmptySeq
    <3> QED BY <2>1, <3>1, SubSeqEmpty
  <2>2. CASE Len(p) # 0
    <3>1. Len(p) \in Nat /\ 1 \in 1..Len(p) /\ Len(p) \in 1..Len(p)
      BY <1>2, <2>2, LenProperties
    <3>2. SubSeq(p \o mRenderTextureOps, 1, Len(p)) = SubSeq(p, 1, Len(p))
      BY <1>1, <1>2, <3>1, SubSeqOfConcat1
    <3> QED BY <1>2, <3>2, SubSeqFull
  <2> QED BY <2>1, <2>2
<1> QED BY <1>3, <1>4, <1>5

(* Until ShutDownTask all that was added is known, in order; then nothing   *)
(* is added, and what is known stays.                                       *)
LEMMA StepOrder ==
  ASSUME TypeOK, OpsListInUse, OneShutDownTask, EmptiedAtExit, OpsRunInOrder,
         [Next]_vars
  PROVE  OpsRunInOrder'
<1>1. OpsRunInOrder' <=>
        \/ KnownOps' = issued'
        \/ ShutDownTaskHasRun' /\ KnownOps' = SubSeq(issued', 1, Len(KnownOps'))
  BY DEF OpsRunInOrder, KnownOps, Rest
<1>2. ASSUME ShutDownTaskHasRun, ~ShutDownTaskHasRun' PROVE FALSE
  <2>1. ThreadTypeOK /\ main \in {"joining", "joined"} /\ ShutDowns = {}
    BY <1>2 DEF TypeOK, ShutDownTaskHasRun, ShutDowns
  <2>2. ~(main' \in {"joining", "joined"} /\ ShutDowns' = {})
    BY <1>2 DEF ShutDownTaskHasRun, ShutDowns
  <2>3. ~NextRunnable("ShutDownTask") /\ ~PostShutDownTask /\ ~ShutDown
    <3>1. NextRunnable("ShutDownTask") => 1 \in ShutDowns
      BY <2>1, NextRunnableIndex DEF ShutDowns
    <3> QED BY <2>1, <3>1 DEF PostShutDownTask, ShutDown
  <2>4. CASE UNCHANGED <<mThread, main>> \/ ThreadJoined
    BY <2>1, <2>2, <2>4 DEF ThreadJoined, ShutDowns
  <2>5. CASE Takes /\ UNCHANGED main
    BY <2>1, <2>2, <2>5, TakeFirst DEF Takes
  <2>6. CASE Posts /\ UNCHANGED main
    BY <2>1, <2>2, <2>6, PostOtherThanShutDown DEF Posts
  <2> QED BY <2>3, <2>4, <2>5, <2>6, StepThread DEF ShutDownTask
<1>3. ASSUME KnownOps' = KnownOps, issued' = issued PROVE OpsRunInOrder'
  BY <1>1, <1>2, <1>3, InOrderMeans
<1>4. CASE HandleRenderTextureOps \/ HandleFrameOneDoc
  <2>1. renderTextureOps = <<>> /\ nextOp = 1
    BY <1>4 DEF OpsListInUse, HandleRenderTextureOps, HandleFrameOneDoc,
       NextRunnable
  <2>2. SwapRenderTextureOps /\ UNCHANGED <<applied, issued>>
    BY <1>4 DEF HandleRenderTextureOps, HandleFrameOneDoc, OpsBeforeFrame,
       otherVars, historyVars
  <2> QED BY <1>3, <2>1, <2>2, SwapKeepsOrder
<1>5. CASE RunRenderTextureOp \/ RenderTextureOpsDone
  <2>1. UNCHANGED issued
    BY <1>5 DEF RunRenderTextureOp, RenderTextureOpsDone, otherVars, historyVars
  <2> QED BY <1>3, <1>5, <2>1, RunKeepsOrder, DoneKeepsOrder
<1>6. CASE ShutDownTask
  <2>1. CASE KnownOps = issued
    <3>1. KnownOps' = SubSeq(issued', 1, Len(KnownOps'))
      BY <1>6, <2>1, DropKeepsPrefix DEF ShutDownTask, otherVars, historyVars
    <3>2. ShutDownTaskHasRun'
      <4>1. /\ ThreadTypeOK /\ NextRunnable("ShutDownTask") /\ main' = main
            /\ \A k, l \in ShutDowns : k = l
        BY <1>6 DEF TypeOK, ShutDownTask, OneShutDownTask, ShutDowns, otherVars
      <4>2. 1 \in ShutDowns /\ \A k \in ShutDowns' : /\ k + 1 \in ShutDowns
                                                     /\ k \in Nat \ {0}
        BY <4>1, NextRunnableIndex DEF ShutDowns
      <4>3. ShutDowns' = {}
        <5>1. ASSUME NEW k \in ShutDowns' PROVE FALSE
          <6>1. k + 1 = 1 /\ k \in Nat \ {0}
            BY <4>1, <4>2, <5>1
          <6> QED BY <6>1
        <5> QED BY <5>1
      <4>4. main \in {"joining", "joined"}
        BY <4>1, <4>2 DEF OneShutDownTask, ShutDowns, ThreadTypeOK
      <4> QED BY <4>1, <4>3, <4>4 DEF ShutDownTaskHasRun, ShutDowns
    <3> QED BY <1>1, <3>1, <3>2
  <2>2. CASE ShutDownTaskHasRun
    BY <1>6, <2>2, NextRunnableIndex
    DEF ShutDownTaskHasRun, ShutDownTask, TypeOK
  <2> QED BY <2>1, <2>2, InOrderMeans
<1>7. ASSUME NEW i \in Images, NEW op \in Ops, AddRenderTextureOp(op, i)
      PROVE  OpsRunInOrder'
  <2>1. ~ShutDownTaskHasRun
    BY <1>7 DEF AddRenderTextureOp, EmptiedAtExit
  <2> QED BY <1>1, <1>7, <2>1, AddKeepsOrder, InOrderMeans
<1>8. ASSUME UNCHANGED <<applied, renderTextureOps, nextOp, mRenderTextureOps,
                         issued>>
      PROVE  OpsRunInOrder'
  BY <1>3, <1>8 DEF KnownOps, Rest
<1>9. CASE DeferredRenderTextureHostDestroy \/ DestroyExternalImages
           \/ DestroyHosts \/ HandleFrames \/ FramesDone
           \/ HandleFrameOneDoc_Skipped \/ BeginFrame \/ RenderDone
           \/ DeviceLost \/ RenderFails \/ LastRendererRemoved
           \/ CompositorFails \/ CompositorFailsWhenIdle
           \/ DestroyExternalImagesReturns \/ ShutDown \/ PostShutDownTask
           \/ ThreadJoined \/ UNCHANGED vars
  BY <1>8, <1>9 DEF DeferredRenderTextureHostDestroy, DestroyExternalImages,
     DestroyHosts, HandleFrames, FramesDone, HandleFrameOneDoc_Skipped,
     BeginFrame, RenderDone, DeviceLost, RenderFails, LastRendererRemoved,
     CompositorFails, CompositorFailsWhenIdle,
     DestroyExternalImagesReturns, ShutDown, PostShutDownTask, ThreadJoined,
     vars, registryVars, opsVars, localVars, opListVars, otherVars, historyVars
<1>10. ASSUME NEW i \in Images,
              \/ LockImage(i) \/ UnregisterOnRenderThread(i)
              \/ RegisterExternalImage(i) \/ UnregisterExternalImage(i)
       PROVE  OpsRunInOrder'
  BY <1>8, <1>10 DEF LockImage, UnregisterOnRenderThread,
     RegisterExternalImage, UnregisterExternalImage, registryVars, opsVars,
     localVars, opListVars, otherVars, historyVars
<1>11. ASSUME NEW S \in SUBSET Images,
              SendFrame(S) \/ DestroyExternalImagesSyncWait(S)
       PROVE  OpsRunInOrder'
  BY <1>8, <1>11 DEF SendFrame, DestroyExternalImagesSyncWait, registryVars,
     opsVars, localVars, opListVars, otherVars, historyVars
<1> QED BY <1>4, <1>5, <1>6, <1>7, <1>8, <1>9, <1>10, <1>11 DEF Next,
           RenderThreadStep, OtherThreads

-----------------------------------------------------------------------------
(* The frames and the operations before them                                *)

(* Until ShutDownTask every operation added is run, to be run or to come.   *)
LEMMA KnownLength ==
  ASSUME TypeOK, OpsRunInOrder, ~mHasShutdown, renderTextureOps = <<>>,
         nextOp = 1
  PROVE  Len(issued) = Len(applied) + Len(mRenderTextureOps)
<1>1. KnownOps = issued
  BY InOrderMeans DEF ShutDownTaskHasRun, mHasShutdown
<1>2. Rest = <<>>
  BY EmptySeq, RestType DEF TypeOK
<1>3. applied \in Seq(Op) /\ mRenderTextureOps \in Seq(Op)
  BY DEF TypeOK, OtherTypeOK, RegistryTypeOK
<1> QED BY <1>1, <1>2, <1>3, ConcatEmptySeq, ConcatProperties DEF KnownOps

(* The first frame is another after a frame: what is left is as it was.     *)
LEMMA TailIndex ==
  ASSUME NEW D, NEW s \in Seq(D), s # <<>>
  PROVE  \A k \in DOMAIN Tail(s) : k + 1 \in DOMAIN s /\ Tail(s)[k] = s[k + 1]
<1>1. /\ Tail(s) \in Seq(D) /\ Len(Tail(s)) = Len(s) - 1
      /\ \A k \in 1..Len(Tail(s)) : Tail(s)[k] = s[k + 1]
  BY HeadTailProperties
<1>2. DOMAIN Tail(s) = 1..Len(Tail(s)) /\ DOMAIN s = 1..Len(s) /\ Len(s) \in Nat
  BY <1>1, LenProperties
<1> QED BY <1>1, <1>2

(* What a queue of frames consists of.                                      *)
LEMMA FramesOf ==
  ASSUME NEW s \in Seq(Frame), NEW k \in DOMAIN s
  PROVE  /\ s[k] \in Frame
         /\ s[k].ops \in Nat /\ s[k].images \subseteq Images
<1>1. s[k] \in Frame
  BY ElementOfSeq, LenProperties
<1> QED BY <1>1 DEF Frame

(* The frames sent and those being handled.                                 *)
AllFrames == {sentFrames[k] : k \in DOMAIN sentFrames}
               \cup {frames[k] : k \in DOMAIN frames}

(* After a step a frame is one of those before it, with the same or fewer   *)
(* images, or one sent in it.                                               *)
From(f) ==
  \/ \E g \in AllFrames : f.ops = g.ops /\ f.images \subseteq g.images
  \/ f.ops = Len(issued) /\ f.images \subseteq mRenderTextures

(* No frame comes but by being sent, and none gains images.                 *)
LEMMA StepFrames ==
  ASSUME TypeOK, [Next]_vars
  PROVE  \A f \in AllFrames' : From(f)
<1>0. /\ sentFrames \in Seq(Frame) /\ frames \in Seq(Frame)
      /\ issued \in Seq(Op) /\ Len(issued) \in Nat
      /\ pc \in {"frame_ops", "begin_frame", "render"} => frames # <<>>
  BY LenProperties DEF TypeOK, ThreadTypeOK, LocalTypeOK, OtherTypeOK
<1>1. ASSUME AllFrames' \subseteq AllFrames PROVE \A f \in AllFrames' : From(f)
  BY <1>1 DEF From
<1>2. CASE HandleFrames
  <2>1. frames' = sentFrames /\ sentFrames' = <<>> /\ DOMAIN <<>> = {}
    BY <1>2, EmptySeq DEF HandleFrames
  <2>2. AllFrames' \subseteq AllFrames
    BY <2>1 DEF AllFrames
  <2> QED BY <1>1, <2>2
<1>3. CASE HandleFrameOneDoc_Skipped \/ RenderDone \/ DeviceLost \/ RenderFails
  <2>1. frames # <<>> /\ frames' = Tail(frames) /\ UNCHANGED sentFrames
    BY <1>0, <1>3 DEF HandleFrameOneDoc_Skipped, RenderDone, DeviceLost,
       RenderFails, FrameOver, sentVars
  <2>2. AllFrames' \subseteq AllFrames
    BY <1>0, <2>1, TailIndex DEF AllFrames
  <2> QED BY <1>1, <2>2
<1>4. ASSUME NEW S \in SUBSET Images, SendFrame(S)
      PROVE  \A f \in AllFrames' : From(f)
  <2> DEFINE new == [images |-> S, ops |-> Len(issued)]
  <2>1. /\ sentFrames' = Append(sentFrames, new) /\ frames' = frames
        /\ S \subseteq mRenderTextures
    BY <1>4 DEF SendFrame, localVars, frameVars
  <2>2. new \in Frame
    BY <1>0 DEF Frame
  <2>3. \A k \in DOMAIN sentFrames' :
          \/ k \in DOMAIN sentFrames /\ sentFrames'[k] = sentFrames[k]
          \/ sentFrames'[k] = new
    BY <1>0, <2>1, <2>2, AppendProperties, LenProperties
  <2>4. \A f \in AllFrames' : f \in AllFrames \/ f = new
    BY <2>1, <2>3 DEF AllFrames
  <2> QED BY <2>1, <2>4 DEF From
<1>5. ASSUME NEW i \in Images, LockImage(i)
      PROVE  \A f \in AllFrames' : From(f)
  <2>1. /\ frames' = [frames EXCEPT ![1].images = @ \ {i}]
        /\ sentFrames' = sentFrames
    BY <1>5 DEF LockImage, sentVars
  <2>2. ASSUME NEW k \in DOMAIN frames
        PROVE  /\ frames'[k].ops = frames[k].ops
               /\ frames'[k].images \subseteq frames[k].images
    <3>1. frames[k] \in Frame
      BY <1>0, FramesOf
    <3> QED BY <2>1, <3>1 DEF Frame
  <2>3. DOMAIN frames' = DOMAIN frames
    BY <2>1
  <2>4. ASSUME NEW k \in DOMAIN frames PROVE From(frames'[k])
    BY <2>2, <2>4 DEF AllFrames, From
  <2>5. ASSUME NEW k \in DOMAIN sentFrames PROVE From(sentFrames'[k])
    BY <2>1, <2>5 DEF AllFrames, From
  <2> QED BY <2>1, <2>3, <2>4, <2>5 DEF AllFrames
<1>6. CASE HandleRenderTextureOps \/ HandleFrameOneDoc \/ RunRenderTextureOp
           \/ RenderTextureOpsDone \/ DeferredRenderTextureHostDestroy
           \/ DestroyExternalImages \/ DestroyHosts \/ FramesDone \/ BeginFrame
           \/ ShutDownTask \/ LastRendererRemoved
           \/ CompositorFails \/ CompositorFailsWhenIdle
           \/ DestroyExternalImagesReturns
           \/ ShutDown \/ PostShutDownTask \/ ThreadJoined \/ UNCHANGED vars
  <2>1. UNCHANGED <<sentFrames, frames>>
    BY <1>6 DEF HandleRenderTextureOps, HandleFrameOneDoc,
       RunRenderTextureOp, RenderTextureOpsDone,
       DeferredRenderTextureHostDestroy, DestroyExternalImages, DestroyHosts,
       FramesDone, BeginFrame, ShutDownTask, LastRendererRemoved,
       CompositorFails, CompositorFailsWhenIdle,
       DestroyExternalImagesReturns, ShutDown, PostShutDownTask, ThreadJoined,
       vars, localVars, frameVars, sentVars
  <2> QED BY <1>1, <2>1 DEF AllFrames
<1>7. ASSUME NEW i \in Images,
             \/ UnregisterOnRenderThread(i) \/ RegisterExternalImage(i)
             \/ UnregisterExternalImage(i)
             \/ \E op \in Ops : AddRenderTextureOp(op, i)
      PROVE  UNCHANGED <<sentFrames, frames>>
  BY <1>7 DEF UnregisterOnRenderThread, RegisterExternalImage,
     UnregisterExternalImage, AddRenderTextureOp, localVars, frameVars,
     sentVars
<1>8. ASSUME NEW S \in SUBSET Images, DestroyExternalImagesSyncWait(S)
      PROVE  UNCHANGED <<sentFrames, frames>>
  BY <1>8 DEF DestroyExternalImagesSyncWait, localVars, frameVars, sentVars
<1>9. CASE UNCHANGED <<sentFrames, frames>>
  BY <1>1, <1>9 DEF AllFrames
<1> QED BY <1>2, <1>3, <1>4, <1>5, <1>6, <1>7, <1>8, <1>9 DEF Next,
           RenderThreadStep, OtherThreads

(* The histories only grow.                                                 *)
LEMMA HistoryGrows ==
  ASSUME TypeOK, [Next]_vars
  PROVE  Len(issued) <= Len(issued') /\ used \subseteq used'
<1>1. ASSUME NEW i \in Images, NEW op \in Ops, AddRenderTextureOp(op, i)
      PROVE  Len(issued) <= Len(issued') /\ used' = used
  <2>1. /\ issued' = Append(issued, [op |-> op, texture |-> i])
        /\ issued \in Seq(Op) /\ used' = used
    BY <1>1 DEF AddRenderTextureOp, TypeOK, OtherTypeOK
  <2>2. [op |-> op, texture |-> i] \in Op
    BY DEF Op
  <2> QED BY <2>1, <2>2, AppendProperties, LenProperties
<1>2. ASSUME NEW i \in Images, RegisterExternalImage(i)
      PROVE  issued' = issued /\ used \subseteq used'
  BY <1>2 DEF RegisterExternalImage
<1>3. ASSUME NEW i \in Images,
             \/ LockImage(i) \/ UnregisterOnRenderThread(i)
             \/ UnregisterExternalImage(i)
      PROVE  UNCHANGED <<issued, used>>
  BY <1>3 DEF LockImage, UnregisterOnRenderThread, UnregisterExternalImage,
     otherVars, historyVars
<1>4. CASE HandleRenderTextureOps \/ HandleFrameOneDoc \/ RunRenderTextureOp
           \/ RenderTextureOpsDone \/ DeferredRenderTextureHostDestroy
           \/ DestroyExternalImages \/ DestroyHosts \/ HandleFrames
           \/ FramesDone \/ HandleFrameOneDoc_Skipped \/ BeginFrame
           \/ RenderDone \/ DeviceLost \/ RenderFails \/ ShutDownTask
           \/ CompositorFails \/ CompositorFailsWhenIdle
           \/ LastRendererRemoved \/ DestroyExternalImagesReturns
           \/ ShutDown \/ PostShutDownTask \/ ThreadJoined \/ UNCHANGED vars
  <2>1. UNCHANGED <<issued, used>>
    BY <1>4 DEF HandleRenderTextureOps, HandleFrameOneDoc, RunRenderTextureOp,
       RenderTextureOpsDone, DeferredRenderTextureHostDestroy,
       DestroyExternalImages, DestroyHosts, HandleFrames, FramesDone,
       HandleFrameOneDoc_Skipped, BeginFrame, RenderDone, DeviceLost,
       RenderFails, CompositorFails, CompositorFailsWhenIdle,
       ShutDownTask, LastRendererRemoved,
       DestroyExternalImagesReturns, ShutDown, PostShutDownTask, ThreadJoined,
       vars, otherVars, historyVars
  <2> QED BY <2>1, LenProperties DEF TypeOK, OtherTypeOK
<1>5. ASSUME NEW S \in SUBSET Images,
             SendFrame(S) \/ DestroyExternalImagesSyncWait(S)
      PROVE  UNCHANGED <<issued, used>>
  BY <1>5 DEF SendFrame, DestroyExternalImagesSyncWait, otherVars, historyVars
<1>6. CASE UNCHANGED <<issued, used>>
  BY <1>6, LenProperties DEF TypeOK, OtherTypeOK
<1> QED BY <1>1, <1>2, <1>3, <1>4, <1>5, <1>6, LenProperties DEF Next,
           RenderThreadStep, OtherThreads, TypeOK, OtherTypeOK

(* The frames that come and that are handled were sent behind the           *)
(* operations added until then.                                             *)
FramesBehindOps ==
  /\ \A k \in DOMAIN sentFrames : sentFrames[k].ops <= Len(issued)
  /\ \A k \in DOMAIN frames : frames[k].ops <= Len(issued)

(* A step keeps it: what was added stays added.                             *)
LEMMA StepFramesBehind ==
  ASSUME TypeOK, TypeOK', FramesBehindOps, [Next]_vars
  PROVE  FramesBehindOps'
<1>1. /\ Len(issued) \in Nat /\ Len(issued') \in Nat
      /\ Len(issued) <= Len(issued')
  BY HistoryGrows, LenProperties DEF TypeOK, OtherTypeOK
<1>2. \A f \in AllFrames : f.ops \in Nat /\ f.ops <= Len(issued)
  BY FramesOf DEF TypeOK, ThreadTypeOK, LocalTypeOK, FramesBehindOps, AllFrames
<1>3. \A f \in AllFrames' : f.ops <= Len(issued')
  BY <1>1, <1>2, StepFrames DEF From
<1> QED BY <1>3 DEF FramesBehindOps, AllFrames

(* What a frame locks was registered before it was sent.                    *)
FramesWereRegistered ==
  /\ \A k \in DOMAIN sentFrames : sentFrames[k].images \subseteq used
  /\ \A k \in DOMAIN frames : frames[k].images \subseteq used

(* A step keeps it: ids stay used, and what is sent is registered.          *)
LEMMA StepFramesWereRegistered ==
  ASSUME TypeOK, FramesWereRegistered, mRenderTextures \subseteq used,
         [Next]_vars
  PROVE  FramesWereRegistered'
<1>1. \A f \in AllFrames : f.images \subseteq used
  BY DEF FramesWereRegistered, AllFrames
<1>2. \A f \in AllFrames' : f.images \subseteq used'
  BY <1>1, StepFrames, HistoryGrows DEF From
<1> QED BY <1>2 DEF FramesWereRegistered, AllFrames

(* The frame being handled is behind the operations that have been run and  *)
(* those of the list taken for it.                                          *)
FrameAfterOps ==
  /\ pc = "frame_ops" =>
       frames[1].ops <= Len(applied) + Len(renderTextureOps) + 1 - nextOp
  /\ pc \in {"begin_frame", "render"} => frames[1].ops <= Len(applied)

(* A step keeps it: HandleFrameOneDoc takes all that had been added.        *)
LEMMA StepFrameAfterOps ==
  ASSUME TypeOK, OpsListInUse, OpsRunInOrder, FramesBehindOps, FrameAfterOps,
         [Next]_vars
  PROVE  FrameAfterOps'
<1>0. /\ frames \in Seq(Frame) /\ applied \in Seq(Op) /\ Len(applied) \in Nat
      /\ renderTextureOps \in Seq(Op) /\ Len(renderTextureOps) \in Nat
      /\ mRenderTextureOps \in Seq(Op) /\ Len(mRenderTextureOps) \in Nat
      /\ nextOp \in Nat
  BY LenProperties DEF TypeOK, RegistryTypeOK, LocalTypeOK, OtherTypeOK
<1>1. ASSUME frames # <<>>
      PROVE  1 \in DOMAIN frames /\ frames[1] \in Frame /\ frames[1].ops \in Nat
  <2>1. 1 \in DOMAIN frames
    BY <1>0, <1>1, EmptySeq, LenProperties
  <2> QED BY <1>0, <2>1, FramesOf
<1>2. pc \in {"frame_ops", "begin_frame", "render"} => frames # <<>>
  BY DEF TypeOK, LocalTypeOK
<1>3. ASSUME pc' \notin {"frame_ops", "begin_frame", "render"}
      PROVE  FrameAfterOps'
  BY <1>3 DEF FrameAfterOps
<1>4. ASSUME UNCHANGED <<pc, frames, applied, renderTextureOps, nextOp>>
      PROVE  FrameAfterOps'
  BY <1>4 DEF FrameAfterOps
<1>5. CASE HandleFrameOneDoc
  <2>1. /\ ~mHasShutdown /\ frames # <<>> /\ frames' = frames
        /\ renderTextureOps = <<>> /\ nextOp = 1 /\ applied' = applied
        /\ renderTextureOps' = mRenderTextureOps /\ nextOp' = 1
        /\ pc' = "frame_ops"
    BY <1>5 DEF HandleFrameOneDoc, FrameIsSkipped, OpsListInUse,
       OpsBeforeFrame, SwapRenderTextureOps, frameVars, otherVars, historyVars
  <2>2. Len(issued) = Len(applied) + Len(mRenderTextureOps)
    BY <2>1, KnownLength
  <2>3. frames[1].ops <= Len(issued)
    BY <1>1, <2>1 DEF FramesBehindOps
  <2> QED BY <1>0, <1>1, <2>1, <2>2, <2>3 DEF FrameAfterOps
<1>6. CASE RunRenderTextureOp
  <2>1. /\ nextOp \in 1..Len(renderTextureOps) /\ nextOp' = nextOp + 1
        /\ applied' = Append(applied, renderTextureOps[nextOp])
        /\ UNCHANGED <<pc, frames, renderTextureOps>>
        /\ pc \in {"ops", "frame_ops"}
    BY <1>0, <1>6 DEF RunRenderTextureOp, frameVars, TypeOK, LocalTypeOK
  <2>2. renderTextureOps[nextOp] \in Op
    BY <1>0, <2>1, ElementOfSeq
  <2>3. Len(applied') = Len(applied) + 1
    BY <1>0, <2>1, <2>2, AppendProperties
  <2> QED BY <1>0, <1>1, <1>2, <2>1, <2>3 DEF FrameAfterOps
<1>7. CASE RenderTextureOpsDone
  <2>1. /\ nextOp = Len(renderTextureOps) + 1
        /\ pc' = IF pc = "ops" THEN "idle" ELSE "begin_frame"
        /\ pc \in {"ops", "frame_ops"} /\ UNCHANGED <<frames, applied>>
    BY <1>0, <1>7 DEF RenderTextureOpsDone, OpsListInUse, frameVars, otherVars,
       historyVars
  <2> QED BY <1>0, <1>1, <1>2, <2>1 DEF FrameAfterOps
<1>8. CASE BeginFrame
  <2>1. /\ pc = "begin_frame" /\ pc' = "render"
        /\ UNCHANGED <<frames, applied>>
    BY <1>8 DEF BeginFrame, otherVars, historyVars
  <2> QED BY <2>1 DEF FrameAfterOps
<1>9. ASSUME NEW i \in Images, LockImage(i) PROVE FrameAfterOps'
  <2>1. /\ pc = "render" /\ pc' = "render" /\ applied' = applied
        /\ frames' = [frames EXCEPT ![1].images = @ \ {i}]
    BY <1>9 DEF LockImage, otherVars, historyVars
  <2>2. frames'[1].ops = frames[1].ops
    BY <1>1, <1>2, <2>1 DEF Frame
  <2> QED BY <2>1, <2>2 DEF FrameAfterOps
<1>10. CASE HandleRenderTextureOps \/ DestroyExternalImages \/ DestroyHosts
            \/ HandleFrames \/ FramesDone \/ RenderDone \/ DeviceLost
            \/ RenderFails
  BY <1>3, <1>10 DEF HandleRenderTextureOps, DestroyExternalImages, AfterLookup,
     DestroyHosts, HandleFrames, FramesDone, RenderDone, DeviceLost,
     RenderFails, FrameOver
<1>11. CASE HandleFrameOneDoc_Skipped
  BY <1>3, <1>11 DEF HandleFrameOneDoc_Skipped
<1>12. CASE DeferredRenderTextureHostDestroy \/ ShutDownTask
            \/ CompositorFails \/ CompositorFailsWhenIdle
            \/ LastRendererRemoved \/ DestroyExternalImagesReturns
            \/ ShutDown \/ PostShutDownTask \/ ThreadJoined \/ UNCHANGED vars
  BY <1>4, <1>12 DEF DeferredRenderTextureHostDestroy, ShutDownTask,
     CompositorFails, CompositorFailsWhenIdle,
     LastRendererRemoved, DestroyExternalImagesReturns, ShutDown,
     PostShutDownTask, ThreadJoined, vars, localVars, opListVars, frameVars,
     otherVars, historyVars
<1>13. ASSUME NEW i \in Images,
              \/ UnregisterOnRenderThread(i) \/ RegisterExternalImage(i)
              \/ UnregisterExternalImage(i)
              \/ \E op \in Ops : AddRenderTextureOp(op, i)
       PROVE  FrameAfterOps'
  BY <1>4, <1>13 DEF UnregisterOnRenderThread, RegisterExternalImage,
     UnregisterExternalImage, AddRenderTextureOp, localVars, opListVars,
     frameVars, otherVars, historyVars
<1>14. ASSUME NEW S \in SUBSET Images,
              SendFrame(S) \/ DestroyExternalImagesSyncWait(S)
       PROVE  FrameAfterOps'
  BY <1>4, <1>14 DEF SendFrame, DestroyExternalImagesSyncWait, localVars,
     opListVars, frameVars, otherVars, historyVars
<1> QED BY <1>5, <1>6, <1>7, <1>8, <1>9, <1>10, <1>11, <1>12, <1>13, <1>14
    DEF Next, RenderThreadStep, OtherThreads

(* Frames follow the operations added before they were sent.                *)
LEMMA StepFramesFollowOps ==
  ASSUME TypeOK, TypeOK', OpsListInUse, OpsRunInOrder, FramesFollowOps,
         [Next]_vars
  PROVE  FramesFollowOps'
<1>1. FramesBehindOps /\ FrameAfterOps
  BY DEF FramesFollowOps, FramesBehindOps, FrameAfterOps
<1>2. FramesBehindOps' /\ FrameAfterOps'
  BY <1>1, StepFramesBehind, StepFrameAfterOps
<1> QED BY <1>2 DEF FramesFollowOps, FramesBehindOps, FrameAfterOps

-----------------------------------------------------------------------------
(* The synchronisation of a frame                                           *)

(* A host that needs it is listed as long as it is registered.              *)
LEMMA StepNeeded ==
  ASSUME mRenderTextures \cap SyncObjectHosts
           \subseteq mSyncObjectNeededRenderTextures,
         [Next]_vars
  PROVE  (mRenderTextures \cap SyncObjectHosts
            \subseteq mSyncObjectNeededRenderTextures)'
<1>1. ASSUME NEW i \in Images,
             \/ RegisterExternalImage(i) \/ UnregisterExternalImage(i)
             \/ UnregisterOnRenderThread(i)
      PROVE  \/ /\ mRenderTextures' = mRenderTextures \cup {i}
                /\ mSyncObjectNeededRenderTextures' =
                     mSyncObjectNeededRenderTextures
                       \cup {j \in {i} : j \in SyncObjectHosts}
             \/ /\ mRenderTextures' = mRenderTextures \ {i}
                /\ mSyncObjectNeededRenderTextures' =
                     mSyncObjectNeededRenderTextures \ {i}
  BY <1>1 DEF RegisterExternalImage, SyncObjectNeeded, UnregisterExternalImage,
     UnregisterOnRenderThread
<1>2. CASE HandleRenderTextureOps \/ HandleFrameOneDoc \/ RunRenderTextureOp
           \/ RenderTextureOpsDone \/ DeferredRenderTextureHostDestroy
           \/ DestroyExternalImages \/ DestroyHosts \/ HandleFrames
           \/ FramesDone \/ HandleFrameOneDoc_Skipped \/ BeginFrame
           \/ RenderDone \/ DeviceLost \/ RenderFails \/ LastRendererRemoved
           \/ CompositorFails \/ CompositorFailsWhenIdle
           \/ DestroyExternalImagesReturns
           \/ ShutDown \/ PostShutDownTask \/ ThreadJoined \/ UNCHANGED vars
  BY <1>2 DEF HandleRenderTextureOps, HandleFrameOneDoc, RunRenderTextureOp,
     RenderTextureOpsDone, DeferredRenderTextureHostDestroy,
     DestroyExternalImages, DestroyHosts, HandleFrames, FramesDone,
     HandleFrameOneDoc_Skipped, BeginFrame, RenderDone, DeviceLost,
     RenderFails, LastRendererRemoved, DestroyExternalImagesReturns, ShutDown,
     CompositorFails, CompositorFailsWhenIdle,
     PostShutDownTask, ThreadJoined, vars, registryVars, mapVars
<1>3. CASE ShutDownTask
  BY <1>3 DEF ShutDownTask
<1>4. ASSUME NEW i \in Images,
             LockImage(i) \/ \E op \in Ops : AddRenderTextureOp(op, i)
      PROVE  UNCHANGED <<mRenderTextures, mSyncObjectNeededRenderTextures>>
  BY <1>4 DEF LockImage, AddRenderTextureOp, registryVars, mapVars
<1>5. ASSUME NEW S \in SUBSET Images,
             SendFrame(S) \/ DestroyExternalImagesSyncWait(S)
      PROVE  UNCHANGED <<mRenderTextures, mSyncObjectNeededRenderTextures>>
  BY <1>5 DEF SendFrame, DestroyExternalImagesSyncWait, registryVars, mapVars
<1> QED BY <1>1, <1>2, <1>3, <1>4, <1>5 DEF Next, RenderThreadStep,
           OtherThreads

(* The frame being rendered has synchronised if an image that it locks and  *)
(* that is still registered needs it: what is registered now was not when   *)
(* the frame was sent.                                                      *)
LEMMA StepSynced ==
  ASSUME TypeOK, FramesAreSynced, mRenderTextures \subseteq used, [Next]_vars,
         NEW j \in SyncObjectHosts, pc' = "render",
         j \in frames'[1].images, j \in mRenderTextures'
  PROVE  synced'
<1>0. /\ frames \in Seq(Frame) /\ Len(frames) \in Nat
      /\ pc \in {"begin_frame", "render"} => frames # <<>>
  BY LenProperties DEF TypeOK, LocalTypeOK
<1>1. ASSUME frames # <<>>
      PROVE  /\ frames[1] \in Frame /\ frames[1].images \subseteq used
             /\ 1 \in DOMAIN frames
  <2>1. 1 \in DOMAIN frames
    BY <1>0, <1>1, EmptySeq, LenProperties
  <2> QED BY <1>0, <2>1, FramesOf DEF FramesAreSynced
<1>2. ASSUME pc = "render", j \in frames[1].images, j \in mRenderTextures
      PROVE  synced
  BY <1>2 DEF FramesAreSynced
<1>3. CASE UNCHANGED <<pc, frames, synced>> /\ mRenderTextures' \subseteq mRenderTextures
  BY <1>2, <1>3
<1>4. CASE BeginFrame
  <2>1. /\ synced' = (mSyncObjectNeededRenderTextures # {})
        /\ mRenderTextures' = mRenderTextures
    BY <1>4 DEF BeginFrame, registryVars, mapVars
  <2> QED BY <2>1 DEF FramesAreSynced
<1>5. ASSUME NEW i \in Images, LockImage(i) PROVE synced'
  <2>1. /\ pc = "render" /\ synced' = synced
        /\ frames' = [frames EXCEPT ![1].images = @ \ {i}]
        /\ mRenderTextures' = mRenderTextures
    BY <1>5 DEF LockImage, registryVars, mapVars
  <2>2. frames'[1].images = frames[1].images \ {i}
    BY <1>0, <1>1, <2>1 DEF Frame
  <2> QED BY <1>2, <2>1, <2>2
<1>6. ASSUME NEW i \in Images, RegisterExternalImage(i) PROVE synced'
  <2>1. /\ i \notin used /\ mRenderTextures' = mRenderTextures \cup {i}
        /\ UNCHANGED <<pc, frames, synced>>
    BY <1>6 DEF RegisterExternalImage, localVars, frameVars
  <2>2. frames # <<>>
    BY <1>0, <2>1
  <2> QED BY <1>1, <1>2, <2>1, <2>2
<1>7. ASSUME NEW i \in Images,
             \/ UnregisterOnRenderThread(i) \/ UnregisterExternalImage(i)
             \/ \E op \in Ops : AddRenderTextureOp(op, i)
      PROVE  synced'
  <2>1. UNCHANGED <<pc, frames, synced>> /\ mRenderTextures' \subseteq mRenderTextures
    BY <1>7 DEF UnregisterOnRenderThread, UnregisterExternalImage,
       AddRenderTextureOp, localVars, frameVars, mapVars
  <2> QED BY <1>3, <2>1
<1>8. CASE HandleRenderTextureOps \/ HandleFrameOneDoc \/ RenderTextureOpsDone
           \/ DestroyExternalImages \/ DestroyHosts \/ HandleFrames
           \/ FramesDone \/ RenderDone \/ DeviceLost \/ RenderFails
  <2>1. pc' # "render"
    BY <1>8 DEF HandleRenderTextureOps, HandleFrameOneDoc,
       RenderTextureOpsDone, DestroyExternalImages, AfterLookup, DestroyHosts,
       HandleFrames, FramesDone, RenderDone, DeviceLost, RenderFails, FrameOver
  <2> QED BY <2>1
<1>9. CASE RunRenderTextureOp \/ HandleFrameOneDoc_Skipped
  <2>1. pc # "render" /\ pc' = pc
    BY <1>9 DEF RunRenderTextureOp, HandleFrameOneDoc_Skipped
  <2> QED BY <2>1
<1>10. CASE DeferredRenderTextureHostDestroy \/ ShutDownTask
            \/ CompositorFails \/ CompositorFailsWhenIdle
            \/ LastRendererRemoved \/ DestroyExternalImagesReturns
            \/ ShutDown \/ PostShutDownTask \/ ThreadJoined \/ UNCHANGED vars
  <2>1. UNCHANGED <<pc, frames, synced>> /\ mRenderTextures' \subseteq mRenderTextures
    BY <1>10 DEF DeferredRenderTextureHostDestroy, ShutDownTask,
       CompositorFails, CompositorFailsWhenIdle,
       LastRendererRemoved, DestroyExternalImagesReturns, ShutDown,
       PostShutDownTask, ThreadJoined, vars, localVars, frameVars,
       registryVars, mapVars
  <2> QED BY <1>3, <2>1
<1>11. ASSUME NEW S \in SUBSET Images,
              SendFrame(S) \/ DestroyExternalImagesSyncWait(S)
       PROVE  synced'
  <2>1. UNCHANGED <<pc, frames, synced, mRenderTextures>>
    BY <1>11 DEF SendFrame, DestroyExternalImagesSyncWait, localVars,
       frameVars, registryVars, mapVars
  <2> QED BY <1>3, <2>1
<1> QED BY <1>4, <1>5, <1>6, <1>7, <1>8, <1>9, <1>10, <1>11 DEF Next,
           RenderThreadStep, OtherThreads

(* The three together.                                                      *)
LEMMA StepFramesAreSynced ==
  ASSUME TypeOK, FramesAreSynced, mRenderTextures \subseteq used, [Next]_vars
  PROVE  FramesAreSynced'
<1>1. FramesWereRegistered'
  BY StepFramesWereRegistered DEF FramesAreSynced, FramesWereRegistered
<1>2. (mRenderTextures \cap SyncObjectHosts
         \subseteq mSyncObjectNeededRenderTextures)'
  BY StepNeeded DEF FramesAreSynced
<1>3. pc' = "render" => \A j \in frames'[1].images \cap SyncObjectHosts :
                          j \in mRenderTextures' => synced'
  BY StepSynced
<1> QED BY <1>1, <1>2, <1>3 DEF FramesAreSynced, FramesWereRegistered

-----------------------------------------------------------------------------
(* The resources of a lost device                                           *)

(* The steps that change a host, or which is registered, are these.         *)
LEMMA StepHostVars ==
  ASSUME [Next]_vars
  PROVE  \/ /\ UNCHANGED <<mTextureHost, cached, stale, locked, used>>
            /\ mRenderTextures' \subseteq mRenderTextures
         \/ \E i \in Images : RegisterExternalImage(i) \/ LockImage(i)
         \/ RenderDone \/ DeviceLost \/ RenderFails
         \/ CompositorFails \/ CompositorFailsWhenIdle
<1>1. CASE HandleRenderTextureOps \/ HandleFrameOneDoc \/ RunRenderTextureOp
           \/ RenderTextureOpsDone \/ DeferredRenderTextureHostDestroy
           \/ DestroyExternalImages \/ DestroyHosts \/ HandleFrames
           \/ FramesDone \/ HandleFrameOneDoc_Skipped \/ BeginFrame
           \/ ShutDownTask \/ LastRendererRemoved
           \/ DestroyExternalImagesReturns \/ ShutDown \/ PostShutDownTask
           \/ ThreadJoined \/ UNCHANGED vars
  BY <1>1 DEF HandleRenderTextureOps, HandleFrameOneDoc, RunRenderTextureOp,
     RenderTextureOpsDone, DeferredRenderTextureHostDestroy,
     DestroyExternalImages, DestroyHosts, HandleFrames, FramesDone,
     HandleFrameOneDoc_Skipped, BeginFrame, ShutDownTask, LastRendererRemoved,
     DestroyExternalImagesReturns, ShutDown, PostShutDownTask, ThreadJoined,
     vars, registryVars, mapVars, hostVars, localVars, frameVars, otherVars,
     historyVars
<1>2. ASSUME NEW i \in Images,
             \/ UnregisterOnRenderThread(i) \/ UnregisterExternalImage(i)
             \/ \E op \in Ops : AddRenderTextureOp(op, i)
      PROVE  /\ UNCHANGED <<mTextureHost, cached, stale, locked, used>>
             /\ mRenderTextures' \subseteq mRenderTextures
  BY <1>2 DEF UnregisterOnRenderThread, UnregisterExternalImage,
     AddRenderTextureOp, mapVars, hostVars, localVars, frameVars, otherVars,
     historyVars
<1>3. ASSUME NEW S \in SUBSET Images,
             SendFrame(S) \/ DestroyExternalImagesSyncWait(S)
      PROVE  UNCHANGED <<mTextureHost, cached, stale, locked, used,
                         mRenderTextures>>
  BY <1>3 DEF SendFrame, DestroyExternalImagesSyncWait, registryVars, mapVars,
     hostVars, localVars, frameVars, otherVars, historyVars
<1> QED BY <1>1, <1>2, <1>3 DEF Next, RenderThreadStep, OtherThreads

(* Registering does not bring a stale host back: the id is new, and a       *)
(* wrapper forwards to a host that is registered.                           *)
LEMMA RegisterNoneIsStale ==
  ASSUME TypeOK, NoneIsStale, NEW i \in Images, RegisterExternalImage(i)
  PROVE  NoneIsStale'
<1>1. /\ i \notin used /\ used' = used \cup {i}
      /\ mRenderTextures' = mRenderTextures \cup {i}
      /\ UNCHANGED <<cached, stale, locked>>
  BY DEF RegisterExternalImage, localVars, frameVars
<1>2. mTextureHost \in [Wrappers -> Images \cup {NoImage}]
  BY DEF TypeOK, HostTypeOK
<1>3. \A w \in Wrappers : \/ w # i /\ mTextureHost'[w] = mTextureHost[w]
                          \/ w = i /\ mTextureHost'[w] \in
                                         mRenderTextures \cup {NoImage}
  <2>1. CASE i \notin Wrappers
    BY <2>1 DEF RegisterExternalImage, EnsureTextureHost
  <2>2. CASE i \in Wrappers
    <3>1. PICK j \in Images \ Wrappers :
            mTextureHost' = [mTextureHost EXCEPT ![i] =
                               IF j \in mRenderTextures THEN j ELSE NoImage]
      BY <2>2 DEF RegisterExternalImage, EnsureTextureHost
    <3> QED BY <1>2, <3>1
  <2> QED BY <2>1, <2>2
<1>4. HostsOf(mRenderTextures)' \subseteq HostsOf(mRenderTextures) \cup {i}
  BY <1>1, <1>3 DEF HostsOf
<1> QED BY <1>1, <1>3, <1>4 DEF NoneIsStale

(* A frame locks hosts of registered images, which are not stale.           *)
LEMMA LockNoneIsStale ==
  ASSUME NoneIsStale, NEW i \in Images, LockImage(i)
  PROVE  NoneIsStale'
<1>1. /\ UNCHANGED <<mTextureHost, stale, used, mRenderTextures>>
      /\ locked' \subseteq locked \cup HostsOf(mRenderTextures)
      /\ cached' \subseteq cached \cup HostsOf(mRenderTextures)
  BY DEF LockImage, HostsOf, registryVars, mapVars, otherVars, historyVars
<1>2. HostsOf(mRenderTextures) \subseteq used
  BY DEF HostsOf, NoneIsStale
<1>3. HostsOf(mRenderTextures)' = HostsOf(mRenderTextures)
  BY <1>1 DEF HostsOf
<1> QED BY <1>1, <1>2, <1>3 DEF NoneIsStale

(* No step makes a registered or locked host stale.                         *)
LEMMA StepNoneIsStale ==
  ASSUME TypeOK, NoneIsStale, [Next]_vars
  PROVE  NoneIsStale'
<1>1. ASSUME UNCHANGED <<mTextureHost, used>>,
             mRenderTextures' \subseteq mRenderTextures,
             cached' \subseteq cached,
             stale' \subseteq stale \cup cached,
             HostsOf(mRenderTextures) \cap stale' = {},
             locked' \cap stale' = {}
      PROVE  NoneIsStale'
  <2>1. HostsOf(mRenderTextures)' \subseteq HostsOf(mRenderTextures)
    BY <1>1 DEF HostsOf
  <2> QED BY <1>1, <2>1 DEF NoneIsStale
<1>2. CASE /\ UNCHANGED <<mTextureHost, cached, stale, locked, used>>
           /\ mRenderTextures' \subseteq mRenderTextures
  BY <1>1, <1>2 DEF NoneIsStale
<1>3. CASE RenderDone
  BY <1>1, <1>3 DEF RenderDone, FrameOver, hostVars, registryVars, mapVars,
     otherVars, historyVars, NoneIsStale
<1>4. CASE DeviceLost
  BY <1>1, <1>4 DEF DeviceLost, FrameOver, ClearCachedResources, historyVars
<1>5. CASE RenderFails
  <2>1. /\ UNCHANGED <<mTextureHost, used, mRenderTextures, stale>>
        /\ cached' \subseteq cached /\ locked' = {}
    BY <1>5, HandleErrorClears DEF RenderFails, FrameOver, historyVars
  <2> QED BY <1>1, <2>1 DEF NoneIsStale
<1>6. CASE CompositorFails \/ CompositorFailsWhenIdle
  <2>1. /\ UNCHANGED <<mTextureHost, used, mRenderTextures, stale, locked>>
        /\ cached' \subseteq cached
    BY <1>6, HandleErrorClears
    DEF CompositorFails, CompositorFailsWhenIdle, historyVars, localVars,
        frameVars
  <2> QED BY <1>1, <2>1 DEF NoneIsStale
<1> QED BY <1>2, <1>3, <1>4, <1>5, <1>6, StepHostVars, RegisterNoneIsStale,
           LockNoneIsStale

-----------------------------------------------------------------------------
(* The second invariant holds, and what follows from it                     *)

(* It holds initially.                                                      *)
LEMMA InitOpsInv == Init => OpsInv
<1> SUFFICES ASSUME Init PROVE OpsInv
  OBVIOUS
<1>0. <<>> \in Seq(Op) /\ Len(<<>>) = 0 /\ DOMAIN <<>> = {}
  BY EmptySeq
<1>1. OpsListInUse
  BY <1>0 DEF Init, OpsListInUse
<1>2. OneShutDownTask /\ EmptiedAtExit
  BY <1>0 DEF Init, OneShutDownTask, EmptiedAtExit
<1>3. OpsRunInOrder
  <2>1. TypeOK
    BY InitTypeOK
  <2>2. Rest = <<>> /\ applied = <<>> /\ mRenderTextureOps = <<>>
        /\ issued = <<>>
    BY <1>0, <2>1, RestType DEF TypeOK, Init
  <2>3. KnownOps = issued
    BY <1>0, <2>2, ConcatEmptySeq DEF KnownOps
  <2> QED BY <2>3, InOrderMeans
<1>4. FramesFollowOps /\ FramesAreSynced
  BY <1>0 DEF Init, FramesFollowOps, FramesAreSynced
<1>5. NoneIsStale
  BY DEF Init, NoneIsStale, HostsOf
<1> QED BY <1>1, <1>2, <1>3, <1>4, <1>5 DEF OpsInv

(* A step keeps it.                                                         *)
LEMMA NextOpsInv == TypeOK /\ TypeOK' /\ OpsInv /\ [Next]_vars => OpsInv'
<1> SUFFICES ASSUME TypeOK, TypeOK', OpsInv, [Next]_vars PROVE OpsInv'
  OBVIOUS
<1>1. OpsListInUse'
  BY StepListInUse DEF OpsInv
<1>2. OneShutDownTask' /\ EmptiedAtExit'
  BY StepShutDownTask, StepEmptied DEF OpsInv
<1>3. OpsRunInOrder'
  BY StepOrder DEF OpsInv
<1>4. FramesFollowOps'
  BY StepFramesFollowOps DEF OpsInv
<1>5. FramesAreSynced'
  BY StepFramesAreSynced DEF OpsInv, NoneIsStale
<1>6. NoneIsStale'
  BY StepNoneIsStale DEF OpsInv
<1> QED BY <1>1, <1>2, <1>3, <1>4, <1>5, <1>6 DEF OpsInv

(* The second invariant of the registry, of operations, frames and exit.    *)
THEOREM OpsInvariant == Spec => []OpsInv
<1>1. TypeOK /\ TypeOK' /\ OpsInv /\ [Next]_vars => OpsInv'
  BY NextOpsInv
<1> QED BY <1>1, InitOpsInv, TypeCorrect, PTL DEF Spec

(* The operations added for the hosts are run once each and in order, by    *)
(* their own runnable or before a frame, until ShutDownTask drops the rest. *)
THEOREM OperationsRunInOrder == Spec => []OpsRunInOrder
<1>1. OpsInv => OpsRunInOrder
  BY DEF OpsInv
<1> QED BY <1>1, OpsInvariant, PTL

(* When a frame locks its images, what was added for them before it was     *)
(* sent has been run (HandleFrameOneDoc calls HandleRenderTextureOps).      *)
THEOREM OperationsRunBeforeLock == Spec => []OpsRunBeforeLock
<1>1. TypeOK /\ OpsInv => OpsRunBeforeLock
  <2>1. ASSUME TypeOK, OpsInv, pc = "render"
        PROVE  Len(applied) >= frames[1].ops
    <3>1. frames[1].ops <= Len(applied)
      BY <2>1 DEF OpsInv, FramesFollowOps
    <3>2. Len(applied) \in Nat /\ 1 \in DOMAIN frames /\ frames \in Seq(Frame)
      BY <2>1, EmptySeq, LenProperties DEF TypeOK, LocalTypeOK, OtherTypeOK
    <3>3. frames[1].ops \in Nat
      BY <3>2, FramesOf
    <3> QED BY <3>1, <3>2, <3>3
  <2> QED BY <2>1 DEF OpsRunBeforeLock
<1> QED BY <1>1, OpsInvariant, TypeCorrect, PTL

(* No frame locks a host that still has resources of a lost device: those   *)
(* registered were told in HandleDeviceReset (ClearCachedResources).        *)
THEOREM LockedHostsStayFresh == Spec => []LockedHostsAreNotStale
<1>1. OpsInv => LockedHostsAreNotStale
  BY DEF OpsInv, NoneIsStale, LockedHostsAreNotStale
<1> QED BY <1>1, OpsInvariant, PTL

(* When the thread has been joined nothing refers to a host, so that none   *)
(* is destroyed on the main thread.                                         *)
THEOREM NothingIsLeftAtExit == Spec => []NothingLeftAtExit
<1>1. OpsInv => NothingLeftAtExit
  <2>1. ASSUME OpsInv, main = "joined" PROVE Alive = {}
    <3>1. DOMAIN <<>> = {}
      BY EmptySeq
    <3>2. mThread = <<>> /\ pc = "idle" /\ hosts = {}
      BY <2>1 DEF OpsInv, EmptiedAtExit
    <3>3. ShutDownTaskHasRun
      BY <2>1, <3>1, <3>2 DEF ShutDownTaskHasRun
    <3>4. /\ mRenderTextures = {} /\ mSyncObjectNeededRenderTextures = {}
          /\ mRenderTexturesDeferred = {} /\ mRenderTextureOps = <<>>
      BY <2>1, <3>3 DEF OpsInv, EmptiedAtExit
    <3>5. renderTextureOps = <<>>
      BY <2>1, <3>2 DEF OpsInv, OpsListInUse
    <3>6. Held = {}
      BY <3>1, <3>2, <3>4, <3>5 DEF Held, Textures
    <3> QED BY <3>6 DEF Alive, HostsOf
  <2> QED BY <2>1 DEF NothingLeftAtExit
<1> QED BY <1>1, OpsInvariant, PTL

(* A frame that locks a host which needs the sync object has synchronised   *)
(* before, whatever other threads registered since it was sent.             *)
THEOREM LocksAreSynced == Spec => SyncedBeforeLock
<1> DEFINE A == \A i \in SyncObjectHosts :
                  LockImage(i) /\ i \in mRenderTextures => synced
<1>1. OpsInv => A
  BY DEF OpsInv, FramesAreSynced, LockImage
<1>2. OpsInv => [A]_vars
  BY <1>1
<1> QED BY <1>2, OpsInvariant, PTL DEF SyncedBeforeLock
=============================================================================
