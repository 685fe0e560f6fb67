----------------------- MODULE RenderTexturesInvariant -----------------------
(***************************************************************************)
(* The inductive invariant behind the safety properties of RenderTextures. *)
(***************************************************************************)
EXTENDS RenderTextures

(* A host that is referenced has been registered: ids are used once.        *)
HeldWasRegistered == Held \subseteq used

(* What is locked is locked by the frame being rendered, and referenced by  *)
(* the two maps, unless the handling of an error dropped it during the      *)
(* frame; which needs the flag, that stays set while the frame lasts.       *)
LockedIsReferenced ==
  /\ locked # {} => pc = "render"
  /\ dropped # {} => pc = "render" /\ mHandlingWebRenderError
  /\ locked \subseteq HostsOf(mRenderTextures \cup mRenderTexturesDeferred)
                     \cup dropped

(* ShutDownTask is queued after ShutDown only.                              *)
ShutDownTaskOnlyOnceShut == ~mHasShutdown =>
  \A k \in DOMAIN mThread : mThread[k] # "ShutDownTask"

(* A wait has one runnable, which is queued, then runs, then has completed. *)
Destroying == {k \in DOMAIN mThread : mThread[k] = "DestroyExternalImages"}

OneDestruction ==
  /\ \A k, l \in Destroying : k = l
  /\ pc = "destroy" \/ taskDone \/ waiting = {} => Destroying = {}
  /\ taskDone => pc # "destroy"
  /\ waiting = {} => pc # "destroy" /\ ~taskDone

(* No frame is being rendered, and none will be.                            *)
NoMoreFrames ==
  mHasShutdown /\ pc \notin {"frame_ops", "begin_frame", "render"}

DestroyedOrNoMoreFrames ==
  /\ ~mHasShutdown => waiting \subseteq mRenderTextures
  /\ pc = "destroy" => waiting \subseteq hosts \/ mHasShutdown
  /\ taskDone => waiting \subseteq mDestroyed \/ NoMoreFrames
  /\ freed \subseteq mDestroyed \/ NoMoreFrames
  /\ locked \cap mDestroyed = {}

Inv == /\ HeldWasRegistered
       /\ LockedIsReferenced
       /\ ShutDownTaskOnlyOnceShut
       /\ OneDestruction
       /\ DestroyedOrNoMoreFrames

-----------------------------------------------------------------------------
(* The second invariant, of operations, frames and the exit.                *)

(* A local list of operations is there only while it is run through.        *)
OpsListInUse ==
  /\ pc \notin {"ops", "frame_ops"} => renderTextureOps = <<>> /\ nextOp = 1
  /\ nextOp <= Len(renderTextureOps) + 1

(* ShutDownTask is queued once; behind it every list is and stays empty.    *)
OneShutDownTask ==
  /\ main \in {"running", "shut_down"} =>
       \A k \in DOMAIN mThread : mThread[k] # "ShutDownTask"
  /\ \A k, l \in DOMAIN mThread :
       mThread[k] = "ShutDownTask" /\ mThread[l] = "ShutDownTask" => k = l

EmptiedAtExit ==
  /\ ShutDownTaskHasRun => /\ mRenderTextures = {}
                           /\ mSyncObjectNeededRenderTextures = {}
                           /\ mRenderTexturesDeferred = {}
                           /\ mRenderTextureOps = <<>>
  /\ pc # "destroy" => hosts = {}
  /\ main = "joined" => mThread = <<>> /\ pc = "idle"

(* A frame was sent behind operations that had been added.                  *)
FramesFollowOps ==
  /\ \A k \in DOMAIN sentFrames : sentFrames[k].ops <= Len(issued)
  /\ \A k \in DOMAIN frames : frames[k].ops <= Len(issued)
  /\ pc = "frame_ops" =>
       frames[1].ops <= Len(applied) + Len(renderTextureOps) + 1 - nextOp
  /\ pc \in {"begin_frame", "render"} => frames[1].ops <= Len(applied)

(* What a frame locks was registered when it was sent, hence before it was  *)
(* synchronised: an id registered later is another one.                     *)
FramesAreSynced ==
  /\ mRenderTextures \cap SyncObjectHosts
       \subseteq mSyncObjectNeededRenderTextures
  /\ \A k \in DOMAIN sentFrames : sentFrames[k].images \subseteq used
  /\ \A k \in DOMAIN frames : frames[k].images \subseteq used
  /\ pc = "render" => \A i \in frames[1].images \cap SyncObjectHosts :
                        i \in mRenderTextures => synced

(* No registered host has resources of a lost device: those that had were   *)
(* told, and a new id, which is not in use yet, cannot have any.            *)
NoneIsStale ==
  /\ \A i \in Wrappers : mTextureHost[i] \in used \cup {NoImage}
  /\ mRenderTextures \subseteq used
  /\ cached \subseteq used /\ stale \subseteq used
  /\ HostsOf(mRenderTextures) \cap stale = {}
  /\ locked \cap stale = {}

OpsInv == /\ OpsListInUse
          /\ OneShutDownTask
          /\ EmptiedAtExit
          /\ OpsRunInOrder
          /\ FramesFollowOps
          /\ FramesAreSynced
          /\ NoneIsStale
=============================================================================
