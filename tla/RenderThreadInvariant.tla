----------------------- MODULE RenderThreadInvariant ------------------------
(***************************************************************************)
(* The inductive invariant behind FramesAccounted and PendingFramesBounded *)
(* (module RenderThread).                                                  *)
(*                                                                         *)
(* Frames are numbered 1, 2, ... per window in the order the compositor    *)
(* asks for them.  Frames up to Done(w) have been handled; the others are, *)
(* in order, in the events queue, in the pending events, in the backend's  *)
(* hands (busy), or still a message to the backend.                        *)
(***************************************************************************)
EXTENDS RenderThread

(* Queues of events: the frames of q are numbered upwards, after `lo' and   *)
(* up to `hi'; those of p come before those of q; frame n is in q.          *)
Ordered(q, lo, hi) ==
  /\ \A i \in 1..Len(q) : IsFrame(q[i]) => lo < q[i].id /\ q[i].id <= hi
  /\ \A i, j \in 1..Len(q) : i < j /\ IsFrame(q[i]) /\ IsFrame(q[j]) => q[i].id < q[j].id

Before(p, q) ==
  \A i \in 1..Len(p), j \in 1..Len(q) :
    IsFrame(p[i]) /\ IsFrame(q[j]) => p[i].id < q[j].id

Contains(q, n) == \E i \in 1..Len(q) : IsFrame(q[i]) /\ q[i].id = n

(* Messages to the backend: q asks for no frame but n, and for that once.   *)
AsksFor(m) == m.tag = "GenerateFrame"

AsksOnlyFor(q, n) ==
  /\ \A i \in 1..Len(q) : AsksFor(q[i]) => q[i].id = n
  /\ \A i, j \in 1..Len(q) : AsksFor(q[i]) /\ AsksFor(q[j]) => i = j

AsksForSome(q) == \E i \in 1..Len(q) : AsksFor(q[i])

-----------------------------------------------------------------------------
Done(w) == issued[w] - Len(mPendingFrames[w])

(* The frames whose NewFrameReady event has been posted.                    *)
Announced(w) == IF busy[w] = 0 THEN built[w] ELSE built[w] - 1

(* mPendingFrames is exactly the frames asked for and not yet handled, and  *)
(* mPendingFrameBuild counts those not yet built, at most one.              *)
Counts(w) ==
  /\ 0 <= Done(w) /\ Done(w) <= built[w]
  /\ \A i \in 1..Len(mPendingFrames[w]) : mPendingFrames[w][i] = Done(w) + i
  /\ mPendingFrameBuild[w] = issued[w] - built[w]
  /\ mPendingFrameBuild[w] <= 1
  /\ Len(mPendingFrames[w]) <= 2

InBackend(w) ==
  /\ AsksOnlyFor(backend[w], issued[w])
  /\ AsksForSome(backend[w]) => issued[w] = built[w] + 1
  /\ busy[w] # 0 => busy[w] = built[w] /\ busy[w] > Done(w)

InOrder(w) ==
  /\ Ordered(events[w], Done(w), Announced(w))
  /\ Ordered(mPendingWrNotifierEvents[w], Done(w), Announced(w))
  /\ Before(events[w], mPendingWrNotifierEvents[w])

(* Until shutdown, no frame that was announced and not handled is missing.  *)
NoneMissing(w) ==
  mHasShutdown \/ \A n \in 1..Announced(w) : Done(w) < n
    => Contains(events[w], n) \/ Contains(mPendingWrNotifierEvents[w], n)

WindowOK(w) == Counts(w) /\ InBackend(w) /\ InOrder(w) /\ NoneMissing(w)

-----------------------------------------------------------------------------
(* A window is added once: as long as its NewRenderer is to come it is as   *)
(* it was at the start, and when its queue is erased its entry is gone.     *)
Queued(tag, w) == \E i \in 1..Len(mThread) : mThread[i] = Run(tag, w)

QueuedOnce(tag, w) ==
  \A i, j \in 1..Len(mThread) :
    mThread[i] = Run(tag, w) /\ mThread[j] = Run(tag, w) => i = j

Fresh(w) ==
  /\ w \notin mWindowInfos /\ w \notin docHandle
  /\ life[w] \in {"unused", "creating", "dead"}
  /\ events[w] = <<>> /\ mPendingWrNotifierEvents[w] = <<>>
  /\ backend[w] = <<>> /\ busy[w] = 0 /\ issued[w] = 0 /\ built[w] = 0

AddedOnce(w) ==
  /\ life[w] = "unused" => Fresh(w) /\ ~Queued("NewRenderer", w)
  /\ Queued("NewRenderer", w) => Fresh(w)
  /\ QueuedOnce("NewRenderer", w)
  /\ w \in mWindowInfos => w \in docHandle
  /\ w \notin mWindowInfos => mPendingFrames[w] = <<>> /\ mPendingFrameBuild[w] = 0
  /\ Queued("EraseQueue", w) => w \in docHandle \ mWindowInfos

(* Only the compositor thread adds frames, so what TooManyPendingFrames has *)
(* found still holds when the frame is counted.                             *)
Accepted ==
  comp.op = "accepted" =>
    /\ life[comp.window] = "live"
    /\ comp.window \in mWindowInfos =>
         mPendingFrameBuild[comp.window] = 0 /\ Len(mPendingFrames[comp.window]) <= 1

(* The frame being handled is the oldest pending one.                       *)
Handling ==
  /\ pc # "idle" => cur \in docHandle
  /\ pc \in {"render", "rendering", "handled"} => events[cur] # <<>>
  /\ HandlingFrame => /\ Head(events[cur]).id = Done(cur) + 1
                      /\ Len(mPendingFrames[cur]) > 0
                      /\ pc = "rendering" => frame = Head(events[cur]).id

IInv ==
  /\ TypeOK
  /\ \A w \in Windows : AddedOnce(w)
  /\ \A w \in mWindowInfos : WindowOK(w)
  /\ Accepted
  /\ Handling
=============================================================================
