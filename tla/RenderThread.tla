---------------------------- MODULE RenderThread ----------------------------
(***************************************************************************)
(* The render thread of WebRender's Gecko bindings (RenderThread.cpp/.h),  *)
(* with the threads that talk to it:                                       *)
(*                                                                         *)
(*  - the compositor thread creates and destroys renderers, asks for       *)
(*    frames and waits for synchronous tasks (WebRenderAPI.cpp);           *)
(*  - one WebRender render backend per window builds the frames and posts  *)
(*    notifier events (the wr_notifier_* functions);                       *)
(*  - the main thread shuts the render thread down;                        *)
(*  - the render thread runs one runnable of its queue after the other.    *)
(*                                                                         *)
(* Every critical section of the code (a DataMutex scope, a dispatch, a    *)
(* channel send) is one atomic step or part of one.                        *)
(***************************************************************************)
EXTENDS Integers, Sequences

CONSTANTS
  Windows,        \* the window ids; NewWindowId() never hands one out twice
  NoWindow,       \* not a window
  MaxFrames,      \* bound: composites accepted per window
  MaxQueue,       \* bound: see MoreEvents
  AllowErrors,    \* may devices be lost and renders fail?
  AllowShutDown   \* may the main thread call ShutDown?

ASSUME WindowsAssumption == NoWindow \notin Windows
ASSUME BoundsAssumption == /\ MaxFrames \in Nat
                           /\ MaxQueue \in Nat
                           /\ AllowErrors \in BOOLEAN
                           /\ AllowShutDown \in BOOLEAN

VARIABLES
  (* mWindowInfos: the windows it has an entry for, and the entry's fields *)
  mWindowInfos,
  mIsDestroyed,
  mPendingFrames,            \* the PendingFrameInfos, as frame numbers
  mPendingFrameBuild,        \* a uint8_t
  mPendingWrNotifierEvents,
  mWrNotifierEventsRunnable, \* is the RefPtr set?
  (* mWrNotifierEventsQueues: the windows with a queue, and the queues *)
  mWrNotifierEventsQueues,
  events,
  mRenderers,
  mHandlingDeviceReset,
  mHandlingWebRenderError,
  mThreadPool,               \* is the handle still held?
  mThread,                   \* the runnables dispatched to the thread
  pc, cur, frame,            \* where HandleWrNotifierEvents(cur) stands
  main,                      \* where RenderThread::ShutDown stands
  comp, taskDone,            \* what the compositor thread does or waits for
  life, docHandle,           \* the WebRenderAPI of each window
  skipped, retries,          \* composites skipped, RetrySkippedComposite due
  backend, busy, stopped,    \* the render backend of each window
  sessionsLost,              \* has the GPUProcessManager been notified?
  issued, built              \* frames asked for and built, per window

infoVars    == <<mWindowInfos, mIsDestroyed, mPendingFrames,
                 mPendingFrameBuild, mPendingWrNotifierEvents,
                 mWrNotifierEventsRunnable>>
queueVars   == <<mWrNotifierEventsQueues, events>>
handlerVars == <<pc, cur, frame>>
errorVars   == <<mHandlingDeviceReset, mHandlingWebRenderError, sessionsLost>>
compVars    == <<comp, taskDone, life, docHandle>>
retryVars   == <<skipped, retries>>
backendVars == <<backend, busy, stopped>>
frameVars   == <<issued, built>>
vars == <<infoVars, queueVars, handlerVars, errorVars, compVars, retryVars,
          backendVars, frameVars, mRenderers, mThreadPool, mThread, main>>

-----------------------------------------------------------------------------
(* Notifier events (WrNotifierEvent). An external event carries a            *)
(* RendererEvent; the three kinds named here are those that differ in effect. *)
ExternalEvents == {"FrameStartTime", "WaitFlushed", "RemoveRenderer"}
Event      == [tag : {"WakeUp", "NewFrameReady"} \cup ExternalEvents, id : Nat]
WakeUpEvent             == [tag |-> "WakeUp", id |-> 0]
NewFrameReadyEvent(id)  == [tag |-> "NewFrameReady", id |-> id]
ExternalEvent(tag)      == [tag |-> tag, id |-> 0]

(* What the compositor thread sends down a window's api channel. *)
Message == [tag : {"GenerateFrame", "Stop"} \cup ExternalEvents, id : Nat]

Runnable == [tag : {"HandleWrNotifierEvents", "NewRenderer", "EraseQueue",
                    "SetClearColor", "ShutDownTask"},
             window : Windows \cup {NoWindow}]
Run(tag, w) == [tag |-> tag, window |-> w]

(* ShutDown sets the flag, posts ShutDownTask, and joins the thread; after  *)
(* that sRenderThread is null.                                              *)
mHasShutdown == main # "running"
HasThread    == main # "joined"

-----------------------------------------------------------------------------
Init ==
  /\ mWindowInfos = {}
  /\ mIsDestroyed = [w \in Windows |-> FALSE]
  /\ mPendingFrames = [w \in Windows |-> <<>>]
  /\ mPendingFrameBuild = [w \in Windows |-> 0]
  /\ mPendingWrNotifierEvents = [w \in Windows |-> <<>>]
  /\ mWrNotifierEventsRunnable = [w \in Windows |-> FALSE]
  /\ mWrNotifierEventsQueues = {}
  /\ events = [w \in Windows |-> <<>>]
  /\ mRenderers = {}
  /\ mHandlingDeviceReset = FALSE
  /\ mHandlingWebRenderError = FALSE
  /\ sessionsLost = FALSE
  /\ mThreadPool = TRUE
  /\ mThread = <<>>
  /\ pc = "idle" /\ cur = NoWindow /\ frame = 0
  /\ main = "running"
  /\ comp = [op |-> "idle", window |-> NoWindow] /\ taskDone = FALSE
  /\ life = [w \in Windows |-> "unused"]
  /\ docHandle = {}
  /\ skipped = {} /\ retries = {}
  /\ backend = [w \in Windows |-> <<>>]
  /\ busy = [w \in Windows |-> 0]
  /\ stopped = {}
  /\ issued = [w \in Windows |-> 0]
  /\ built = [w \in Windows |-> 0]

-----------------------------------------------------------------------------
(* Operations any thread may call.                                          *)

PostRunnable(tag, w) == mThread' = Append(mThread, Run(tag, w))

(* Under the mWindowInfos lock: queue a HandleWrNotifierEvents runnable     *)
(* unless one is already queued.                                            *)
PostWrNotifierEvents(w) ==
  IF mWrNotifierEventsRunnable[w]
  THEN UNCHANGED <<mWrNotifierEventsRunnable, mThread>>
  ELSE /\ mWrNotifierEventsRunnable' =
            [mWrNotifierEventsRunnable EXCEPT ![w] = TRUE]
       /\ PostRunnable("HandleWrNotifierEvents", w)

(* Mutant: external events jump the queue. *)
PostWrNotifierEvent_Expedited(w, e) ==
  IF w \in mWindowInfos
  THEN /\ mPendingWrNotifierEvents' =
            [mPendingWrNotifierEvents EXCEPT ![w] =
               IF e.tag \in ExternalEvents THEN <<e>> \o @ ELSE Append(@, e)]
       /\ PostWrNotifierEvents(w)
  ELSE UNCHANGED <<mPendingWrNotifierEvents, mWrNotifierEventsRunnable, mThread>>

(* WrNotifierEvent_WakeUp, _NewFrameReady and _ExternalEvent: for a window  *)
(* without an entry the event is dropped (MOZ_ASSERT(false) in a debug      *)
(* build).                                                                  *)
PostWrNotifierEvent(w, e) ==
  IF w \in mWindowInfos
  THEN /\ mPendingWrNotifierEvents' =
            [mPendingWrNotifierEvents EXCEPT ![w] = Append(@, e)]
       /\ PostWrNotifierEvents(w)
  ELSE UNCHANGED <<mPendingWrNotifierEvents, mWrNotifierEventsRunnable, mThread>>

IsDestroyed(w) == w \notin mWindowInfos \/ mIsDestroyed[w]

TooManyFramesPending(w, maxFrameCount) ==
  \/ w \notin mWindowInfos
  \/ Len(mPendingFrames[w]) > maxFrameCount
  \/ mPendingFrameBuild[w] > 0

(* Mutants: maxFrameCount off by one. *)
TooManyPendingFrames_AllowTwo(w) == TooManyFramesPending(w, 2)
TooManyPendingFrames_AllowNone(w) == TooManyFramesPending(w, 0)

(* maxFrameCount = 1: at most one frame may be waiting when a new one is    *)
(* accepted, and none may be in construction.                               *)
TooManyPendingFrames(w) == TooManyFramesPending(w, 1)

-----------------------------------------------------------------------------
(* The compositor thread. It takes one task of its own queue at a time, so  *)
(* it starts an operation only when it is idle; `comp' is the operation it  *)
(* is in, either between two calls or blocked in SynchronousTask::Wait.     *)

CompIdle == comp.op = "idle" /\ HasThread
CompDoes(op, w) == comp' = [op |-> op, window |-> w]
CompReturns == comp' = [op |-> "idle", window |-> NoWindow]

(* Mutant: the task is already complete when it is waited for. *)
CompWaits_NotReset(op, w) == CompDoes(op, w) /\ taskDone' = TRUE

CompWaits(op, w) == CompDoes(op, w) /\ taskDone' = FALSE

SendToBackend(w, msg) == backend' = [backend EXCEPT ![w] = Append(@, msg)]

(* WebRenderAPI::Create: NewRenderer goes straight to the render thread.    *)
(* Sessions are created at the main thread's request, so none is once that  *)
(* thread is in ShutDown.                                                   *)
Create(w) ==
  /\ CompIdle
  /\ life[w] = "unused" /\ ~mHasShutdown
  /\ life' = [life EXCEPT ![w] = "creating"]
  /\ CompWaits("create", w)
  /\ PostRunnable("NewRenderer", w)
  /\ UNCHANGED <<infoVars, queueVars, handlerVars, errorVars, docHandle,
                 retryVars, backendVars, frameVars, mRenderers, mThreadPool, main>>

(* The wait of Create, WaitFlushed or DestroyRenderer is over.              *)
TaskReturns ==
  /\ comp.op \in {"create", "flush", "destroy"} /\ taskDone /\ HasThread
  /\ CompReturns
  /\ taskDone' = FALSE
  /\ LET w == comp.window IN
     life' = [life EXCEPT ![w] =
                IF comp.op = "flush" THEN @
                ELSE IF comp.op = "create" /\ w \in docHandle THEN "live"
                ELSE "dead"]
  /\ UNCHANGED <<infoVars, queueVars, handlerVars, errorVars, docHandle,
                 retryVars, backendVars, frameVars, mRenderers, mThreadPool,
                 mThread, main>>

(* A composite, from vsync or from RetrySkippedComposite: skipped when the  *)
(* render thread or the backend is behind, else the frame will be counted.  *)
TryComposite(w) ==
  IF TooManyPendingFrames(w)
  THEN /\ skipped' = skipped \cup {w}
       /\ UNCHANGED comp
  ELSE /\ skipped' = skipped \ {w}
       /\ CompDoes("accepted", w)

Composite(w) ==
  /\ CompIdle
  /\ life[w] = "live" /\ issued[w] < MaxFrames
  /\ TryComposite(w)
  /\ UNCHANGED <<infoVars, queueVars, handlerVars, errorVars, taskDone, life,
                 docHandle, retries, backendVars, frameVars, mRenderers,
                 mThreadPool, mThread, main>>

(* NotifyDidStartRender and NotifyDidRender on the compositor thread.       *)
RetrySkippedComposite(w) ==
  /\ CompIdle
  /\ w \in retries
  /\ retries' = retries \ {w}
  /\ IF w \in skipped /\ life[w] = "live"
     THEN TryComposite(w)
     ELSE UNCHANGED <<skipped, comp>>
  /\ UNCHANGED <<infoVars, queueVars, handlerVars, errorVars, taskDone, life,
                 docHandle, backendVars, frameVars, mRenderers, mThreadPool,
                 mThread, main>>

(* Mutant: the frame in construction is not counted. *)
IncPendingFrameCount_NotBuilding(w) ==
  /\ mPendingFrames' = IF w \in mWindowInfos
                       THEN [mPendingFrames EXCEPT ![w] = Append(@, issued[w] + 1)]
                       ELSE mPendingFrames
  /\ UNCHANGED mPendingFrameBuild

(* The frame is counted as being built and as pending, then the transaction *)
(* that asks for it is sent.                                                *)
IncPendingFrameCount(w) ==
  IF w \in mWindowInfos
  THEN /\ mPendingFrameBuild' =
            [mPendingFrameBuild EXCEPT ![w] = (@ + 1) % 256]
       /\ mPendingFrames' =
            [mPendingFrames EXCEPT ![w] = Append(@, issued[w] + 1)]
  ELSE UNCHANGED <<mPendingFrameBuild, mPendingFrames>>

GenerateFrame(w) ==
  /\ comp = [op |-> "accepted", window |-> w] /\ HasThread
  /\ IncPendingFrameCount(w)
  /\ issued' = [issued EXCEPT ![w] = @ + 1]
  /\ SendToBackend(w, [tag |-> "GenerateFrame", id |-> issued[w] + 1])
  /\ CompReturns
  /\ UNCHANGED <<mWindowInfos, mIsDestroyed, mPendingWrNotifierEvents,
                 mWrNotifierEventsRunnable, queueVars, handlerVars, errorVars,
                 taskDone, life, docHandle, retryVars, busy, stopped, built,
                 mRenderers, mThreadPool, mThread, main>>

(* Bound: events that no operation forces come while fewer than MaxQueue    *)
(* messages and events of the window are queued anywhere.                   *)
MoreEvents(w) ==
  Len(backend[w]) + Len(mPendingWrNotifierEvents[w]) + Len(events[w]) < MaxQueue

(* An event that nobody waits for (SetFrameStartTime, BeginRecording,       *)
(* EndRecording), sent through the backend.                                 *)
SetFrameStartTime(w) ==
  /\ CompIdle
  /\ life[w] = "live" /\ MoreEvents(w)
  /\ SendToBackend(w, ExternalEvent("FrameStartTime"))
  /\ UNCHANGED <<infoVars, queueVars, handlerVars, errorVars, compVars,
                 retryVars, busy, stopped, frameVars, mRenderers, mThreadPool,
                 mThread, main>>

(* SetClearColor goes straight to the render thread. One at a time.         *)
SetClearColor(w) ==
  /\ CompIdle
  /\ life[w] = "live" /\ ~mHasShutdown
  /\ \A i \in 1..Len(mThread) : mThread[i] # Run("SetClearColor", w)
  /\ PostRunnable("SetClearColor", w)
  /\ UNCHANGED <<infoVars, queueVars, handlerVars, errorVars, compVars,
                 retryVars, backendVars, frameVars, mRenderers, mThreadPool,
                 main>>

WaitFlushed(w) ==
  /\ CompIdle
  /\ life[w] = "live"
  /\ SendToBackend(w, ExternalEvent("WaitFlushed"))
  /\ CompWaits("flush", w)
  /\ UNCHANGED <<infoVars, queueVars, handlerVars, errorVars, life, docHandle,
                 retryVars, busy, stopped, frameVars, mRenderers, mThreadPool,
                 mThread, main>>

SetDestroyed(w) ==
  mIsDestroyed' = IF w \in mWindowInfos
                  THEN [mIsDestroyed EXCEPT ![w] = TRUE]
                  ELSE mIsDestroyed

(* The backend is stopped before RemoveRenderer, which it still forwards.   *)
DestroyRenderer(w) ==
  /\ CompIdle
  /\ life[w] = "live"
  /\ SetDestroyed(w)
  /\ backend' = [backend EXCEPT ![w] =
                   Append(Append(@, [tag |-> "Stop", id |-> 0]),
                          ExternalEvent("RemoveRenderer"))]
  /\ life' = [life EXCEPT ![w] = "destroying"]
  /\ CompWaits("destroy", w)
  /\ UNCHANGED <<mWindowInfos, mPendingFrames, mPendingFrameBuild,
                 mPendingWrNotifierEvents, mWrNotifierEventsRunnable,
                 queueVars, handlerVars, errorVars, docHandle, retryVars,
                 busy, stopped, frameVars, mRenderers, mThreadPool, mThread,
                 main>>

(* The GPUProcessManager has closed every session and allows new ones.      *)
SessionsRebuilt ==
  /\ sessionsLost /\ CompIdle
  /\ \A w \in Windows : life[w] \in {"unused", "dead"}
  /\ sessionsLost' = FALSE
  /\ UNCHANGED <<infoVars, queueVars, handlerVars, mHandlingDeviceReset,
                 mHandlingWebRenderError, compVars, retryVars, backendVars,
                 frameVars, mRenderers, mThreadPool, mThread, main>>

-----------------------------------------------------------------------------
(* The render backend of window w, outside this repository: it takes the    *)
(* messages of its channel in order and calls the notifier (bindings.rs,    *)
(* CppNotifier), which calls the wr_notifier_* functions.                   *)

BackendTakes(w, tags) ==
  /\ HasThread /\ busy[w] = 0
  /\ backend[w] # <<>> /\ Head(backend[w]).tag \in tags
  /\ backend' = [backend EXCEPT ![w] = Tail(@)]

(* MOZ_RELEASE_ASSERT(mPendingFrameBuild >= 1) precedes the decrement.      *)
DecPendingFrameBuildCount(w) ==
  mPendingFrameBuild' =
    IF w \in mWindowInfos
    THEN [mPendingFrameBuild EXCEPT ![w] = (@ - 1) % 256]
    ELSE mPendingFrameBuild

(* wr_notifier_new_frame_ready takes the lock twice: here for the count...  *)
FrameBuilt(w) ==
  /\ BackendTakes(w, {"GenerateFrame"})
  /\ DecPendingFrameBuildCount(w)
  /\ busy' = [busy EXCEPT ![w] = Head(backend[w]).id]
  /\ built' = [built EXCEPT ![w] = @ + 1]
  /\ UNCHANGED <<mWindowInfos, mIsDestroyed, mPendingFrames,
                 mPendingWrNotifierEvents, mWrNotifierEventsRunnable,
                 queueVars, handlerVars, errorVars, compVars, retryVars,
                 stopped, issued, mRenderers, mThreadPool, mThread, main>>

(* ...and here for the event.                                               *)
NewFrameReady(w) ==
  /\ busy[w] # 0 /\ HasThread
  /\ PostWrNotifierEvent(w, NewFrameReadyEvent(busy[w]))
  /\ busy' = [busy EXCEPT ![w] = 0]
  /\ UNCHANGED <<mWindowInfos, mIsDestroyed, mPendingFrames,
                 mPendingFrameBuild, queueVars, handlerVars, errorVars,
                 compVars, retryVars, backend, stopped, frameVars, mRenderers,
                 mThreadPool, main>>

ForwardedTags == ExternalEvents

ForwardExternalEvent(w) ==
  /\ BackendTakes(w, ForwardedTags)
  /\ PostWrNotifierEvent(w, Head(backend[w]))
  /\ UNCHANGED <<mWindowInfos, mIsDestroyed, mPendingFrames,
                 mPendingFrameBuild, queueVars, handlerVars, errorVars,
                 compVars, retryVars, busy, stopped, frameVars, mRenderers,
                 mThreadPool, main>>

StopRenderBackend(w) ==
  /\ BackendTakes(w, {"Stop"})
  /\ stopped' = stopped \cup {w}
  /\ UNCHANGED <<infoVars, queueVars, handlerVars, errorVars, compVars,
                 retryVars, busy, frameVars, mRenderers, mThreadPool, mThread,
                 main>>

(* Debug flags, memory pressure: any time while the backend runs.           *)
WakeUp(w) ==
  /\ HasThread /\ busy[w] = 0
  /\ w \in docHandle \ stopped
  /\ MoreEvents(w)
  /\ PostWrNotifierEvent(w, WakeUpEvent)
  /\ UNCHANGED <<mWindowInfos, mIsDestroyed, mPendingFrames,
                 mPendingFrameBuild, queueVars, handlerVars, errorVars,
                 compVars, retryVars, backendVars, frameVars, mRenderers,
                 mThreadPool, main>>

-----------------------------------------------------------------------------
(* The main thread: RenderThread::ShutDown.                                 *)

(* Mutant: the pools go at once and not behind the queued runnables. *)
ShutDown_ReleasesPools ==
  /\ AllowShutDown /\ main = "running"
  /\ main' = "flagged"
  /\ mThreadPool' = FALSE
  /\ UNCHANGED <<infoVars, queueVars, handlerVars, errorVars, compVars,
                 retryVars, backendVars, frameVars, mRenderers, mThread>>

ShutDown ==
  /\ AllowShutDown /\ main = "running"
  /\ main' = "flagged"
  /\ UNCHANGED <<infoVars, queueVars, handlerVars, errorVars, compVars,
                 retryVars, backendVars, frameVars, mRenderers, mThreadPool,
                 mThread>>

PostShutDownTask ==
  /\ main = "flagged"
  /\ main' = "joining"
  /\ PostRunnable("ShutDownTask", NoWindow)
  /\ UNCHANGED <<infoVars, queueVars, handlerVars, errorVars, compVars,
                 retryVars, backendVars, frameVars, mRenderers, mThreadPool>>

(* nsIThread::Shutdown returns when the queue has been emptied.             *)
ThreadJoined ==
  /\ main = "joining" /\ mThread = <<>> /\ pc = "idle"
  /\ main' = "joined"
  /\ UNCHANGED <<infoVars, queueVars, handlerVars, errorVars, compVars,
                 retryVars, backendVars, frameVars, mRenderers, mThreadPool,
                 mThread>>

-----------------------------------------------------------------------------
(* The render thread.                                                       *)

RunnableTaken(tag, w) ==
  pc = "idle" /\ mThread # <<>> /\ Head(mThread) = Run(tag, w)

(* NewRenderer::Run completes the compositor's task whether or not          *)
(* wr_window_new succeeds. AddRenderer does nothing after ShutDown, yet     *)
(* the caller has its DocumentHandle by then.                               *)
AddRenderer(w) ==
  IF mHasShutdown
  THEN UNCHANGED <<mRenderers, mWindowInfos, mWrNotifierEventsQueues>>
  ELSE /\ mRenderers' = mRenderers \cup {w}
       /\ mWindowInfos' = mWindowInfos \cup {w}
       /\ mWrNotifierEventsQueues' = mWrNotifierEventsQueues \cup {w}

NewRenderer(w) ==
  /\ RunnableTaken("NewRenderer", w)
  /\ mThread' = Tail(mThread)
  /\ taskDone' = TRUE
  /\ \/ /\ docHandle' = docHandle \cup {w}
        /\ AddRenderer(w)
     \/ UNCHANGED <<docHandle, mRenderers, mWindowInfos,
                    mWrNotifierEventsQueues>>
  /\ UNCHANGED <<mIsDestroyed, mPendingFrames, mPendingFrameBuild,
                 mPendingWrNotifierEvents, mWrNotifierEventsRunnable, events,
                 handlerVars, errorVars, comp, life, retryVars, backendVars,
                 frameVars, mThreadPool, main>>

RunSetClearColor(w) ==
  /\ RunnableTaken("SetClearColor", w)
  /\ mThread' = Tail(mThread)
  /\ UNCHANGED <<infoVars, queueVars, handlerVars, errorVars, compVars,
                 retryVars, backendVars, frameVars, mRenderers, mThreadPool,
                 main>>

ShutDownTask ==
  /\ RunnableTaken("ShutDownTask", NoWindow)
  /\ mThread' = Tail(mThread)
  /\ mThreadPool' = FALSE
  /\ UNCHANGED <<infoVars, queueVars, handlerVars, errorVars, compVars,
                 retryVars, backendVars, frameVars, mRenderers, main>>

(* The runnable that RemoveRenderer left behind.                            *)
EraseQueue(w) ==
  /\ RunnableTaken("EraseQueue", w)
  /\ mThread' = Tail(mThread)
  /\ mWrNotifierEventsQueues' = mWrNotifierEventsQueues \ {w}
  /\ events' = [events EXCEPT ![w] = <<>>]
  /\ UNCHANGED <<infoVars, handlerVars, errorVars, compVars, retryVars,
                 backendVars, frameVars, mRenderers, mThreadPool, main>>

(* Mutant: the batch is replaced before it is used up. *)
TakePendingEvents_Always(w) ==
  /\ events' = [events EXCEPT ![w] = mPendingWrNotifierEvents[w]]
  /\ mPendingWrNotifierEvents' = [mPendingWrNotifierEvents EXCEPT ![w] = <<>>]

(* HandleWrNotifierEvents up to its loop: clear the runnable, and take the  *)
(* pending events over if the last batch is used up.                        *)
TakePendingEvents(w) ==
  IF events[w] = <<>>
  THEN /\ events' = [events EXCEPT ![w] = mPendingWrNotifierEvents[w]]
       /\ mPendingWrNotifierEvents' =
            [mPendingWrNotifierEvents EXCEPT ![w] = <<>>]
  ELSE UNCHANGED <<events, mPendingWrNotifierEvents>>

HandleWrNotifierEvents(w) ==
  /\ RunnableTaken("HandleWrNotifierEvents", w)
  /\ mThread' = Tail(mThread)
  /\ IF w \in mWrNotifierEventsQueues \cap mWindowInfos
     THEN /\ mWrNotifierEventsRunnable' =
               [mWrNotifierEventsRunnable EXCEPT ![w] = FALSE]
          /\ TakePendingEvents(w)
          /\ pc' = "loop" /\ cur' = w
     ELSE UNCHANGED <<mWrNotifierEventsRunnable, events,
                      mPendingWrNotifierEvents, pc, cur>>
  /\ UNCHANGED <<mWindowInfos, mIsDestroyed, mPendingFrames,
                 mPendingFrameBuild, mWrNotifierEventsQueues, frame,
                 errorVars, compVars, retryVars, backendVars, frameVars,
                 mRenderers, mThreadPool, main>>

AtEvent(tags) ==
  pc = "loop" /\ events[cur] # <<>> /\ Head(events[cur]).tag \in tags

PopEvent == events' = [events EXCEPT ![cur] = Tail(@)]

(* External events are run and popped, and the loop goes on.                *)
RunExternalEvent ==
  /\ AtEvent({"FrameStartTime", "WaitFlushed"})
  /\ taskDone' = (taskDone \/ Head(events[cur]).tag = "WaitFlushed")
  /\ PopEvent
  /\ UNCHANGED <<infoVars, mWrNotifierEventsQueues, handlerVars, errorVars,
                 comp, life, docHandle, retryVars, backendVars, frameVars,
                 mRenderers, mThreadPool, mThread, main>>

(* The entry of w and all its fields go. The events queue is in use by the  *)
(* handler that runs this event, so its erasure is posted.                  *)
EraseWindowInfo(w) ==
  /\ mWindowInfos' = mWindowInfos \ {w}
  /\ mIsDestroyed' = [mIsDestroyed EXCEPT ![w] = FALSE]
  /\ mPendingFrames' = [mPendingFrames EXCEPT ![w] = <<>>]
  /\ mPendingFrameBuild' = [mPendingFrameBuild EXCEPT ![w] = 0]
  /\ mPendingWrNotifierEvents' = [mPendingWrNotifierEvents EXCEPT ![w] = <<>>]
  /\ mWrNotifierEventsRunnable' = [mWrNotifierEventsRunnable EXCEPT ![w] = FALSE]

(* Mutant: the error flag is not reset. *)
ErrorsHandled_ResetOnly(renderers) ==
  /\ mHandlingDeviceReset' = (mHandlingDeviceReset /\ renderers # {})
  /\ UNCHANGED mHandlingWebRenderError

(* With its last renderer gone the thread is ready for new devices.         *)
ErrorsHandled(renderers) ==
  IF renderers = {}
  THEN mHandlingDeviceReset' = FALSE /\ mHandlingWebRenderError' = FALSE
  ELSE UNCHANGED <<mHandlingDeviceReset, mHandlingWebRenderError>>

(* Mutant: the queue is erased under its handler. *)
RemoveRenderer_EraseAtOnce(w) ==
  IF mHasShutdown
  THEN UNCHANGED <<infoVars, mRenderers, mHandlingDeviceReset,
                   mHandlingWebRenderError, mWrNotifierEventsQueues, mThread>>
  ELSE /\ mRenderers' = mRenderers \ {w}
       /\ ErrorsHandled(mRenderers \ {w})
       /\ EraseWindowInfo(w)
       /\ mWrNotifierEventsQueues' = mWrNotifierEventsQueues \ {w}
       /\ UNCHANGED mThread

RemoveRenderer(w) ==
  IF mHasShutdown
  THEN UNCHANGED <<infoVars, mRenderers, mHandlingDeviceReset,
                   mHandlingWebRenderError, mWrNotifierEventsQueues, mThread>>
  ELSE /\ mRenderers' = mRenderers \ {w}
       /\ ErrorsHandled(mRenderers \ {w})
       /\ EraseWindowInfo(w)
       /\ PostRunnable("EraseQueue", w)
       /\ UNCHANGED mWrNotifierEventsQueues

RunRemoveRenderer ==
  /\ AtEvent({"RemoveRenderer"})
  /\ RemoveRenderer(cur)
  /\ taskDone' = TRUE
  /\ PopEvent
  /\ UNCHANGED <<handlerVars, sessionsLost, comp, life, docHandle,
                 retryVars, backendVars, frameVars, mThreadPool, main>>

(* HandleFrameOneDoc, up to the tests that skip the frame. After ShutDown   *)
(* nothing is counted and the event is popped.                              *)
SkipsFrame(w) == IsDestroyed(w) \/ mHandlingDeviceReset

HandleFrameOneDoc ==
  /\ AtEvent({"WakeUp", "NewFrameReady"})
  /\ IF mHasShutdown
     THEN pc' = "tail" /\ PopEvent
     ELSE /\ pc' = IF SkipsFrame(cur) THEN "handled" ELSE "render"
          /\ UNCHANGED events
  /\ UNCHANGED <<infoVars, mWrNotifierEventsQueues, cur, frame, errorVars,
                 compVars, retryVars, backendVars, frameVars, mRenderers,
                 mThreadPool, mThread, main>>

(* The frame info is copied under the lock and UpdateAndRender starts: it   *)
(* dispatches NotifyDidStartRender unless the renderer is gone. A WakeUp    *)
(* event renders without a frame.                                           *)
IsFrame(e) == e.tag = "NewFrameReady"

NotifyCompositor(w) ==
  retries' = IF w \in mRenderers THEN retries \cup {w} ELSE retries

StartRender ==
  /\ pc = "render"
  /\ frame' = IF IsFrame(Head(events[cur])) /\ cur \in mWindowInfos
              THEN Head(mPendingFrames[cur]) ELSE 0
  /\ NotifyCompositor(cur)
  /\ pc' = "rendering"
  /\ UNCHANGED <<infoVars, queueVars, cur, errorVars, compVars, skipped,
                 backendVars, frameVars, mRenderers, mThreadPool, mThread, main>>

(* HandleDeviceReset and HandleWebRenderError notify the GPUProcessManager, *)
(* which closes every session, and do so only once.                         *)
HandleDeviceReset(happens) ==
  mHandlingDeviceReset' = (mHandlingDeviceReset \/ happens)

HandleWebRenderError(happens) ==
  mHandlingWebRenderError' = (mHandlingWebRenderError \/ happens)

NotifyGPUProcessManager ==
  sessionsLost' = \/ sessionsLost
                  \/ mHandlingDeviceReset' # mHandlingDeviceReset
                  \/ mHandlingWebRenderError' # mHandlingWebRenderError

(* The frame has been rendered, or the device or WebRender failed; then     *)
(* NotifyDidRender is dispatched.                                           *)
FinishRender ==
  /\ pc = "rendering"
  /\ \E reset, error \in BOOLEAN :
        /\ reset \/ error => AllowErrors /\ cur \in mRenderers
        /\ HandleDeviceReset(reset)
        /\ HandleWebRenderError(error)
  /\ NotifyGPUProcessManager
  /\ NotifyCompositor(cur)
  /\ pc' = "handled"
  /\ frame' = 0
  /\ UNCHANGED <<infoVars, queueVars, cur, compVars, skipped, backendVars,
                 frameVars, mRenderers, mThreadPool, mThread, main>>

(* A tracked frame leaves mPendingFrames when it has been handled, rendered *)
(* or not; std::queue::pop on an empty queue is undefined.                  *)
DecPendingFrameCount(w) ==
  mPendingFrames' = IF w \in mWindowInfos
                    THEN [mPendingFrames EXCEPT ![w] = Tail(@)]
                    ELSE mPendingFrames

FrameHandled ==
  /\ pc = "handled"
  /\ IF IsFrame(Head(events[cur]))
     THEN DecPendingFrameCount(cur)
     ELSE UNCHANGED mPendingFrames
  /\ PopEvent
  /\ pc' = "tail"
  /\ UNCHANGED <<mWindowInfos, mIsDestroyed, mPendingFrameBuild,
                 mPendingWrNotifierEvents, mWrNotifierEventsRunnable,
                 mWrNotifierEventsQueues, cur, frame, errorVars, compVars,
                 retryVars, backendVars, frameVars, mRenderers, mThreadPool,
                 mThread, main>>

(* Mutant: the rest of the batch is forgotten. *)
RepostIfEventsLeft_PendingOnly(w) ==
  IF w \in mWindowInfos /\ mPendingWrNotifierEvents[w] # <<>>
  THEN PostWrNotifierEvents(w)
  ELSE UNCHANGED <<mWrNotifierEventsRunnable, mThread>>

(* The loop ends after one frame or when the batch is used up; what is left *)
(* is handled by another runnable, behind those of the other windows.       *)
RepostIfEventsLeft(w) ==
  IF w \in mWindowInfos /\ (events[w] # <<>> \/ mPendingWrNotifierEvents[w] # <<>>)
  THEN PostWrNotifierEvents(w)
  ELSE UNCHANGED <<mWrNotifierEventsRunnable, mThread>>

HandlerReturns ==
  /\ pc = "tail" \/ (pc = "loop" /\ events[cur] = <<>>)
  /\ RepostIfEventsLeft(cur)
  /\ pc' = "idle" /\ cur' = NoWindow
  /\ UNCHANGED <<mWindowInfos, mIsDestroyed, mPendingFrames,
                 mPendingFrameBuild, mPendingWrNotifierEvents, queueVars,
                 frame, errorVars, compVars, retryVars, backendVars, frameVars,
                 mRenderers, mThreadPool, main>>

-----------------------------------------------------------------------------
CompositorStep(w) == \/ Create(w) \/ Composite(w) \/ RetrySkippedComposite(w)
                     \/ GenerateFrame(w) \/ SetFrameStartTime(w)
                     \/ SetClearColor(w) \/ WaitFlushed(w) \/ DestroyRenderer(w)

BackendStep(w) == \/ FrameBuilt(w) \/ NewFrameReady(w)
                  \/ ForwardExternalEvent(w) \/ StopRenderBackend(w)

RunnableStep(w) == \/ NewRenderer(w) \/ RunSetClearColor(w) \/ EraseQueue(w)
                   \/ HandleWrNotifierEvents(w)

RenderThreadStep ==
  \/ \E w \in Windows : RunnableStep(w)
  \/ ShutDownTask
  \/ RunExternalEvent \/ RunRemoveRenderer
  \/ HandleFrameOneDoc \/ StartRender \/ FinishRender \/ FrameHandled
  \/ HandlerReturns

MainStep == ShutDown \/ PostShutDownTask \/ ThreadJoined

Next ==
  \/ \E w \in Windows : CompositorStep(w) \/ BackendStep(w) \/ WakeUp(w)
  \/ TaskReturns \/ SessionsRebuilt
  \/ RenderThreadStep
  \/ MainStep

Spec == Init /\ [][Next]_vars

-----------------------------------------------------------------------------
(* Fairness: every thread runs on while it can. The compositor thread may   *)
(* block between two turns of its event loop, which is first in, first out: *)
(* a task queued on it runs at some turn, hence the strong fairness of      *)
(* RetrySkippedComposite (a task the render thread dispatched) and of       *)
(* DestroyRenderer and SessionsRebuilt when a device was lost (the          *)
(* GPUProcessManager's doing). Nothing makes a composite, a flush, a new    *)
(* window or a wake-up happen.                                              *)
Fairness ==
  /\ WF_vars(RenderThreadStep)
  /\ WF_vars(TaskReturns)
  /\ SF_vars(SessionsRebuilt)
  /\ \A w \in Windows :
       /\ WF_vars(BackendStep(w))
       /\ WF_vars(GenerateFrame(w))
       /\ SF_vars(RetrySkippedComposite(w))
       /\ SF_vars(sessionsLost /\ DestroyRenderer(w))

FairSpec == Spec /\ Fairness

-----------------------------------------------------------------------------
InfoTypeOK ==
  /\ mWindowInfos \subseteq Windows
  /\ mIsDestroyed \in [Windows -> BOOLEAN]
  /\ mPendingFrames \in [Windows -> Seq(Nat)]
  /\ mPendingFrameBuild \in [Windows -> 0..255]
  /\ mPendingWrNotifierEvents \in [Windows -> Seq(Event)]
  /\ mWrNotifierEventsRunnable \in [Windows -> BOOLEAN]

QueueTypeOK ==
  /\ mWrNotifierEventsQueues \subseteq Windows
  /\ events \in [Windows -> Seq(Event)]

HandlerTypeOK ==
  /\ pc \in {"idle", "loop", "render", "rendering", "handled", "tail"}
  /\ cur \in Windows \cup {NoWindow}
  /\ pc # "idle" => cur \in Windows
  /\ frame \in Nat

ErrorTypeOK ==
  /\ mHandlingDeviceReset \in BOOLEAN
  /\ mHandlingWebRenderError \in BOOLEAN
  /\ sessionsLost \in BOOLEAN

CompTypeOK ==
  /\ comp \in [op : {"idle", "create", "accepted", "flush", "destroy"},
               window : Windows \cup {NoWindow}]
  /\ comp.op # "idle" => comp.window \in Windows
  /\ taskDone \in BOOLEAN
  /\ life \in [Windows -> {"unused", "creating", "live", "destroying", "dead"}]
  /\ docHandle \subseteq Windows

BackendTypeOK ==
  /\ backend \in [Windows -> Seq(Message)]
  /\ busy \in [Windows -> Nat]
  /\ stopped \subseteq Windows
  /\ issued \in [Windows -> Nat]
  /\ built \in [Windows -> Nat]

ThreadTypeOK ==
  /\ mRenderers \subseteq Windows
  /\ mThreadPool \in BOOLEAN
  /\ mThread \in Seq(Runnable)
  /\ main \in {"running", "flagged", "joining", "joined"}

RetryTypeOK == skipped \subseteq Windows /\ retries \subseteq Windows

TypeOK == /\ InfoTypeOK /\ QueueTypeOK /\ HandlerTypeOK /\ ErrorTypeOK
          /\ CompTypeOK /\ BackendTypeOK /\ ThreadTypeOK /\ RetryTypeOK

(* A frame that is handled is at the front of mPendingFrames: neither       *)
(* front() nor pop() meets an empty queue, the start time and vsync id      *)
(* reported for a rendered frame are those of that frame and not of a       *)
(* neighbour (HandleFrameOneDocInner and DecPendingFrameCount rely on it    *)
(* without a test), and DecPendingFrameBuildCount's release assertion holds.*)
HandlingFrame ==
  /\ pc \in {"render", "rendering", "handled"}
  /\ IsFrame(Head(events[cur])) /\ cur \in mWindowInfos

FramesAccounted ==
  /\ HandlingFrame => /\ mPendingFrames[cur] # <<>>
                      /\ Head(mPendingFrames[cur]) = Head(events[cur]).id
                      /\ pc = "rendering" => frame = Head(events[cur]).id
  /\ \A w \in mWindowInfos :
       backend[w] # <<>> /\ Head(backend[w]).tag = "GenerateFrame"
         => mPendingFrameBuild[w] >= 1

(* TooManyPendingFrames is tested before a frame is counted, in another     *)
(* critical section: still at most two frames are pending and at most one   *)
(* is being built, so the uint8_t counter cannot overflow.                  *)
PendingFramesBounded ==
  \A w \in Windows : Len(mPendingFrames[w]) <= 2 /\ mPendingFrameBuild[w] <= 1

(* No lost wake-up: while a window has events, its runnable is queued or    *)
(* its handler is running and will look again.                              *)
HandlerQueued(w) ==
  \E i \in 1..Len(mThread) : mThread[i] = Run("HandleWrNotifierEvents", w)

NoLostWakeup ==
  \A w \in mWindowInfos :
    events[w] # <<>> \/ mPendingWrNotifierEvents[w] # <<>>
      => HandlerQueued(w) \/ cur = w

(* The events queue a handler works on outlives it, and a handler that      *)
(* starts finds queue and entry together or neither (the assertions of      *)
(* HandleWrNotifierEvents and RemoveRenderer).                              *)
QueueOutlivesHandler ==
  /\ pc # "idle" => cur \in mWrNotifierEventsQueues
  /\ \A w \in Windows : HandlerQueued(w)
       => (w \in mWindowInfos <=> w \in mWrNotifierEventsQueues)

(* UpdateAndRender never runs for a window whose WebRenderAPI is gone: its  *)
(* comment says that destruction blocks until the renderer is removed.      *)
NoRenderAfterDestroy ==
  pc \in {"render", "rendering"}
    => life[cur] \in {"creating", "live", "destroying"} /\ cur \in mRenderers

(* When WaitFlushed returns, every frame asked for before it has been       *)
(* handled (the comment in WebRenderAPI::WaitFlushed).                      *)
FlushedMeansHandled ==
  comp.op = "flush" /\ taskDone /\ ~mHasShutdown
    => mPendingFrames[comp.window] = <<>>

(* No renderer is made after ShutDownTask has released the thread pools     *)
(* (WebRenderThreadPool::Raw asserts it).                                   *)
PoolOutlivesNewRenderers ==
  ~mThreadPool => \A w \in Windows, i \in 1..Len(mThread) :
                    mThread[i] # Run("NewRenderer", w)

-----------------------------------------------------------------------------
(* Liveness, under FairSpec and in behaviours without ShutDown.             *)
NeverShutDown == [](main = "running")

(* Every synchronous call of the compositor thread returns: its task's      *)
(* event reaches the render thread, behind whatever is queued there.        *)
CallsReturn == NeverShutDown => ((comp.op # "idle") ~> (comp.op = "idle"))

(* A skipped composite is made in the end, unless the window is closed.     *)
SkippedCompositesAreMade ==
  NeverShutDown => \A w \in Windows :
    (w \in skipped) ~> (w \notin skipped \/ life[w] # "live")

(* After a lost device or a failed render the thread ends up ready for new  *)
(* renderers, whatever frames, flushes and creations were under way.        *)
ThreadRecovers ==
  (mHandlingDeviceReset \/ mHandlingWebRenderError)
    ~> ~(mHandlingDeviceReset \/ mHandlingWebRenderError)

-----------------------------------------------------------------------------
(* The event queues implement RendererEvents: the two queues of a window,   *)
(* one behind the other, are its inbox.  An entry that RemoveRenderer leaves *)
(* behind after ShutDown is closed all the same.                            *)
Closed(w) == \/ life[w] = "dead"
             \/ comp.op = "destroy" /\ comp.window = w /\ taskDone
OpenWindows == {w \in mWindowInfos : ~Closed(w)}
AnswerGiven == taskDone /\ comp.op \in {"flush", "destroy"}
Inbox == [w \in Windows |-> events[w] \o mPendingWrNotifierEvents[w]]
SentEvents == {e \in [tag : {"WakeUp", "NewFrameReady"} \cup ExternalEvents,
                      id : 0..MaxFrames] : e.tag = "NewFrameReady" <=> e.id > 0}

RendererEvents == INSTANCE RendererEvents
  WITH Events <- SentEvents, Removal <- ExternalEvent("RemoveRenderer"),
       Awaited <- {ExternalEvent("WaitFlushed"), ExternalEvent("RemoveRenderer")},
       open <- OpenWindows, inbox <- Inbox,
       answered <- AnswerGiven

(* Every event a window is sent is handled, in the order they were sent,    *)
(* and the RemoveRenderer event comes last (RendererEvent, RenderThread.h:  *)
(* events share the channels of WebRender's messages to preserve ordering). *)
(* A call waiting for its event returns when that has been handled.         *)
EventsInOrder == RendererEvents!FairSpec

=============================================================================
