----------------------- MODULE RenderThreadQueueProofs -----------------------
(***************************************************************************)
(* What holds of the runnables that wait for the render thread, for any    *)
(* windows and any bounds: no event is left without a handler, no renderer *)
(* is made after the thread pools are gone, and no handler meets a queue   *)
(* without an entry, since RemoveRenderer is its window's last event and   *)
(* is handled when no other handler of the window is queued.  And what the *)
(* compositor thread may rely on when a call of its returns: WaitFlushed   *)
(* returns behind every frame of its window, and nothing is rendered       *)
(* behind DestroyRenderer.  The event or runnable that completes a         *)
(* SynchronousTask is one of its kind, sent by the call that waits.  At    *)
(* last, the two queues of a window implement the inbox of RendererEvents. *)
(***************************************************************************)
EXTENDS RenderThreadProofs

Handler(w) == Queued("HandleWrNotifierEvents", w)

(* An entry comes with its queue.  Its flag says that a handler is queued;  *)
(* events are known to a handler that runs or, by the flag, to a later one. *)
AwakeIfListed(w) ==
  w \in mWindowInfos =>
    /\ w \in mWrNotifierEventsQueues
    /\ mWrNotifierEventsRunnable[w] => Handler(w)
    /\ events[w] # <<>> \/ mPendingWrNotifierEvents[w] # <<>>
         => mWrNotifierEventsRunnable[w] \/ cur = w

(* A window that is added starts with its flag cleared.                     *)
Awake(w) == AwakeIfListed(w) /\ (w \notin mWindowInfos => ~mWrNotifierEventsRunnable[w])

IdleHandlesNothing == pc = "idle" => cur = NoWindow

(* ShutDown sets the flag before it posts the task that releases the pools, *)
(* and renderers are asked for only while the flag is not set.              *)
PoolsGoLast ==
  /\ ~mThreadPool => mHasShutdown /\ \A w \in Windows : ~Queued("NewRenderer", w)
  /\ Queued("ShutDownTask", NoWindow) => mHasShutdown
  /\ \A i, j \in 1..Len(mThread) : \A w \in Windows :
       mThread[i] = Run("ShutDownTask", NoWindow)
         /\ mThread[j] = Run("NewRenderer", w) => j < i

QInv == /\ \A w \in Windows : Awake(w)
        /\ IdleHandlesNothing
        /\ PoolsGoLast

-----------------------------------------------------------------------------
(* Steps of the queue of runnables                                          *)

(* A runnable at the end leaves the others in the queue.                    *)
LEMMA QueuedStays ==
  ASSUME mThread \in Seq(Runnable), NEW r \in Runnable,
         mThread' = Append(mThread, r), NEW tag, NEW w
  PROVE  /\ Queued(tag, w) => Queued(tag, w)'
         /\ r = Run(tag, w) => Queued(tag, w)'
<1>1. /\ Len(mThread') = Len(mThread) + 1 /\ Len(mThread) \in Nat
      /\ \A i \in 1..Len(mThread) : mThread'[i] = mThread[i]
      /\ mThread'[Len(mThread) + 1] = r
  BY AppendElements
<1> QED BY <1>1 DEF Queued

(* Taking a runnable leaves those that are not like it.                     *)
LEMMA OthersStay ==
  ASSUME mThread \in Seq(Runnable), mThread # <<>>, mThread' = Tail(mThread),
         NEW tag, NEW w, Head(mThread) # Run(tag, w), Queued(tag, w)
  PROVE  Queued(tag, w)'
<1>1. /\ Len(mThread) \in Nat /\ Len(mThread) >= 1
      /\ Len(mThread') = Len(mThread) - 1
      /\ \A i \in 1..Len(mThread') : mThread'[i] = mThread[i + 1]
      /\ Head(mThread) = mThread[1]
  BY TailElements
<1>2. PICK i \in 1..Len(mThread) : mThread[i] = Run(tag, w)
  BY DEF Queued
<1>3. i # 1 /\ i - 1 \in 1..Len(mThread') /\ mThread'[i - 1] = mThread[i]
  BY <1>1, <1>2
<1> QED BY <1>2, <1>3 DEF Queued

(* PostWrNotifierEvents leaves a handler queued.                            *)
LEMMA HandlerPosted ==
  ASSUME TypeOK, NEW w \in Windows, PostWrNotifierEvents(w)
  PROVE  /\ \A x \in Windows : Handler(x) => Handler(x)'
         /\ \A x \in Windows : x # w =>
              mWrNotifierEventsRunnable'[x] = mWrNotifierEventsRunnable[x]
         /\ mWrNotifierEventsRunnable'[w]
         /\ (mWrNotifierEventsRunnable[w] => Handler(w)) => Handler(w)'
<1>1. CASE mWrNotifierEventsRunnable[w]
  BY <1>1 DEF PostWrNotifierEvents, Handler, Queued
<1>2. CASE ~mWrNotifierEventsRunnable[w]
  <2>1. /\ mThread \in Seq(Runnable)
        /\ Run("HandleWrNotifierEvents", w) \in Runnable
        /\ mThread' = Append(mThread, Run("HandleWrNotifierEvents", w))
        /\ mWrNotifierEventsRunnable' =
             [mWrNotifierEventsRunnable EXCEPT ![w] = TRUE]
    BY <1>2 DEF PostWrNotifierEvents, PostRunnable, TypeOK, ThreadTypeOK, Run,
       Runnable
  <2> QED BY <2>1, QueuedStays DEF Handler, TypeOK, InfoTypeOK
<1> QED BY <1>1, <1>2

-----------------------------------------------------------------------------
(* Every step keeps the windows awake                                       *)

(* A step that takes no event in and no handler out.                        *)
LEMMA AwakeKept ==
  ASSUME NEW x \in Windows, Awake(x),
         x \in mWindowInfos' <=> x \in mWindowInfos,
         x \in mWrNotifierEventsQueues => x \in mWrNotifierEventsQueues',
         mWrNotifierEventsRunnable'[x] = mWrNotifierEventsRunnable[x],
         Handler(x) => Handler(x)',
         events'[x] # <<>> => events[x] # <<>>,
         mPendingWrNotifierEvents'[x] = mPendingWrNotifierEvents[x],
         cur = x => cur' = x
  PROVE  Awake(x)'
  BY DEF Awake, AwakeIfListed

(* A step of a thread that posts and takes no runnable.                     *)
LEMMA AwakeSame ==
  ASSUME NEW x \in Windows, Awake(x),
         UNCHANGED <<mWindowInfos, mWrNotifierEventsQueues, events,
                     mWrNotifierEventsRunnable, mPendingWrNotifierEvents,
                     mThread, cur>>
  PROVE  Awake(x)'
  BY AwakeKept DEF Handler, Queued

(* An event is posted.                                                      *)
LEMMA AwakePosted ==
  ASSUME TypeOK, NEW x \in Windows, Awake(x), NEW w \in Windows, NEW e,
         PostWrNotifierEvent(w, e),
         UNCHANGED <<mWindowInfos, mWrNotifierEventsQueues, events, cur>>
  PROVE  Awake(x)'
<1>1. CASE w \notin mWindowInfos
  BY <1>1, AwakeSame DEF PostWrNotifierEvent
<1>2. CASE w \in mWindowInfos
  <2>1. /\ PostWrNotifierEvents(w)
        /\ x # w => mPendingWrNotifierEvents'[x] = mPendingWrNotifierEvents[x]
    BY <1>2 DEF PostWrNotifierEvent, TypeOK, InfoTypeOK
  <2>2. CASE x = w
    BY <1>2, <2>1, <2>2, HandlerPosted DEF Awake, AwakeIfListed
  <2>3. CASE x # w
    BY <2>1, <2>3, HandlerPosted, AwakeKept
  <2> QED BY <2>2, <2>3
<1> QED BY <1>1, <1>2

(* A runnable that is no handler is taken.                                  *)
LEMMA AwakeTaken ==
  ASSUME TypeOK, NEW x \in Windows, Awake(x), NEW tag, NEW w,
         RunnableTaken(tag, w), mThread' = Tail(mThread),
         tag # "HandleWrNotifierEvents"
  PROVE  Handler(x) => Handler(x)'
<1>1. /\ mThread \in Seq(Runnable) /\ mThread # <<>>
      /\ Head(mThread) # Run("HandleWrNotifierEvents", x)
  BY DEF TypeOK, ThreadTypeOK, RunnableTaken, Run
<1> QED BY <1>1, OthersStay DEF Handler

(* Another runnable is posted.                                              *)
LEMMA AwakeOtherPosted ==
  ASSUME TypeOK, NEW x \in Windows,
         NEW tag \in {"NewRenderer", "EraseQueue", "SetClearColor", "ShutDownTask"},
         NEW w \in Windows \cup {NoWindow}, PostRunnable(tag, w)
  PROVE  Handler(x) => Handler(x)'
<1>1. mThread \in Seq(Runnable) /\ Run(tag, w) \in Runnable
  BY DEF TypeOK, ThreadTypeOK, Run, Runnable
<1> QED BY <1>1, QueuedStays DEF PostRunnable, Handler

(* The handler takes the pending events, clears the flag and is at work.    *)
LEMMA AwakeHandled ==
  ASSUME IInv, QInv, NEW x \in Windows, NEW w \in Windows,
         HandleWrNotifierEvents(w)
  PROVE  Awake(x)'
<1>1. /\ Awake(x) /\ TypeOK /\ pc = "idle" /\ cur # x
      /\ mThread \in Seq(Runnable) /\ mThread # <<>>
      /\ Head(mThread) = Run("HandleWrNotifierEvents", w)
      /\ mThread' = Tail(mThread)
  BY WindowsAssumption DEF HandleWrNotifierEvents, RunnableTaken, QInv, IInv,
     IdleHandlesNothing, TypeOK, ThreadTypeOK
<1>2. UNCHANGED <<mWindowInfos, mWrNotifierEventsQueues>>
  BY DEF HandleWrNotifierEvents
<1>3. CASE x # w
  <2>1. Handler(x) => Handler(x)'
    <3>1. Head(mThread) # Run("HandleWrNotifierEvents", x)
      BY <1>1, <1>3 DEF Run
    <3> QED BY <1>1, <3>1, OthersStay DEF Handler
  <2>2. /\ mWrNotifierEventsRunnable'[x] = mWrNotifierEventsRunnable[x]
        /\ events'[x] = events[x]
        /\ mPendingWrNotifierEvents'[x] = mPendingWrNotifierEvents[x]
    BY <1>1, <1>3 DEF HandleWrNotifierEvents, TakePendingEvents, TypeOK,
       InfoTypeOK, QueueTypeOK
  <2> QED BY <1>1, <1>2, <2>1, <2>2, AwakeKept
<1>4. CASE x = w /\ w \in mWindowInfos
  <2>1. w \in mWrNotifierEventsQueues
    BY <1>1, <1>4 DEF Awake, AwakeIfListed
  <2>2. ~mWrNotifierEventsRunnable'[w] /\ cur' = w
    BY <1>1, <1>4, <2>1 DEF HandleWrNotifierEvents, TypeOK, InfoTypeOK
  <2> QED BY <1>2, <1>4, <2>1, <2>2 DEF Awake, AwakeIfListed
<1>5. CASE x = w /\ w \notin mWindowInfos
  <2>1. UNCHANGED mWrNotifierEventsRunnable
    BY <1>5 DEF HandleWrNotifierEvents
  <2> QED BY <1>1, <1>2, <1>5, <2>1 DEF Awake, AwakeIfListed
<1> QED BY <1>3, <1>4, <1>5

(* The handler returns: what it leaves is known to the next one.            *)
LEMMA AwakeReturned ==
  ASSUME IInv, QInv, NEW x \in Windows, HandlerReturns
  PROVE  Awake(x)'
<1>1. /\ Awake(x) /\ TypeOK /\ cur \in Windows
      /\ UNCHANGED <<mWindowInfos, mWrNotifierEventsQueues, events,
                     mPendingWrNotifierEvents>>
  BY DEF HandlerReturns, QInv, IInv, TypeOK, HandlerTypeOK, queueVars
<1>2. CASE x # cur
  <2>1. UNCHANGED <<mWrNotifierEventsRunnable, mThread>> \/ PostWrNotifierEvents(cur)
    BY DEF HandlerReturns, RepostIfEventsLeft
  <2>2. CASE UNCHANGED <<mWrNotifierEventsRunnable, mThread>>
    BY <1>1, <1>2, <2>2, AwakeKept DEF Handler, Queued
  <2>3. CASE PostWrNotifierEvents(cur)
    BY <1>1, <1>2, <2>3, HandlerPosted, AwakeKept
  <2> QED BY <2>1, <2>2, <2>3
<1>3. CASE x = cur
  <2>1. CASE cur \in mWindowInfos
               /\ (events[cur] # <<>> \/ mPendingWrNotifierEvents[cur] # <<>>)
    <3>1. PostWrNotifierEvents(cur)
      BY <2>1 DEF HandlerReturns, RepostIfEventsLeft
    <3> QED BY <1>1, <1>3, <2>1, <3>1, HandlerPosted DEF Awake, AwakeIfListed
  <2>2. CASE ~(cur \in mWindowInfos
               /\ (events[cur] # <<>> \/ mPendingWrNotifierEvents[cur] # <<>>))
    <3>1. UNCHANGED <<mWrNotifierEventsRunnable, mThread>>
      BY <2>2 DEF HandlerReturns, RepostIfEventsLeft
    <3> QED BY <1>1, <1>3, <2>2, <3>1 DEF Awake, AwakeIfListed, Handler, Queued
  <2> QED BY <2>1, <2>2
<1> QED BY <1>2, <1>3

(* A renderer is removed with all that is known of its window.              *)
LEMMA AwakeRemoved ==
  ASSUME IInv, QInv, NEW x \in Windows, RunRemoveRenderer
  PROVE  Awake(x)'
<1>1. Awake(x) /\ TypeOK /\ cur \in Windows /\ UNCHANGED cur
  BY DEF RunRemoveRenderer, AtEvent, handlerVars, QInv, IInv, TypeOK, HandlerTypeOK
<1>2. x # cur => events'[x] = events[x]
  BY <1>1 DEF RunRemoveRenderer, PopEvent, TypeOK, QueueTypeOK
<1>3. CASE mHasShutdown
  <2>1. UNCHANGED <<infoVars, mWrNotifierEventsQueues, mThread>>
    BY <1>3 DEF RunRemoveRenderer, RemoveRenderer
  <2> QED BY <1>1, <1>2, <2>1 DEF infoVars, Awake, AwakeIfListed, Handler, Queued
<1>4. CASE ~mHasShutdown
  <2>1. /\ EraseWindowInfo(cur) /\ PostRunnable("EraseQueue", cur)
        /\ UNCHANGED mWrNotifierEventsQueues
    BY <1>4 DEF RunRemoveRenderer, RemoveRenderer
  <2>2. Handler(x) => Handler(x)'
    BY <1>1, <2>1, AwakeOtherPosted
  <2>3. CASE x = cur
    BY <1>1, <2>1, <2>3 DEF EraseWindowInfo, Awake, AwakeIfListed, TypeOK,
       InfoTypeOK
  <2>4. CASE x # cur
    <3>1. /\ mWrNotifierEventsRunnable'[x] = mWrNotifierEventsRunnable[x]
          /\ mPendingWrNotifierEvents'[x] = mPendingWrNotifierEvents[x]
          /\ x \in mWindowInfos' <=> x \in mWindowInfos
      BY <1>1, <2>1, <2>4 DEF EraseWindowInfo, TypeOK, InfoTypeOK
    <3> QED BY <1>1, <1>2, <2>1, <2>2, <2>4, <3>1, AwakeKept
  <2> QED BY <2>3, <2>4
<1> QED BY <1>3, <1>4

(* A window is added with an empty queue.                                   *)
LEMMA AwakeAdded ==
  ASSUME IInv, QInv, NEW x \in Windows, NEW w \in Windows, NewRenderer(w)
  PROVE  Awake(x)'
<1>1. /\ Awake(x) /\ TypeOK
      /\ UNCHANGED <<mWrNotifierEventsRunnable, mPendingWrNotifierEvents,
                     events, cur>>
  BY DEF NewRenderer, handlerVars, QInv, IInv
<1>2. Handler(x) => Handler(x)'
  BY <1>1, AwakeTaken DEF NewRenderer
<1>3. /\ mWindowInfos' \in {mWindowInfos, mWindowInfos \cup {w}}
      /\ mWrNotifierEventsQueues' =
           mWrNotifierEventsQueues \cup (mWindowInfos' \ mWindowInfos)
         \/ mWrNotifierEventsQueues' = mWrNotifierEventsQueues \cup {w}
  BY DEF NewRenderer, AddRenderer
<1>4. CASE x # w \/ mWindowInfos' = mWindowInfos
  BY <1>1, <1>2, <1>3, <1>4, AwakeKept
<1>5. CASE x = w /\ mWindowInfos' # mWindowInfos
  <2>1. Queued("NewRenderer", w)
    BY <1>1, QueueTaken DEF NewRenderer, RunnableTaken, TypeOK, ThreadTypeOK
  <2>2. Fresh(w)
    BY <2>1 DEF IInv, AddedOnce
  <2>3. ~mWrNotifierEventsRunnable[w]
    BY <1>1, <1>5, <2>2 DEF Fresh, Awake
  <2> QED BY <1>1, <1>3, <1>5, <2>2, <2>3 DEF Fresh, Awake, AwakeIfListed
<1> QED BY <1>4, <1>5

(* Every step keeps every window awake.                                     *)
LEMMA StepAwake ==
  ASSUME IInv, QInv, [Next]_vars, NEW x \in Windows
  PROVE  Awake(x)'
<1> TypeOK /\ Awake(x) /\ (\A w \in Windows : AddedOnce(w))
  BY DEF IInv, QInv
<1>1. ASSUME NEW w \in Windows,
             Composite(w) \/ RetrySkippedComposite(w) \/ GenerateFrame(w)
               \/ SetFrameStartTime(w) \/ WaitFlushed(w) \/ DestroyRenderer(w)
               \/ FrameBuilt(w) \/ StopRenderBackend(w)
      PROVE  Awake(x)'
  BY <1>1, AwakeSame DEF Composite, RetrySkippedComposite, GenerateFrame,
     SetFrameStartTime, WaitFlushed, DestroyRenderer, FrameBuilt,
     StopRenderBackend, infoVars, queueVars, handlerVars
<1>2. ASSUME NEW w \in Windows,
             NewFrameReady(w) \/ ForwardExternalEvent(w) \/ WakeUp(w)
      PROVE  Awake(x)'
  BY <1>2, AwakePosted DEF NewFrameReady, ForwardExternalEvent, WakeUp,
     queueVars, handlerVars
<1>3. ASSUME NEW w \in Windows, Create(w) \/ SetClearColor(w)
      PROVE  Awake(x)'
  <2>1. Handler(x) => Handler(x)'
    BY <1>3, AwakeOtherPosted DEF Create, SetClearColor
  <2> QED BY <1>3, <2>1, AwakeKept DEF Create, SetClearColor, infoVars,
             queueVars, handlerVars
<1>4. CASE PostShutDownTask
  <2>1. Handler(x) => Handler(x)'
    BY <1>4, AwakeOtherPosted DEF PostShutDownTask
  <2> QED BY <1>4, <2>1, AwakeKept DEF PostShutDownTask, infoVars, queueVars,
             handlerVars
<1>5. ASSUME NEW w \in Windows, RunSetClearColor(w)
      PROVE  Awake(x)'
  <2>1. Handler(x) => Handler(x)'
    BY <1>5, AwakeTaken DEF RunSetClearColor
  <2> QED BY <1>5, <2>1, AwakeKept DEF RunSetClearColor, infoVars, queueVars,
             handlerVars
<1>6. CASE ShutDownTask
  <2>1. Handler(x) => Handler(x)'
    BY <1>6, AwakeTaken DEF ShutDownTask
  <2> QED BY <1>6, <2>1, AwakeKept DEF ShutDownTask, infoVars, queueVars,
             handlerVars
<1>7. ASSUME NEW w \in Windows, EraseQueue(w)
      PROVE  Awake(x)'
  <2>1. Handler(x) => Handler(x)'
    BY <1>7, AwakeTaken DEF EraseQueue
  <2>2. w \notin mWindowInfos
    <3>1. Queued("EraseQueue", w)
      BY <1>7, QueueTaken DEF EraseQueue, RunnableTaken, TypeOK, ThreadTypeOK
    <3> QED BY <3>1 DEF AddedOnce
  <2>3. events'[x] # <<>> => events[x] # <<>>
    BY <1>7 DEF EraseQueue, TypeOK, QueueTypeOK
  <2>4. UNCHANGED <<infoVars, handlerVars>>
    BY <1>7 DEF EraseQueue
  <2>5. CASE x # w
    BY <1>7, <2>1, <2>3, <2>4, <2>5, AwakeKept
    DEF EraseQueue, infoVars, handlerVars
  <2>6. CASE x = w
    BY <2>2, <2>4, <2>6 DEF infoVars, Awake, AwakeIfListed
  <2> QED BY <2>5, <2>6
<1>8. CASE RunExternalEvent \/ FrameHandled \/ HandleFrameOneDoc
  <2>1. events' = events \/ PopEvent
    BY <1>8 DEF RunExternalEvent, FrameHandled, HandleFrameOneDoc
  <2>2. cur \in Windows /\ events[cur] # <<>>
    BY <1>8 DEF RunExternalEvent, FrameHandled, HandleFrameOneDoc, AtEvent,
       IInv, Handling, TypeOK, HandlerTypeOK
  <2>3. events'[x] # <<>> => events[x] # <<>>
    BY <2>1, <2>2 DEF PopEvent, TypeOK, QueueTypeOK
  <2> QED BY <1>8, <2>3, AwakeKept DEF RunExternalEvent, FrameHandled,
             HandleFrameOneDoc, infoVars, handlerVars, Handler, Queued
<1>9. CASE TaskReturns \/ SessionsRebuilt \/ ShutDown \/ ThreadJoined
           \/ StartRender \/ FinishRender \/ UNCHANGED vars
  BY <1>9, AwakeSame DEF TaskReturns, SessionsRebuilt, ShutDown, ThreadJoined,
     StartRender, FinishRender, vars, infoVars, queueVars, handlerVars
<1> QED BY <1>1, <1>2, <1>3, <1>4, <1>5, <1>6, <1>7, <1>8, <1>9, AwakeHandled,
           AwakeReturned, AwakeRemoved, AwakeAdded
        DEF Next, CompositorStep, BackendStep, RunnableStep, RenderThreadStep,
            MainStep

-----------------------------------------------------------------------------
(* Every step releases the pools behind the last renderer                   *)

(* A step that posts and takes no runnable.                                 *)
LEMMA PoolsSame ==
  ASSUME PoolsGoLast, UNCHANGED <<mThread, mThreadPool>>,
         mHasShutdown => mHasShutdown'
  PROVE  PoolsGoLast'
  BY DEF PoolsGoLast, Queued

(* A runnable is posted that is neither, or it is one in its time.          *)
LEMMA PoolsPosted ==
  ASSUME TypeOK, PoolsGoLast, NEW tag, NEW v, Run(tag, v) \in Runnable,
         PostRunnable(tag, v), UNCHANGED mThreadPool,
         mHasShutdown => mHasShutdown',
         tag = "NewRenderer" => ~mHasShutdown,
         tag = "ShutDownTask" => mHasShutdown'
  PROVE  PoolsGoLast'
<1>1. /\ mThread \in Seq(Runnable) /\ mThread' = Append(mThread, Run(tag, v))
  BY DEF TypeOK, ThreadTypeOK, PostRunnable
<1>2. /\ Len(mThread') = Len(mThread) + 1 /\ Len(mThread) \in Nat
      /\ \A i \in 1..Len(mThread) : mThread'[i] = mThread[i]
      /\ mThread'[Len(mThread) + 1] = Run(tag, v)
  BY <1>1, AppendElements
<1>3. \A i \in 1..Len(mThread') : i \in 1..Len(mThread) \/ i = Len(mThread) + 1
  BY <1>2
<1>4. ASSUME ~mThreadPool', NEW w \in Windows
      PROVE  mHasShutdown' /\ ~Queued("NewRenderer", w)'
  <2>1. mHasShutdown /\ ~Queued("NewRenderer", w)
    BY <1>4 DEF PoolsGoLast
  <2>2. Run(tag, v) # Run("NewRenderer", w)
    BY <2>1 DEF Run
  <2> QED BY <1>2, <1>3, <2>1, <2>2 DEF Queued
<1>5. ~mThreadPool' => mHasShutdown'
  BY DEF PoolsGoLast
<1>6. Queued("ShutDownTask", NoWindow)' => mHasShutdown'
  <2>1. Run(tag, v) = Run("ShutDownTask", NoWindow) => tag = "ShutDownTask"
    BY DEF Run
  <2> QED BY <1>2, <1>3, <2>1 DEF PoolsGoLast, Queued
<1>7. ASSUME NEW i \in 1..Len(mThread'), NEW j \in 1..Len(mThread'),
             NEW w \in Windows,
             mThread'[i] = Run("ShutDownTask", NoWindow),
             mThread'[j] = Run("NewRenderer", w)
      PROVE  j < i
  <2>1. CASE i \in 1..Len(mThread) /\ j \in 1..Len(mThread)
    BY <1>2, <1>7, <2>1 DEF PoolsGoLast
  <2>2. CASE i = Len(mThread) + 1
    <3>1. j # Len(mThread) + 1
      BY <1>7, <2>2 DEF Run
    <3> QED BY <1>2, <1>3, <2>2, <3>1
  <2>3. CASE i \in 1..Len(mThread) /\ j = Len(mThread) + 1
    <3>1. mHasShutdown
      BY <1>2, <1>7, <2>3 DEF PoolsGoLast, Queued
    <3>2. tag = "NewRenderer"
      BY <1>2, <1>7, <2>3 DEF Run
    <3> QED BY <3>1, <3>2
  <2> QED BY <1>3, <2>1, <2>2, <2>3
<1> QED BY <1>4, <1>5, <1>6, <1>7 DEF PoolsGoLast

(* PostWrNotifierEvents posts a handler at most.                            *)
LEMMA PoolsHandlerPosted ==
  ASSUME TypeOK, PoolsGoLast, NEW w \in Windows,
         PostWrNotifierEvents(w) \/ UNCHANGED mThread,
         UNCHANGED <<mThreadPool, main>>
  PROVE  PoolsGoLast'
<1>1. CASE UNCHANGED mThread
  BY <1>1, PoolsSame DEF mHasShutdown
<1>2. CASE PostRunnable("HandleWrNotifierEvents", w)
  <2>1. Run("HandleWrNotifierEvents", w) \in Runnable
    BY DEF Run, Runnable
  <2> QED BY <1>2, <2>1, PoolsPosted DEF mHasShutdown
<1> QED BY <1>1, <1>2 DEF PostWrNotifierEvents

(* The first runnable is taken; only ShutDownTask releases the pools.       *)
LEMMA PoolsTaken ==
  ASSUME TypeOK, PoolsGoLast, NEW tag, NEW v, RunnableTaken(tag, v),
         mThread' = Tail(mThread), UNCHANGED main,
         \/ UNCHANGED mThreadPool
         \/ tag = "ShutDownTask" /\ v = NoWindow
  PROVE  PoolsGoLast'
<1>1. /\ mThread \in Seq(Runnable) /\ mThread # <<>>
      /\ Head(mThread) = Run(tag, v)
  BY DEF TypeOK, ThreadTypeOK, RunnableTaken
<1>2. /\ Len(mThread) \in Nat /\ Len(mThread) >= 1
      /\ Len(mThread') = Len(mThread) - 1
      /\ \A i \in 1..Len(mThread') : mThread'[i] = mThread[i + 1]
      /\ mThread[1] = Run(tag, v)
  BY <1>1, TailElements
<1>3. \A i \in 1..Len(mThread') : i + 1 \in 1..Len(mThread) /\ 1 < i + 1
  BY <1>2
<1>4. \A t, w : Queued(t, w)' => Queued(t, w)
  BY <1>2, <1>3 DEF Queued
<1>5. CASE UNCHANGED mThreadPool
  <2>1. \A i, j \in 1..Len(mThread') : \A w \in Windows :
           mThread'[i] = Run("ShutDownTask", NoWindow)
             /\ mThread'[j] = Run("NewRenderer", w) => j < i
    <3> SUFFICES ASSUME NEW i \in 1..Len(mThread'), NEW j \in 1..Len(mThread'),
                        NEW w \in Windows,
                        mThread'[i] = Run("ShutDownTask", NoWindow),
                        mThread'[j] = Run("NewRenderer", w)
                 PROVE  j < i
      OBVIOUS
    <3>1. j + 1 < i + 1
      BY <1>2, <1>3 DEF PoolsGoLast
    <3> QED BY <3>1
  <2> QED BY <1>4, <1>5, <2>1 DEF PoolsGoLast, mHasShutdown
<1>6. CASE tag = "ShutDownTask" /\ v = NoWindow
  <2>1. 1 \in 1..Len(mThread) /\ mThread[1] = Run("ShutDownTask", NoWindow)
    BY <1>2, <1>6
  <2>2. mHasShutdown
    BY <2>1 DEF PoolsGoLast, Queued
  <2>3. ASSUME NEW w \in Windows PROVE ~Queued("NewRenderer", w)'
    <3> SUFFICES ASSUME NEW j \in 1..Len(mThread'),
                        mThread'[j] = Run("NewRenderer", w)
                 PROVE  FALSE
      BY DEF Queued
    <3>1. j + 1 < 1
      BY <1>2, <1>3, <2>1 DEF PoolsGoLast
    <3> QED BY <3>1
  <2> QED BY <2>2, <2>3 DEF PoolsGoLast, mHasShutdown, Queued
<1> QED BY <1>5, <1>6

(* Every step keeps the order of renderers and pools.                       *)
LEMMA StepPools ==
  ASSUME TypeOK, PoolsGoLast, [Next]_vars
  PROVE  PoolsGoLast'
<1>0. \A t \in {"NewRenderer", "EraseQueue", "SetClearColor", "ShutDownTask"},
         v \in Windows \cup {NoWindow} : Run(t, v) \in Runnable
  BY DEF Run, Runnable
<1>1. ASSUME NEW w \in Windows, Create(w) \/ SetClearColor(w)
      PROVE  PoolsGoLast'
  BY <1>0, <1>1, PoolsPosted DEF Create, SetClearColor, mHasShutdown
<1>2. CASE PostShutDownTask
  BY <1>0, <1>2, PoolsPosted DEF PostShutDownTask, mHasShutdown
<1>3. CASE RunRemoveRenderer
  <2>1. cur \in Windows /\ UNCHANGED <<mThreadPool, main>>
    BY <1>3 DEF RunRemoveRenderer, AtEvent, TypeOK, HandlerTypeOK
  <2>2. UNCHANGED mThread \/ PostRunnable("EraseQueue", cur)
    BY <1>3 DEF RunRemoveRenderer, RemoveRenderer
  <2> QED BY <1>0, <2>1, <2>2, PoolsPosted, PoolsSame DEF mHasShutdown
<1>4. ASSUME NEW w \in Windows,
             NewFrameReady(w) \/ ForwardExternalEvent(w) \/ WakeUp(w)
      PROVE  PoolsGoLast'
  BY <1>4, PoolsHandlerPosted DEF NewFrameReady, ForwardExternalEvent, WakeUp,
     PostWrNotifierEvent
<1>5. CASE HandlerReturns
  BY <1>5, PoolsHandlerPosted DEF HandlerReturns, RepostIfEventsLeft, TypeOK,
     HandlerTypeOK
<1>6. ASSUME NEW w \in Windows,
             NewRenderer(w) \/ RunSetClearColor(w) \/ EraseQueue(w)
               \/ HandleWrNotifierEvents(w)
      PROVE  PoolsGoLast'
  BY <1>6, PoolsTaken DEF NewRenderer, RunSetClearColor, EraseQueue,
     HandleWrNotifierEvents
<1>7. CASE ShutDownTask
  BY <1>7, PoolsTaken DEF ShutDownTask
<1>8. ASSUME NEW w \in Windows,
             Composite(w) \/ RetrySkippedComposite(w) \/ GenerateFrame(w)
               \/ SetFrameStartTime(w) \/ WaitFlushed(w) \/ DestroyRenderer(w)
               \/ FrameBuilt(w) \/ StopRenderBackend(w)
      PROVE  PoolsGoLast'
  BY <1>8, PoolsSame DEF Composite, RetrySkippedComposite, GenerateFrame,
     SetFrameStartTime, WaitFlushed, DestroyRenderer, FrameBuilt,
     StopRenderBackend, mHasShutdown
<1>9. CASE RunExternalEvent \/ FrameHandled \/ HandleFrameOneDoc
           \/ TaskReturns \/ SessionsRebuilt \/ ShutDown \/ ThreadJoined
           \/ StartRender \/ FinishRender \/ UNCHANGED vars
  BY <1>9, PoolsSame DEF RunExternalEvent, FrameHandled, HandleFrameOneDoc,
     TaskReturns, SessionsRebuilt, ShutDown, ThreadJoined, StartRender,
     FinishRender, vars, mHasShutdown
<1> QED BY <1>1, <1>2, <1>3, <1>4, <1>5, <1>6, <1>7, <1>8, <1>9
        DEF Next, CompositorStep, BackendStep, RunnableStep, RenderThreadStep,
            MainStep

(* An idle handler works for no window.                                     *)
LEMMA StepIdle ==
  ASSUME TypeOK, IdleHandlesNothing, [Next]_vars
  PROVE  IdleHandlesNothing'
<1>1. UNCHANGED handlerVars => IdleHandlesNothing'
  BY DEF IdleHandlesNothing, handlerVars
<1>2. ASSUME NEW w \in Windows, CompositorStep(w) \/ BackendStep(w) \/ WakeUp(w)
      PROVE  UNCHANGED handlerVars
  BY <1>2 DEF CompositorStep, BackendStep, Create, Composite,
     RetrySkippedComposite, GenerateFrame, SetFrameStartTime, SetClearColor,
     WaitFlushed, DestroyRenderer, FrameBuilt, NewFrameReady,
     ForwardExternalEvent, StopRenderBackend, WakeUp
<1>3. ASSUME NEW w \in Windows, RunnableStep(w)
      PROVE  IdleHandlesNothing'
  BY <1>1, <1>3 DEF RunnableStep, NewRenderer, RunSetClearColor, EraseQueue,
     HandleWrNotifierEvents, IdleHandlesNothing
<1>4. CASE TaskReturns \/ SessionsRebuilt \/ MainStep \/ UNCHANGED vars
  BY <1>1, <1>4 DEF TaskReturns, SessionsRebuilt, MainStep, ShutDown,
     PostShutDownTask, ThreadJoined, vars
<1>5. CASE ShutDownTask \/ RunExternalEvent \/ RunRemoveRenderer
  BY <1>1, <1>5 DEF ShutDownTask, RunExternalEvent, RunRemoveRenderer
<1>6. CASE HandleFrameOneDoc \/ StartRender \/ FinishRender \/ FrameHandled
           \/ HandlerReturns
  BY <1>6 DEF HandleFrameOneDoc, StartRender, FinishRender, FrameHandled,
     HandlerReturns, IdleHandlesNothing
<1> QED BY <1>2, <1>1, <1>3, <1>4, <1>5, <1>6 DEF Next, RenderThreadStep

-----------------------------------------------------------------------------
(* The theorems                                                             *)

(* The invariant of the queues holds in every reachable state.              *)
LEMMA QueueInvariant == Spec => []QInv
<1>1. Init => QInv
  <2> SUFFICES ASSUME Init PROVE QInv
    OBVIOUS
  <2>1. ASSUME NEW w \in Windows PROVE Awake(w)
    BY DEF Init, Awake, AwakeIfListed
  <2>2. IdleHandlesNothing
    BY DEF Init, IdleHandlesNothing
  <2>3. PoolsGoLast
    BY DEF Init, PoolsGoLast, Queued
  <2> QED BY <2>1, <2>2, <2>3 DEF QInv
<1>2. IInv /\ QInv /\ [Next]_vars => QInv'
  <2> SUFFICES ASSUME IInv, QInv, [Next]_vars PROVE QInv'
    OBVIOUS
  <2>1. \A w \in Windows : Awake(w)'
    BY StepAwake
  <2>2. IdleHandlesNothing' /\ PoolsGoLast'
    BY StepIdle, StepPools DEF QInv, IInv
  <2> QED BY <2>1, <2>2 DEF QInv
<1> QED BY Invariant, <1>1, <1>2, PTL DEF Spec

(* A window that has events has its handler queued or at work               *)
(* (RenderThread::PostWrNotifierEvents and HandleWrNotifierEvents).         *)
THEOREM WakeupsAreNotLost == Spec => []NoLostWakeup
<1>1. IInv /\ QInv => NoLostWakeup
  <2> SUFFICES ASSUME IInv, QInv, NEW w \in mWindowInfos,
                      events[w] # <<>> \/ mPendingWrNotifierEvents[w] # <<>>
               PROVE  HandlerQueued(w) \/ cur = w
    BY DEF NoLostWakeup
  <2>1. w \in Windows
    BY DEF IInv, TypeOK, InfoTypeOK
  <2> QED BY <2>1 DEF QInv, Awake, AwakeIfListed, Handler, Queued, HandlerQueued
<1> QED BY Invariant, QueueInvariant, <1>1, PTL

(* No renderer is made without the thread pools (WebRenderThreadPool::Raw): *)
(* ShutDownTask runs behind every NewRenderer.                              *)
THEOREM PoolsOutliveRenderers == Spec => []PoolOutlivesNewRenderers
<1>1. QInv => PoolOutlivesNewRenderers
  BY DEF QInv, PoolsGoLast, PoolOutlivesNewRenderers, Queued
<1> QED BY QueueInvariant, <1>1, PTL

-----------------------------------------------------------------------------
(* The end of a window's events.                                            *)
Removes(q)       == \E i \in 1..Len(q) : q[i].tag = "RemoveRenderer"
RemovalIsLast(q) == \A i \in 1..Len(q) : q[i].tag = "RemoveRenderer" => i = Len(q)

(* The backend has stopped and nothing more is sent to it.                  *)
Silent(w) == /\ backend[w] = <<>> /\ busy[w] = 0 /\ w \in stopped
             /\ life[w] \in {"destroying", "dead"}

(* RemoveRenderer is sent once, behind Stop, and goes through the queues as *)
(* the last event of its window.                                            *)
NoRemovalYet(w) ==
  life[w] \in {"unused", "creating", "live"} =>
    /\ ~Removes(backend[w])
    /\ ~Removes(mPendingWrNotifierEvents[w]) /\ ~Removes(events[w])
RemovalSent(w) ==
  Removes(backend[w]) =>
    /\ RemovalIsLast(backend[w])
    /\ ~Removes(mPendingWrNotifierEvents[w]) /\ ~Removes(events[w])
    /\ \/ w \in stopped
       \/ /\ Len(backend[w]) >= 2
          /\ backend[w][Len(backend[w]) - 1].tag = "Stop"
RemovalPending(w) ==
  Removes(mPendingWrNotifierEvents[w]) =>
    Silent(w) /\ RemovalIsLast(mPendingWrNotifierEvents[w]) /\ ~Removes(events[w])
RemovalInBatch(w) ==
  Removes(events[w]) =>
    Silent(w) /\ RemovalIsLast(events[w]) /\ mPendingWrNotifierEvents[w] = <<>>

LastEvent(w) == /\ NoRemovalYet(w) /\ RemovalSent(w)
                /\ RemovalPending(w) /\ RemovalInBatch(w)

(* A window is live again only through a new renderer's task, and dead only *)
(* behind the call that destroys it.                                        *)
CallFitsLife ==
  /\ comp.op = "create" => life[comp.window] = "creating"
  /\ comp.op = "destroy" => life[comp.window] = "destroying"

(* One handler is queued for a window that has an entry with its flag set,  *)
(* none for others.                                                         *)
HandlerOnce(w) ==
  /\ QueuedOnce("HandleWrNotifierEvents", w)
  /\ Handler(w) => w \in mWindowInfos /\ mWrNotifierEventsRunnable[w]

(* While a handler works, another one is queued only for new events.        *)
FlagMeansPending ==
  pc # "idle" /\ cur \in mWindowInfos /\ mWrNotifierEventsRunnable[cur] =>
    mPendingWrNotifierEvents[cur] # <<>>

QueueInUse == pc # "idle" => cur \in mWrNotifierEventsQueues

RInv == /\ \A w \in Windows : LastEvent(w) /\ HandlerOnce(w)
        /\ CallFitsLife /\ FlagMeansPending /\ QueueInUse

-----------------------------------------------------------------------------
(* Queues with a removal at their end                                       *)

(* One more event or message.                                               *)
LEMMA RemovesAppend ==
  ASSUME NEW S, NEW q \in Seq(S), NEW e \in S
  PROVE  /\ Removes(Append(q, e)) => Removes(q) \/ e.tag = "RemoveRenderer"
         /\ ~Removes(q) => RemovalIsLast(Append(q, e))
<1>1. /\ Len(Append(q, e)) = Len(q) + 1 /\ Len(q) \in Nat
      /\ \A i \in 1..Len(q) : Append(q, e)[i] = q[i]
      /\ Append(q, e)[Len(q) + 1] = e
  BY AppendElements
<1>2. \A i \in 1..Len(Append(q, e)) : i \in 1..Len(q) \/ i = Len(q) + 1
  BY <1>1
<1> QED BY <1>1, <1>2 DEF Removes, RemovalIsLast

(* One less.                                                                *)
LEMMA RemovesTail ==
  ASSUME NEW S, NEW q \in Seq(S), q # <<>>
  PROVE  /\ Removes(Tail(q)) => Removes(q)
         /\ RemovalIsLast(q) => RemovalIsLast(Tail(q))
         /\ Head(q).tag = "RemoveRenderer" => Removes(q)
         /\ RemovalIsLast(q) /\ Head(q).tag = "RemoveRenderer" =>
              Tail(q) = <<>> /\ Len(q) = 1
<1>1. /\ Len(q) \in Nat /\ Len(q) >= 1 /\ Len(Tail(q)) = Len(q) - 1
      /\ \A i \in 1..Len(Tail(q)) : Tail(q)[i] = q[i + 1]
      /\ Head(q) = q[1]
  BY TailElements
<1>2. /\ \A i \in 1..Len(Tail(q)) : i + 1 \in 1..Len(q)
      /\ 1 \in 1..Len(q)
  BY <1>1
<1>3. Removes(Tail(q)) => Removes(q)
  BY <1>1, <1>2 DEF Removes
<1>4. ASSUME RemovalIsLast(q), NEW i \in 1..Len(Tail(q)),
             Tail(q)[i].tag = "RemoveRenderer"
      PROVE  i = Len(Tail(q))
  <2>1. q[i + 1].tag = "RemoveRenderer" /\ i + 1 \in 1..Len(q)
    BY <1>1, <1>2, <1>4
  <2>2. i + 1 = Len(q)
    BY <1>4, <2>1 DEF RemovalIsLast
  <2> DEFINE m == Len(Tail(q))
             n == Len(q)
  <2>3. n \in Nat /\ m = n - 1 /\ i \in 1..m /\ i + 1 = n
    BY <1>1, <2>2
  <2> HIDE DEF m, n
  <2>4. i = m
    BY <2>3
  <2> QED BY <2>4 DEF m
<1>5. Head(q).tag = "RemoveRenderer" => Removes(q)
  BY <1>1, <1>2 DEF Removes
<1>6. ASSUME RemovalIsLast(q), Head(q).tag = "RemoveRenderer"
      PROVE  Tail(q) = <<>> /\ Len(q) = 1
  <2>1. Len(q) = 1
    BY <1>1, <1>2, <1>6 DEF RemovalIsLast
  <2>2. Tail(q) \in Seq(S) /\ Len(Tail(q)) = 0
    BY <1>1, <2>1
  <2> QED BY <2>1, <2>2, EmptySeq
<1> QED BY <1>3, <1>4, <1>5, <1>6 DEF RemovalIsLast

(* No event, no removal.                                                    *)
LEMMA RemovesNothing == ~Removes(<<>>) /\ RemovalIsLast(<<>>)
  BY EmptySeq DEF Removes, RemovalIsLast

-----------------------------------------------------------------------------
(* Every step keeps the removal last                                        *)

(* A step that sends the window nothing.                                    *)
Alive == {"unused", "creating", "live"}
Gone  == {"destroying", "dead"}

LEMMA LastKept ==
  ASSUME TypeOK, NEW x \in Windows, LastEvent(x),
         life'[x] \in Alive => life[x] \in Alive,
         life[x] \in Gone => life'[x] \in Gone,
         x \in stopped => x \in stopped',
         backend'[x] = backend[x], busy'[x] = busy[x],
         mPendingWrNotifierEvents'[x] \in {mPendingWrNotifierEvents[x], <<>>},
         \/ events'[x] \in {events[x], <<>>}
         \/ events[x] # <<>> /\ events'[x] = Tail(events[x])
  PROVE  LastEvent(x)'
<1>1. /\ events[x] \in Seq(Event)
      /\ Removes(events'[x]) => Removes(events[x])
      /\ RemovalIsLast(events[x]) => RemovalIsLast(events'[x])
  BY RemovesTail, RemovesNothing DEF TypeOK, QueueTypeOK
<1>2. /\ Removes(mPendingWrNotifierEvents'[x]) =>
           /\ Removes(mPendingWrNotifierEvents[x])
           /\ mPendingWrNotifierEvents'[x] = mPendingWrNotifierEvents[x]
      /\ mPendingWrNotifierEvents[x] = <<>> => mPendingWrNotifierEvents'[x] = <<>>
  BY RemovesNothing
<1>3. Silent(x) => Silent(x)'
  BY DEF Silent, Gone
<1>4. NoRemovalYet(x)'
  BY <1>1, <1>2 DEF LastEvent, NoRemovalYet, Alive
<1>5. RemovalSent(x)'
  BY <1>1, <1>2 DEF LastEvent, RemovalSent
<1>6. RemovalPending(x)'
  BY <1>1, <1>2, <1>3 DEF LastEvent, RemovalPending
<1>7. RemovalInBatch(x)'
  BY <1>1, <1>2, <1>3 DEF LastEvent, RemovalInBatch
<1> QED BY <1>4, <1>5, <1>6, <1>7 DEF LastEvent

(* A step that does nothing to the window.                                  *)
LEMMA LastSame ==
  ASSUME TypeOK, NEW x \in Windows, LastEvent(x),
         UNCHANGED <<life, stopped, backend, busy, mPendingWrNotifierEvents,
                     events>>
  PROVE  LastEvent(x)'
  BY LastKept

(* A live window's backend is sent something else.                          *)
LEMMA LastSent ==
  ASSUME TypeOK, NEW x \in Windows, LastEvent(x), NEW w \in Windows,
         life[w] = "live", NEW m \in Message, m.tag # "RemoveRenderer",
         SendToBackend(w, m),
         UNCHANGED <<life, stopped, busy, mPendingWrNotifierEvents, events>>
  PROVE  LastEvent(x)'
<1>1. CASE x # w
  <2>1. backend'[x] = backend[x]
    BY <1>1 DEF SendToBackend, TypeOK, BackendTypeOK
  <2> QED BY <2>1, LastKept
<1>2. CASE x = w
  <2>1. backend[w] \in Seq(Message) /\ backend'[w] = Append(backend[w], m)
    BY DEF SendToBackend, TypeOK, BackendTypeOK
  <2>2. /\ ~Removes(backend'[w])
        /\ ~Removes(mPendingWrNotifierEvents[w]) /\ ~Removes(events[w])
    BY <1>2, <2>1, RemovesAppend DEF LastEvent, NoRemovalYet
  <2> QED BY <1>2, <2>2 DEF LastEvent, NoRemovalYet, RemovalSent,
             RemovalPending, RemovalInBatch
<1> QED BY <1>1, <1>2

(* The window is destroyed: Stop and RemoveRenderer are sent.               *)
LEMMA LastDestroyed ==
  ASSUME TypeOK, NEW x \in Windows, LastEvent(x), NEW w \in Windows,
         DestroyRenderer(w)
  PROVE  LastEvent(x)'
<1> DEFINE stop == [tag |-> "Stop", id |-> 0]
           remove == ExternalEvent("RemoveRenderer")
           q == Append(backend[w], stop)
<1>1. /\ backend' = [backend EXCEPT ![w] = Append(q, remove)]
      /\ life' = [life EXCEPT ![w] = "destroying"] /\ life[w] = "live"
      /\ UNCHANGED <<mPendingWrNotifierEvents, events, busy, stopped>>
  BY DEF DestroyRenderer, queueVars
<1>2. stop \in Message /\ remove \in Message /\ stop.tag = "Stop"
      /\ backend[w] \in Seq(Message)
  BY DEF Message, ExternalEvent, ExternalEvents, TypeOK, BackendTypeOK
<1> HIDE DEF stop, remove
<1>3. CASE x # w
  <2>1. backend'[x] = backend[x] /\ life'[x] = life[x]
    BY <1>1, <1>3 DEF TypeOK, BackendTypeOK, CompTypeOK
  <2> QED BY <1>1, <2>1, LastKept
<1>4. CASE x = w
  <2>1. /\ ~Removes(backend[w])
        /\ ~Removes(mPendingWrNotifierEvents[w]) /\ ~Removes(events[w])
    BY <1>1, <1>4 DEF LastEvent, NoRemovalYet
  <2>2. q \in Seq(Message) /\ ~Removes(q) /\ Len(q) \in Nat /\ Len(q) >= 1
        /\ q[Len(q)] = stop
    <3>1. Len(q) = Len(backend[w]) + 1 /\ Len(backend[w]) \in Nat
          /\ q[Len(backend[w]) + 1] = stop
      BY <1>2, AppendElements
    <3>2. q \in Seq(Message) /\ ~Removes(q)
      BY <1>2, <2>1, RemovesAppend, AppendProperties
    <3> QED BY <3>1, <3>2
  <2> HIDE DEF q
  <2>3. /\ RemovalIsLast(Append(q, remove))
        /\ Len(Append(q, remove)) = Len(q) + 1
        /\ Append(q, remove)[Len(q)] = stop
    BY <1>2, <2>2, RemovesAppend, AppendElements
  <2>4. /\ backend'[w] = Append(q, remove) /\ life'[w] = "destroying"
    BY <1>1 DEF TypeOK, BackendTypeOK, CompTypeOK
  <2>5. Len(backend'[w]) >= 2 /\ backend'[w][Len(backend'[w]) - 1].tag = "Stop"
    BY <1>2, <2>2, <2>3, <2>4
  <2> QED BY <1>1, <1>4, <2>1, <2>3, <2>4, <2>5
          DEF LastEvent, NoRemovalYet, RemovalSent, RemovalPending,
              RemovalInBatch
<1> QED BY <1>3, <1>4

(* A window whose backend is not silent posts another event.                *)
LEMMA LastPosted ==
  ASSUME TypeOK, NEW x \in Windows, LastEvent(x), NEW w \in Windows,
         NEW e \in Event, e.tag # "RemoveRenderer", PostWrNotifierEvent(w, e),
         ~Silent(w), UNCHANGED <<life, stopped, events, backend>>,
         x # w => busy'[x] = busy[x]
  PROVE  LastEvent(x)'
<1>1. x # w => mPendingWrNotifierEvents'[x] = mPendingWrNotifierEvents[x]
  BY DEF PostWrNotifierEvent, TypeOK, InfoTypeOK
<1>2. CASE x # w
  BY <1>1, <1>2, LastKept
<1>3. CASE x = w
  <2>1. ~Removes(mPendingWrNotifierEvents[w]) /\ ~Removes(events[w])
    BY <1>3 DEF LastEvent, RemovalPending, RemovalInBatch
  <2>2. mPendingWrNotifierEvents'[w] \in
          {mPendingWrNotifierEvents[w], Append(mPendingWrNotifierEvents[w], e)}
    BY DEF PostWrNotifierEvent, TypeOK, InfoTypeOK
  <2>3. ~Removes(mPendingWrNotifierEvents'[w])
    <3>1. mPendingWrNotifierEvents[w] \in Seq(Event)
      BY DEF TypeOK, InfoTypeOK
    <3>2. ~Removes(Append(mPendingWrNotifierEvents[w], e))
      BY <2>1, <3>1, RemovesAppend
    <3> QED BY <2>1, <2>2, <3>2
  <2> QED BY <1>3, <2>1, <2>3 DEF LastEvent, NoRemovalYet, RemovalSent,
             RemovalPending, RemovalInBatch
<1> QED BY <1>2, <1>3

(* The backend takes a message that is no removal: the window is not silent *)
(* yet, and if the removal waits, it is still the last.                     *)
LEMMA BackendTakesOther ==
  ASSUME TypeOK, NEW w \in Windows, LastEvent(w), NEW tags,
         BackendTakes(w, tags), Head(backend[w]).tag # "RemoveRenderer",
         Head(backend[w]).tag = "Stop" => w \in stopped',
         w \in stopped => w \in stopped'
  PROVE  /\ ~Removes(mPendingWrNotifierEvents[w]) /\ ~Removes(events[w])
         /\ Removes(backend'[w]) =>
              /\ Removes(backend[w]) /\ RemovalIsLast(backend'[w])
              /\ \/ w \in stopped'
                 \/ /\ Len(backend'[w]) >= 2
                    /\ backend'[w][Len(backend'[w]) - 1].tag = "Stop"
<1>1. /\ backend[w] \in Seq(Message) /\ backend[w] # <<>>
      /\ backend'[w] = Tail(backend[w])
  BY DEF BackendTakes, TypeOK, BackendTypeOK
<1>2. ~Removes(mPendingWrNotifierEvents[w]) /\ ~Removes(events[w])
  BY <1>1 DEF LastEvent, RemovalPending, RemovalInBatch, Silent
<1>3. ASSUME Removes(backend'[w])
      PROVE  /\ Removes(backend[w]) /\ RemovalIsLast(backend'[w])
             /\ \/ w \in stopped'
                \/ /\ Len(backend'[w]) >= 2
                   /\ backend'[w][Len(backend'[w]) - 1].tag = "Stop"
  <2>1. Removes(backend[w]) /\ RemovalIsLast(backend'[w])
    BY <1>1, <1>3, RemovesTail DEF LastEvent, RemovalSent
  <2>2. CASE w \in stopped
    BY <2>1, <2>2
  <2>3. CASE w \notin stopped /\ Head(backend[w]).tag # "Stop"
    <3>1. /\ Len(backend[w]) >= 2
          /\ backend[w][Len(backend[w]) - 1].tag = "Stop"
      BY <2>1, <2>3 DEF LastEvent, RemovalSent
    <3>2. /\ Len(backend[w]) \in Nat /\ Len(backend'[w]) = Len(backend[w]) - 1
          /\ \A i \in 1..Len(backend'[w]) : backend'[w][i] = backend[w][i + 1]
          /\ Head(backend[w]) = backend[w][1]
      BY <1>1, TailElements
    <3>3. Len(backend[w]) # 2
      BY <2>3, <3>1, <3>2
    <3>4. /\ Len(backend[w]) - 2 \in 1..Len(backend'[w])
          /\ Len(backend[w]) - 2 + 1 = Len(backend[w]) - 1
          /\ Len(backend'[w]) - 1 = Len(backend[w]) - 2
          /\ Len(backend'[w]) >= 2
      <4> DEFINE n == Len(backend[w])
      <4>1. n \in Nat /\ n >= 2 /\ n # 2 /\ Len(backend'[w]) = n - 1
        BY <3>1, <3>2, <3>3
      <4> HIDE DEF n
      <4>2. /\ n - 2 \in 1..(n - 1) /\ n - 2 + 1 = n - 1
            /\ n - 1 - 1 = n - 2 /\ n - 1 >= 2
        BY <4>1
      <4> QED BY <4>1, <4>2 DEF n
    <3> QED BY <2>1, <3>1, <3>2, <3>3, <3>4
  <2>4. CASE Head(backend[w]).tag = "Stop"
    BY <2>1, <2>4
  <2> QED BY <2>2, <2>3, <2>4
<1> QED BY <1>2, <1>3

(* The backend forwards the removal: it is the last message, behind Stop.   *)
LEMMA LastForwarded ==
  ASSUME TypeOK, NEW x \in Windows, LastEvent(x), NEW w \in Windows,
         ForwardExternalEvent(w)
  PROVE  LastEvent(x)'
<1> DEFINE e == Head(backend[w])
<1>1. /\ backend[w] \in Seq(Message) /\ backend[w] # <<>>
      /\ backend'[w] = Tail(backend[w]) /\ busy[w] = 0
      /\ x # w => backend'[x] = backend[x]
      /\ UNCHANGED <<life, stopped, events, busy>>
  BY DEF ForwardExternalEvent, BackendTakes, TypeOK, BackendTypeOK, queueVars,
     compVars
<1>2. e \in Event
  <2>1. e \in Message
    BY <1>1, HeadTailProperties
  <2> QED BY <2>1 DEF ForwardExternalEvent, BackendTakes, ForwardedTags, Message,
             Event, ExternalEvents
<1>3. /\ x # w => mPendingWrNotifierEvents'[x] = mPendingWrNotifierEvents[x]
      /\ mPendingWrNotifierEvents'[w] \in
           {mPendingWrNotifierEvents[w], Append(mPendingWrNotifierEvents[w], e)}
  BY DEF ForwardExternalEvent, PostWrNotifierEvent, TypeOK, InfoTypeOK
<1> HIDE DEF e
<1>4. CASE x # w
  BY <1>1, <1>3, <1>4, LastKept
<1>5. CASE x = w /\ e.tag # "RemoveRenderer"
  <2>1. e.tag # "Stop"
    BY DEF ForwardExternalEvent, BackendTakes, ForwardedTags, ExternalEvents, e
  <2>2. /\ ~Removes(mPendingWrNotifierEvents[w]) /\ ~Removes(events[w])
        /\ Removes(backend'[w]) =>
              /\ Removes(backend[w]) /\ RemovalIsLast(backend'[w])
              /\ \/ w \in stopped'
                 \/ /\ Len(backend'[w]) >= 2
                    /\ backend'[w][Len(backend'[w]) - 1].tag = "Stop"
    BY <1>1, <1>5, <2>1, BackendTakesOther DEF ForwardExternalEvent, e
  <2>3. ~Removes(mPendingWrNotifierEvents'[w])
    <3>1. mPendingWrNotifierEvents[w] \in Seq(Event)
      BY DEF TypeOK, InfoTypeOK
    <3>2. ~Removes(Append(mPendingWrNotifierEvents[w], e))
      BY <1>2, <1>5, <2>2, <3>1, RemovesAppend
    <3> QED BY <1>3, <2>2, <3>2
  <2> QED BY <1>1, <1>5, <2>2, <2>3 DEF LastEvent, NoRemovalYet, RemovalSent,
             RemovalPending, RemovalInBatch
<1>6. CASE x = w /\ e.tag = "RemoveRenderer"
  <2>1. Removes(backend[w])
    BY <1>1, <1>6, RemovesTail DEF e
  <2>2. /\ RemovalIsLast(backend[w])
        /\ ~Removes(mPendingWrNotifierEvents[w]) /\ ~Removes(events[w])
        /\ w \in stopped \/ Len(backend[w]) >= 2
    BY <1>6, <2>1 DEF LastEvent, RemovalSent
  <2>3. backend'[w] = <<>> /\ w \in stopped
    <3>1. Tail(backend[w]) = <<>> /\ Len(backend[w]) = 1
      BY <1>1, <1>6, <2>2, RemovesTail DEF e
    <3> QED BY <1>1, <2>2, <3>1
  <2>4. life[w] \in {"destroying", "dead"}
    BY <1>6, <2>1 DEF LastEvent, NoRemovalYet, TypeOK, CompTypeOK
  <2>5. Silent(w)' /\ ~Removes(backend'[w])
    BY <1>1, <2>3, <2>4, RemovesNothing DEF Silent
  <2>6. Removes(mPendingWrNotifierEvents'[w]) =>
          RemovalIsLast(mPendingWrNotifierEvents'[w])
    <3>1. mPendingWrNotifierEvents[w] \in Seq(Event)
      BY DEF TypeOK, InfoTypeOK
    <3>2. RemovalIsLast(Append(mPendingWrNotifierEvents[w], e))
      BY <1>2, <2>2, <3>1, RemovesAppend
    <3> QED BY <1>3, <2>2, <3>2
  <2> QED BY <1>1, <1>6, <2>2, <2>4, <2>5, <2>6 DEF LastEvent, NoRemovalYet,
             RemovalSent, RemovalPending, RemovalInBatch
<1> QED BY <1>4, <1>5, <1>6

(* The backend builds a frame, or stops.                                    *)
LEMMA LastTaken ==
  ASSUME TypeOK, NEW x \in Windows, LastEvent(x), NEW w \in Windows,
         FrameBuilt(w) \/ StopRenderBackend(w)
  PROVE  LastEvent(x)'
<1>1. /\ BackendTakes(w, {"GenerateFrame", "Stop"})
      /\ UNCHANGED <<life, mPendingWrNotifierEvents, events>>
      /\ Head(backend[w]).tag = "Stop" => w \in stopped'
      /\ \A y \in Windows : y \in stopped => y \in stopped'
      /\ x # w => busy'[x] = busy[x]
  BY DEF FrameBuilt, StopRenderBackend, BackendTakes, infoVars, queueVars,
     compVars, TypeOK, BackendTypeOK
<1>2. Head(backend[w]).tag # "RemoveRenderer"
  BY <1>1 DEF BackendTakes
<1>3. CASE x # w
  <2>1. backend'[x] = backend[x]
    BY <1>1, <1>3 DEF BackendTakes, TypeOK, BackendTypeOK
  <2> QED BY <1>1, <1>3, <2>1, LastKept
<1>4. CASE x = w
  <2>1. /\ ~Removes(mPendingWrNotifierEvents[w]) /\ ~Removes(events[w])
        /\ Removes(backend'[w]) =>
              /\ Removes(backend[w]) /\ RemovalIsLast(backend'[w])
              /\ \/ w \in stopped'
                 \/ /\ Len(backend'[w]) >= 2
                    /\ backend'[w][Len(backend'[w]) - 1].tag = "Stop"
    BY <1>1, <1>2, <1>4, BackendTakesOther
  <2> QED BY <1>1, <1>4, <2>1 DEF LastEvent, NoRemovalYet, RemovalSent,
             RemovalPending, RemovalInBatch
<1> QED BY <1>3, <1>4

(* The handler takes the pending events over.                               *)
LEMMA LastBatch ==
  ASSUME TypeOK, NEW x \in Windows, LastEvent(x), NEW w \in Windows,
         HandleWrNotifierEvents(w)
  PROVE  LastEvent(x)'
<1>1. UNCHANGED <<life, stopped, backend, busy>>
  BY DEF HandleWrNotifierEvents, compVars, backendVars
<1>2. \/ UNCHANGED <<events, mPendingWrNotifierEvents>>
      \/ x # w /\ events'[x] = events[x]
           /\ mPendingWrNotifierEvents'[x] = mPendingWrNotifierEvents[x]
      \/ x = w /\ events[w] = <<>> /\ events'[w] = mPendingWrNotifierEvents[w]
           /\ mPendingWrNotifierEvents'[w] = <<>>
  BY DEF HandleWrNotifierEvents, TakePendingEvents, TypeOK, InfoTypeOK,
     QueueTypeOK
<1>3. CASE UNCHANGED <<events, mPendingWrNotifierEvents>>
  BY <1>1, <1>3, LastSame
<1>4. CASE x # w /\ events'[x] = events[x]
             /\ mPendingWrNotifierEvents'[x] = mPendingWrNotifierEvents[x]
  BY <1>1, <1>4, LastKept
<1>5. CASE x = w /\ events[w] = <<>> /\ events'[w] = mPendingWrNotifierEvents[w]
             /\ mPendingWrNotifierEvents'[w] = <<>>
  BY <1>1, <1>5, RemovesNothing DEF LastEvent, NoRemovalYet, RemovalSent,
     RemovalPending, RemovalInBatch, Silent
<1> QED BY <1>2, <1>3, <1>4, <1>5

(* Every step keeps the removal last.                                       *)
LEMMA StepLast ==
  ASSUME IInv, RInv, [Next]_vars, NEW x \in Windows
  PROVE  LastEvent(x)'
<1> TypeOK /\ LastEvent(x) /\ Accepted /\ Handling /\ CallFitsLife
    /\ \A w \in Windows : LastEvent(w)
  BY DEF IInv, RInv
<1>1. ASSUME NEW w \in Windows, Create(w)
      PROVE  LastEvent(x)'
  <2>1. /\ life'[x] \in Alive => life[x] \in Alive
        /\ life[x] \in Gone => life'[x] \in Gone
    BY <1>1 DEF Create, Alive, Gone, TypeOK, CompTypeOK
  <2> QED BY <1>1, <2>1, LastKept DEF Create, infoVars, queueVars, backendVars
<1>2. CASE TaskReturns
  <2>1. /\ life'[x] \in Alive => life[x] \in Alive
        /\ life[x] \in Gone => life'[x] \in Gone
    BY <1>2 DEF TaskReturns, CallFitsLife, Alive, Gone, TypeOK, CompTypeOK
  <2> QED BY <1>2, <2>1, LastKept DEF TaskReturns, infoVars, queueVars,
             backendVars
<1>3. ASSUME NEW w \in Windows, GenerateFrame(w)
      PROVE  LastEvent(x)'
  <2>1. life[w] = "live"
    BY <1>3 DEF GenerateFrame, Accepted
  <2>2. [tag |-> "GenerateFrame", id |-> issued[w] + 1] \in Message
    BY DEF Message, TypeOK, BackendTypeOK
  <2> QED BY <1>3, <2>1, <2>2, LastSent DEF GenerateFrame, queueVars
<1>4. ASSUME NEW w \in Windows, SetFrameStartTime(w) \/ WaitFlushed(w)
      PROVE  LastEvent(x)'
  <2>1. /\ ExternalEvent("FrameStartTime") \in Message
        /\ ExternalEvent("WaitFlushed") \in Message
        /\ ExternalEvent("FrameStartTime").tag # "RemoveRenderer"
        /\ ExternalEvent("WaitFlushed").tag # "RemoveRenderer"
    BY DEF Message, ExternalEvent, ExternalEvents
  <2> QED BY <1>4, <2>1, LastSent DEF SetFrameStartTime, WaitFlushed, infoVars,
             queueVars, compVars
<1>5. ASSUME NEW w \in Windows, NewFrameReady(w)
      PROVE  LastEvent(x)'
  <2>1. ~Silent(w) /\ (x # w => busy'[x] = busy[x])
    BY <1>5 DEF NewFrameReady, Silent, TypeOK, BackendTypeOK
  <2>2. NewFrameReadyEvent(busy[w]) \in Event
        /\ NewFrameReadyEvent(busy[w]).tag # "RemoveRenderer"
    BY DEF NewFrameReadyEvent, Event, TypeOK, BackendTypeOK
  <2> QED BY <1>5, <2>1, <2>2, LastPosted DEF NewFrameReady, queueVars, compVars
<1>6. ASSUME NEW w \in Windows, WakeUp(w)
      PROVE  LastEvent(x)'
  <2>1. ~Silent(w)
    BY <1>6 DEF WakeUp, Silent
  <2>2. WakeUpEvent \in Event /\ WakeUpEvent.tag # "RemoveRenderer"
    BY DEF WakeUpEvent, Event
  <2> QED BY <1>6, <2>1, <2>2, LastPosted DEF WakeUp, queueVars, compVars,
             backendVars
<1>7. ASSUME NEW w \in Windows,
             Composite(w) \/ RetrySkippedComposite(w) \/ SetClearColor(w)
               \/ NewRenderer(w) \/ RunSetClearColor(w)
      PROVE  LastEvent(x)'
  BY <1>7, LastSame DEF Composite, RetrySkippedComposite, SetClearColor,
     NewRenderer, RunSetClearColor, infoVars, queueVars, compVars, backendVars
<1>8. ASSUME NEW w \in Windows, EraseQueue(w)
      PROVE  LastEvent(x)'
  <2>1. events'[x] \in {events[x], <<>>}
    BY <1>8 DEF EraseQueue, TypeOK, QueueTypeOK
  <2> QED BY <1>8, <2>1, LastKept DEF EraseQueue, infoVars, compVars, backendVars
<1>9. CASE RunExternalEvent \/ FrameHandled \/ HandleFrameOneDoc
           \/ RunRemoveRenderer
  <2>1. events' = events \/ PopEvent
    BY <1>9 DEF RunExternalEvent, FrameHandled, HandleFrameOneDoc,
       RunRemoveRenderer
  <2>2. cur \in Windows /\ events[cur] # <<>>
    BY <1>9 DEF RunExternalEvent, FrameHandled, HandleFrameOneDoc,
       RunRemoveRenderer, AtEvent, Handling, TypeOK, HandlerTypeOK
  <2>3. events'[x] = events[x] \/ (events[x] # <<>> /\ events'[x] = Tail(events[x]))
    BY <2>1, <2>2 DEF PopEvent, TypeOK, QueueTypeOK
  <2>4. mPendingWrNotifierEvents'[x] \in {mPendingWrNotifierEvents[x], <<>>}
    BY <1>9, <2>2 DEF RunExternalEvent, FrameHandled, HandleFrameOneDoc,
       RunRemoveRenderer, RemoveRenderer, EraseWindowInfo, infoVars, TypeOK,
       InfoTypeOK
  <2>5. UNCHANGED <<life, stopped, backend, busy>>
    BY <1>9 DEF RunExternalEvent, FrameHandled, HandleFrameOneDoc,
       RunRemoveRenderer, compVars, backendVars
  <2> QED BY <2>3, <2>4, <2>5, LastKept
<1>10. CASE SessionsRebuilt \/ MainStep \/ ShutDownTask \/ StartRender
            \/ FinishRender \/ HandlerReturns \/ UNCHANGED vars
  BY <1>10, LastSame DEF SessionsRebuilt, MainStep, ShutDown, PostShutDownTask,
     ThreadJoined, ShutDownTask, StartRender, FinishRender, HandlerReturns,
     vars, infoVars, queueVars, compVars, backendVars
<1> QED BY <1>1, <1>2, <1>3, <1>4, <1>5, <1>6, <1>7, <1>8, <1>9, <1>10,
           LastDestroyed, LastForwarded, LastTaken, LastBatch
        DEF Next, CompositorStep, BackendStep, RunnableStep, RenderThreadStep

-----------------------------------------------------------------------------
(* Every step keeps one handler for a window                                *)

(* A step that posts no handler and does nothing to the entry.              *)
LEMMA OnceKept ==
  ASSUME NEW x \in Windows, HandlerOnce(x),
         QueuedOnce("HandleWrNotifierEvents", x)',
         Handler(x)' => Handler(x),
         x \in mWindowInfos => x \in mWindowInfos',
         mWrNotifierEventsRunnable'[x] = mWrNotifierEventsRunnable[x]
  PROVE  HandlerOnce(x)'
  BY DEF HandlerOnce

(* A step that posts and takes nothing.                                     *)
LEMMA OnceSame ==
  ASSUME NEW x \in Windows, HandlerOnce(x),
         UNCHANGED <<mThread, mWindowInfos, mWrNotifierEventsRunnable>>
  PROVE  HandlerOnce(x)'
  BY DEF HandlerOnce, Handler, Queued, QueuedOnce

(* A runnable of another kind is posted.                                    *)
LEMMA OnceOtherPosted ==
  ASSUME TypeOK, NEW x \in Windows, HandlerOnce(x),
         NEW tag \in {"NewRenderer", "EraseQueue", "SetClearColor", "ShutDownTask"},
         NEW w \in Windows \cup {NoWindow}, PostRunnable(tag, w)
  PROVE  /\ QueuedOnce("HandleWrNotifierEvents", x)'
         /\ Handler(x)' => Handler(x)
<1>1. /\ mThread \in Seq(Runnable) /\ Run(tag, w) \in Runnable
      /\ Run(tag, w) # Run("HandleWrNotifierEvents", x)
  BY DEF TypeOK, ThreadTypeOK, Run, Runnable
<1> QED BY <1>1, QueuePosted DEF PostRunnable, HandlerOnce, Handler

(* A runnable is taken; if it is the handler, no other is left.             *)
LEMMA OnceTaken ==
  ASSUME TypeOK, NEW x \in Windows, HandlerOnce(x), NEW tag, NEW w,
         RunnableTaken(tag, w), mThread' = Tail(mThread)
  PROVE  /\ QueuedOnce("HandleWrNotifierEvents", x)'
         /\ Handler(x)' => Handler(x)
         /\ tag = "HandleWrNotifierEvents" /\ w = x => Handler(x) /\ ~Handler(x)'
<1>1. /\ mThread \in Seq(Runnable) /\ mThread # <<>>
      /\ Head(mThread) = Run(tag, w)
  BY DEF TypeOK, ThreadTypeOK, RunnableTaken
<1> QED BY <1>1, QueueTaken DEF HandlerOnce, Handler

(* A handler is posted: the flag was clear, so there was none.              *)
LEMMA OncePosted ==
  ASSUME TypeOK, NEW x \in Windows, HandlerOnce(x), NEW w \in Windows,
         w \in mWindowInfos, UNCHANGED mWindowInfos,
         PostWrNotifierEvents(w)
  PROVE  HandlerOnce(x)'
<1>1. CASE mWrNotifierEventsRunnable[w]
  BY <1>1, OnceSame DEF PostWrNotifierEvents
<1>2. CASE ~mWrNotifierEventsRunnable[w]
  <2> DEFINE h == Run("HandleWrNotifierEvents", w)
  <2>1. /\ mThread \in Seq(Runnable) /\ h \in Runnable
        /\ mThread' = Append(mThread, h)
        /\ mWrNotifierEventsRunnable' =
             [mWrNotifierEventsRunnable EXCEPT ![w] = TRUE]
    BY <1>2 DEF PostWrNotifierEvents, PostRunnable, TypeOK, ThreadTypeOK, Run,
       Runnable
  <2>2. CASE x # w
    <3>1. h # Run("HandleWrNotifierEvents", x)
      BY <2>2 DEF Run
    <3>2. mWrNotifierEventsRunnable'[x] = mWrNotifierEventsRunnable[x]
      BY <2>1, <2>2 DEF TypeOK, InfoTypeOK
    <3>3. /\ Handler(x)' => Handler(x)
          /\ QueuedOnce("HandleWrNotifierEvents", x)'
      BY <2>1, <3>1, QueuePosted DEF HandlerOnce, Handler
    <3> QED BY <3>2, <3>3, OnceKept
  <2>3. CASE x = w
    <3>1. ~Handler(x)
      BY <1>2, <2>3 DEF HandlerOnce
    <3>2. /\ Len(mThread') = Len(mThread) + 1 /\ Len(mThread) \in Nat
          /\ \A i \in 1..Len(mThread) : mThread'[i] = mThread[i]
      BY <2>1, AppendElements
    <3>3. \A i \in 1..Len(mThread') : i \in 1..Len(mThread) \/ i = Len(mThread) + 1
      BY <3>2
    <3>4. \A i \in 1..Len(mThread') :
            mThread'[i] = Run("HandleWrNotifierEvents", x) => i = Len(mThread) + 1
      BY <3>1, <3>2, <3>3 DEF Handler, Queued
    <3>5. QueuedOnce("HandleWrNotifierEvents", x)'
      BY <3>4 DEF QueuedOnce
    <3>6. mWrNotifierEventsRunnable'[x]
      BY <2>1, <2>3 DEF TypeOK, InfoTypeOK
    <3> QED BY <2>3, <3>5, <3>6 DEF HandlerOnce
  <2> QED BY <2>2, <2>3
<1> QED BY <1>1, <1>2

(* When the removal is handled, no handler of the window is queued.         *)
LEMMA NoneQueuedAtRemoval ==
  ASSUME IInv, RInv, RunRemoveRenderer
  PROVE  cur \in Windows /\ ~Handler(cur)
<1>1. /\ cur \in Windows /\ pc = "loop" /\ events[cur] # <<>>
      /\ events[cur] \in Seq(Event) /\ Head(events[cur]).tag = "RemoveRenderer"
  BY DEF RunRemoveRenderer, AtEvent, IInv, TypeOK, HandlerTypeOK, QueueTypeOK
<1>2. Removes(events[cur])
  BY <1>1, RemovesTail
<1>3. mPendingWrNotifierEvents[cur] = <<>>
  BY <1>1, <1>2 DEF RInv, LastEvent, RemovalInBatch
<1> QED BY <1>1, <1>3 DEF RInv, FlagMeansPending, HandlerOnce

(* Every step keeps one handler for a window with an entry.                 *)
LEMMA StepOnce ==
  ASSUME IInv, QInv, RInv, [Next]_vars, NEW x \in Windows
  PROVE  HandlerOnce(x)'
<1> TypeOK /\ HandlerOnce(x) /\ \A w \in Windows : Awake(w)
  BY DEF IInv, QInv, RInv
<1>1. ASSUME NEW w \in Windows,
             Composite(w) \/ RetrySkippedComposite(w) \/ GenerateFrame(w)
               \/ SetFrameStartTime(w) \/ WaitFlushed(w) \/ DestroyRenderer(w)
               \/ FrameBuilt(w) \/ StopRenderBackend(w)
      PROVE  HandlerOnce(x)'
  BY <1>1, OnceSame DEF Composite, RetrySkippedComposite, GenerateFrame,
     SetFrameStartTime, WaitFlushed, DestroyRenderer, FrameBuilt,
     StopRenderBackend, infoVars
<1>2. ASSUME NEW w \in Windows,
             NewFrameReady(w) \/ ForwardExternalEvent(w) \/ WakeUp(w)
      PROVE  HandlerOnce(x)'
  BY <1>2, OncePosted, OnceSame DEF NewFrameReady, ForwardExternalEvent, WakeUp,
     PostWrNotifierEvent
<1>3. ASSUME NEW w \in Windows, Create(w) \/ SetClearColor(w)
      PROVE  HandlerOnce(x)'
  BY <1>3, OnceOtherPosted, OnceKept DEF Create, SetClearColor, infoVars
<1>4. CASE PostShutDownTask
  BY <1>4, OnceOtherPosted, OnceKept DEF PostShutDownTask, infoVars
<1>5. ASSUME NEW w \in Windows,
             NewRenderer(w) \/ RunSetClearColor(w) \/ EraseQueue(w)
      PROVE  HandlerOnce(x)'
  <2>1. /\ QueuedOnce("HandleWrNotifierEvents", x)'
        /\ Handler(x)' => Handler(x)
    BY <1>5, OnceTaken DEF NewRenderer, RunSetClearColor, EraseQueue
  <2>2. /\ x \in mWindowInfos => x \in mWindowInfos'
        /\ UNCHANGED mWrNotifierEventsRunnable
    BY <1>5 DEF NewRenderer, AddRenderer, RunSetClearColor, EraseQueue, infoVars
  <2> QED BY <2>1, <2>2, OnceKept
<1>6. CASE ShutDownTask
  BY <1>6, OnceTaken, OnceKept DEF ShutDownTask, infoVars
<1>7. ASSUME NEW w \in Windows, HandleWrNotifierEvents(w)
      PROVE  HandlerOnce(x)'
  <2>1. /\ QueuedOnce("HandleWrNotifierEvents", x)'
        /\ Handler(x)' => Handler(x)
        /\ x = w => ~Handler(x)'
        /\ UNCHANGED mWindowInfos
    BY <1>7, OnceTaken DEF HandleWrNotifierEvents
  <2>2. x # w => mWrNotifierEventsRunnable'[x] = mWrNotifierEventsRunnable[x]
    BY <1>7 DEF HandleWrNotifierEvents, TypeOK, InfoTypeOK
  <2> QED BY <2>1, <2>2 DEF HandlerOnce
<1>8. CASE RunRemoveRenderer
  <2>1. cur \in Windows /\ ~Handler(cur)
    BY <1>8, NoneQueuedAtRemoval
  <2>2. CASE mHasShutdown
    BY <1>8, <2>2, OnceSame DEF RunRemoveRenderer, RemoveRenderer, infoVars
  <2>3. CASE ~mHasShutdown
    <3>1. PostRunnable("EraseQueue", cur) /\ EraseWindowInfo(cur)
      BY <1>8, <2>3 DEF RunRemoveRenderer, RemoveRenderer
    <3>2. /\ QueuedOnce("HandleWrNotifierEvents", x)'
          /\ Handler(x)' => Handler(x)
      BY <2>1, <3>1, OnceOtherPosted
    <3>3. x # cur => /\ mWrNotifierEventsRunnable'[x] = mWrNotifierEventsRunnable[x]
                     /\ x \in mWindowInfos => x \in mWindowInfos'
      BY <2>1, <3>1 DEF EraseWindowInfo, TypeOK, InfoTypeOK
    <3> QED BY <2>1, <3>2, <3>3 DEF HandlerOnce
  <2> QED BY <2>2, <2>3
<1>9. CASE HandlerReturns
  BY <1>9, OncePosted, OnceSame DEF HandlerReturns, RepostIfEventsLeft, TypeOK,
     HandlerTypeOK
<1>10. CASE RunExternalEvent \/ FrameHandled \/ HandleFrameOneDoc
            \/ TaskReturns \/ SessionsRebuilt \/ ShutDown \/ ThreadJoined
            \/ StartRender \/ FinishRender \/ UNCHANGED vars
  BY <1>10, OnceSame DEF RunExternalEvent, FrameHandled, HandleFrameOneDoc,
     TaskReturns, SessionsRebuilt, ShutDown, ThreadJoined, StartRender,
     FinishRender, vars, infoVars
<1> QED BY <1>1, <1>2, <1>3, <1>4, <1>5, <1>6, <1>7, <1>8, <1>9, <1>10
        DEF Next, CompositorStep, BackendStep, RunnableStep, RenderThreadStep,
            MainStep

-----------------------------------------------------------------------------
(* Every step keeps the rest                                                *)

(* The compositor thread is in one call at a time.                          *)
LEMMA StepCreates ==
  ASSUME TypeOK, CallFitsLife, [Next]_vars
  PROVE  CallFitsLife'
<1>1. UNCHANGED <<comp, life>> => CallFitsLife'
  BY DEF CallFitsLife
<1>2. ASSUME NEW w \in Windows, Create(w) \/ DestroyRenderer(w)
      PROVE  CallFitsLife'
  BY <1>2 DEF Create, DestroyRenderer, CompWaits, CompDoes, CallFitsLife,
     TypeOK, CompTypeOK
<1>3. CASE TaskReturns
  BY <1>3 DEF TaskReturns, CompReturns, CallFitsLife
<1>4. ASSUME NEW w \in Windows,
             Composite(w) \/ RetrySkippedComposite(w) \/ GenerateFrame(w)
               \/ WaitFlushed(w)
      PROVE  CallFitsLife'
  BY <1>4 DEF Composite, RetrySkippedComposite, GenerateFrame, WaitFlushed,
     TryComposite, CompWaits, CompDoes, CompReturns, CompIdle, CallFitsLife
<1>5. ASSUME NEW w \in Windows,
             SetFrameStartTime(w) \/ SetClearColor(w) \/ BackendStep(w) \/ WakeUp(w)
               \/ RunnableStep(w)
      PROVE  UNCHANGED <<comp, life>>
  BY <1>5 DEF SetFrameStartTime, SetClearColor, BackendStep, FrameBuilt,
     NewFrameReady, ForwardExternalEvent, StopRenderBackend, WakeUp,
     RunnableStep, NewRenderer, RunSetClearColor, EraseQueue,
     HandleWrNotifierEvents, compVars
<1>6. CASE SessionsRebuilt \/ MainStep \/ ShutDownTask \/ RunExternalEvent
           \/ RunRemoveRenderer \/ HandleFrameOneDoc \/ StartRender
           \/ FinishRender \/ FrameHandled \/ HandlerReturns \/ UNCHANGED vars
  BY <1>1, <1>6 DEF SessionsRebuilt, MainStep, ShutDown, PostShutDownTask,
     ThreadJoined, ShutDownTask, RunExternalEvent, RunRemoveRenderer,
     HandleFrameOneDoc, StartRender, FinishRender, FrameHandled,
     HandlerReturns, vars, compVars
<1> QED BY <1>1, <1>2, <1>3, <1>4, <1>5, <1>6
        DEF Next, CompositorStep, RenderThreadStep

(* A step that does nothing to the handler's window.                        *)
LEMMA FlagKept ==
  ASSUME FlagMeansPending, QueueInUse, pc' # "idle" => pc # "idle",
         UNCHANGED <<cur, mWrNotifierEventsRunnable, mPendingWrNotifierEvents>>,
         pc # "idle" /\ cur \in mWindowInfos' => cur \in mWindowInfos,
         pc # "idle" /\ cur \in mWrNotifierEventsQueues
           => cur \in mWrNotifierEventsQueues'
  PROVE  FlagMeansPending' /\ QueueInUse'
  BY DEF FlagMeansPending, QueueInUse

(* Every step keeps the queue of the handler and what its flag means.       *)
LEMMA StepFlag ==
  ASSUME TypeOK, FlagMeansPending, QueueInUse, [Next]_vars
  PROVE  FlagMeansPending' /\ QueueInUse'
<1>1. ASSUME NEW w \in Windows, CompositorStep(w)
      PROVE  FlagMeansPending' /\ QueueInUse'
  BY <1>1, FlagKept DEF CompositorStep, Create, Composite,
     RetrySkippedComposite, GenerateFrame, SetFrameStartTime, SetClearColor,
     WaitFlushed, DestroyRenderer, infoVars, queueVars, handlerVars
<1>2. ASSUME NEW w \in Windows, FrameBuilt(w) \/ StopRenderBackend(w)
      PROVE  FlagMeansPending' /\ QueueInUse'
  BY <1>2, FlagKept DEF FrameBuilt, StopRenderBackend, infoVars, queueVars,
     handlerVars
<1>3. ASSUME NEW w \in Windows, NEW e, PostWrNotifierEvent(w, e),
             UNCHANGED <<mWindowInfos, mWrNotifierEventsQueues, pc, cur>>
      PROVE  FlagMeansPending' /\ QueueInUse'
  <2>1. CASE w \notin mWindowInfos
    BY <1>3, <2>1, FlagKept DEF PostWrNotifierEvent
  <2>2. CASE w \in mWindowInfos
    <3>1. mPendingWrNotifierEvents' = [mPendingWrNotifierEvents EXCEPT ![w] =
             Append(mPendingWrNotifierEvents[w], e)]
      BY <2>2, <1>3 DEF PostWrNotifierEvent
    <3>2. mPendingWrNotifierEvents'[w] # <<>>
      BY <3>1 DEF TypeOK, InfoTypeOK
    <3>3. ASSUME NEW y \in Windows, y # w
          PROVE  /\ mPendingWrNotifierEvents'[y] = mPendingWrNotifierEvents[y]
                 /\ mWrNotifierEventsRunnable'[y] = mWrNotifierEventsRunnable[y]
      BY <1>3, <2>2, <3>1, <3>3, HandlerPosted
      DEF PostWrNotifierEvent, TypeOK, InfoTypeOK
    <3>4. pc # "idle" => cur \in Windows
      BY DEF TypeOK, HandlerTypeOK
    <3> QED BY <1>3, <3>2, <3>3, <3>4 DEF FlagMeansPending, QueueInUse
  <2> QED BY <2>1, <2>2
<1>4. ASSUME NEW w \in Windows,
             NewFrameReady(w) \/ ForwardExternalEvent(w) \/ WakeUp(w)
      PROVE  FlagMeansPending' /\ QueueInUse'
  BY <1>3, <1>4 DEF NewFrameReady, ForwardExternalEvent, WakeUp, queueVars,
     handlerVars
<1>5. ASSUME NEW w \in Windows,
             NewRenderer(w) \/ RunSetClearColor(w) \/ EraseQueue(w)
      PROVE  FlagMeansPending' /\ QueueInUse'
  <2>1. pc = "idle" /\ pc' = "idle"
    BY <1>5 DEF NewRenderer, RunSetClearColor, EraseQueue, RunnableTaken,
       handlerVars
  <2> QED BY <2>1 DEF FlagMeansPending, QueueInUse
<1>6. ASSUME NEW w \in Windows, HandleWrNotifierEvents(w)
      PROVE  FlagMeansPending' /\ QueueInUse'
  <2>1. CASE w \in mWrNotifierEventsQueues \cap mWindowInfos
    <3>1. /\ mWrNotifierEventsRunnable' =
               [mWrNotifierEventsRunnable EXCEPT ![w] = FALSE]
          /\ cur' = w /\ UNCHANGED mWrNotifierEventsQueues
      BY <1>6, <2>1 DEF HandleWrNotifierEvents
    <3> QED BY <2>1, <3>1 DEF FlagMeansPending, QueueInUse, TypeOK, InfoTypeOK
  <2>2. CASE w \notin mWrNotifierEventsQueues \cap mWindowInfos
    BY <1>6, <2>2 DEF HandleWrNotifierEvents, RunnableTaken, FlagMeansPending,
       QueueInUse
  <2> QED BY <2>1, <2>2
<1>7. CASE RunRemoveRenderer
  <2>1. UNCHANGED <<handlerVars, mWrNotifierEventsQueues>>
    BY <1>7 DEF RunRemoveRenderer, RemoveRenderer
  <2>2. CASE mHasShutdown
    BY <1>7, <2>1, <2>2, FlagKept DEF RunRemoveRenderer, RemoveRenderer,
       infoVars, handlerVars
  <2>3. CASE ~mHasShutdown
    <3>1. cur \notin mWindowInfos'
      BY <1>7, <2>3 DEF RunRemoveRenderer, RemoveRenderer, EraseWindowInfo
    <3> QED BY <2>1, <3>1 DEF handlerVars, FlagMeansPending, QueueInUse
  <2> QED BY <2>2, <2>3
<1>8. CASE HandlerReturns
  BY <1>8 DEF HandlerReturns, FlagMeansPending, QueueInUse
<1>9. CASE RunExternalEvent \/ FrameHandled \/ HandleFrameOneDoc
           \/ TaskReturns \/ SessionsRebuilt \/ MainStep \/ ShutDownTask
           \/ StartRender \/ FinishRender \/ UNCHANGED vars
  <2>1. pc' # "idle" => pc # "idle"
    BY <1>9 DEF RunExternalEvent, FrameHandled, HandleFrameOneDoc, AtEvent,
       TaskReturns, SessionsRebuilt, MainStep, ShutDown, PostShutDownTask,
       ThreadJoined, ShutDownTask, StartRender, FinishRender, vars, handlerVars
  <2> QED BY <1>9, <2>1, FlagKept DEF RunExternalEvent, FrameHandled,
             HandleFrameOneDoc, TaskReturns, SessionsRebuilt, MainStep,
             ShutDown, PostShutDownTask, ThreadJoined, ShutDownTask,
             StartRender, FinishRender, vars, infoVars, queueVars, handlerVars
<1> QED BY <1>1, <1>2, <1>4, <1>5, <1>6, <1>7, <1>8, <1>9
        DEF Next, BackendStep, RunnableStep, RenderThreadStep

-----------------------------------------------------------------------------
(* The theorem                                                              *)

(* The invariant of removals holds in every reachable state.                *)
LEMMA RemovalInvariant == Spec => []RInv
<1>1. Init => RInv
  <2> SUFFICES ASSUME Init PROVE RInv
    OBVIOUS
  <2>1. ASSUME NEW w \in Windows PROVE LastEvent(w) /\ HandlerOnce(w)
    BY RemovesNothing DEF Init, LastEvent, NoRemovalYet, RemovalSent,
       RemovalPending, RemovalInBatch, HandlerOnce, Handler, Queued, QueuedOnce
  <2>2. CallFitsLife /\ FlagMeansPending /\ QueueInUse
    BY DEF Init, CallFitsLife, FlagMeansPending, QueueInUse
  <2> QED BY <2>1, <2>2 DEF RInv
<1>2. IInv /\ QInv /\ RInv /\ [Next]_vars => RInv'
  <2> SUFFICES ASSUME IInv, QInv, RInv, [Next]_vars PROVE RInv'
    OBVIOUS
  <2>1. \A w \in Windows : LastEvent(w)' /\ HandlerOnce(w)'
    BY StepLast, StepOnce
  <2>2. CallFitsLife' /\ FlagMeansPending' /\ QueueInUse'
    BY StepCreates, StepFlag DEF RInv, IInv
  <2> QED BY <2>1, <2>2 DEF RInv
<1> QED BY Invariant, QueueInvariant, <1>1, <1>2, PTL DEF Spec

(* The queue that a handler iterates over is erased behind it only, and a   *)
(* handler that starts finds entry and queue or none of both: the           *)
(* assertions of RenderThread::HandleWrNotifierEvents and RemoveRenderer.   *)
THEOREM QueuesOutliveHandlers == Spec => []QueueOutlivesHandler
<1>1. QInv /\ RInv => QueueOutlivesHandler
  BY DEF QInv, RInv, QueueInUse, HandlerOnce, Handler, Queued, HandlerQueued,
     Awake, AwakeIfListed, QueueOutlivesHandler
<1> QED BY QueueInvariant, RemovalInvariant, <1>1, PTL

-----------------------------------------------------------------------------
(* What the compositor thread waits for: the answer to its one call         *)

Awaited(op, w)  == comp.op = op /\ comp.window = w /\ ~taskDone
Answered(op, w) == comp.op = op /\ comp.window = w /\ taskDone

(* WaitFlushed goes through the queues behind the frames of its window, and *)
(* no frame and no second WaitFlushed is behind it.                         *)
Tracked == {"GenerateFrame", "NewFrameReady", "WaitFlushed"}
NoneTracked(q) == \A i \in 1..Len(q) : q[i].tag \notin Tracked
Flushes(q)     == \E i \in 1..Len(q) : q[i].tag = "WaitFlushed"
FlushIsLast(q) == \A i, j \in 1..Len(q) :
                    q[i].tag = "WaitFlushed" /\ i < j => q[j].tag \notin Tracked

BackendFlushed(w) == busy[w] = 0 /\ NoneTracked(backend[w])
FlushSent(w) ==
  Flushes(backend[w]) =>
    /\ FlushIsLast(backend[w])
    /\ ~Flushes(mPendingWrNotifierEvents[w]) /\ ~Flushes(events[w])
FlushPending(w) ==
  Flushes(mPendingWrNotifierEvents[w]) =>
    /\ FlushIsLast(mPendingWrNotifierEvents[w])
    /\ BackendFlushed(w) /\ ~Flushes(events[w])
FlushInBatch(w) ==
  Flushes(events[w]) =>
    /\ FlushIsLast(events[w])
    /\ BackendFlushed(w) /\ NoneTracked(mPendingWrNotifierEvents[w])
LastFlush(w) == FlushSent(w) /\ FlushPending(w) /\ FlushInBatch(w)

(* Events and runnables that complete a task are those of the call that     *)
(* waits.                                                                   *)
Flushing(w) == \/ Flushes(backend[w]) \/ Flushes(mPendingWrNotifierEvents[w])
               \/ Flushes(events[w])
Removing(w) == \/ Removes(backend[w]) \/ Removes(mPendingWrNotifierEvents[w])
               \/ Removes(events[w])
AnswersTheCall(w) ==
  /\ Flushing(w) => Awaited("flush", w)
  /\ Removing(w) => Awaited("destroy", w)
  /\ Queued("NewRenderer", w) => Awaited("create", w)

(* What is so when a call is answered.                                      *)
AnswerMeans(w) ==
  /\ Answered("flush", w) /\ ~mHasShutdown => mPendingFrames[w] = <<>>
  /\ Closed(w) => mHasShutdown \/ w \notin mWindowInfos

(* A frame that is not built yet is asked for, or else WaitFlushed could    *)
(* overtake it.                                                             *)
StillAsked(w) == issued[w] # built[w] => AsksForSome(backend[w])

RendersWhatIsThere ==
  /\ mWindowInfos \subseteq mRenderers
  /\ pc \in {"render", "rendering"} => cur \in mWindowInfos /\ ~Closed(cur)

CInv == /\ \A w \in Windows : LastFlush(w) /\ AnswersTheCall(w) /\ AnswerMeans(w)
        /\ \A w \in mWindowInfos : StillAsked(w)
        /\ RendersWhatIsThere

-----------------------------------------------------------------------------
(* Queues with a WaitFlushed                                                *)

(* One more event or message.                                               *)
LEMMA FlushesAppend ==
  ASSUME NEW S, NEW q \in Seq(S), NEW e \in S
  PROVE  /\ Flushes(Append(q, e)) => Flushes(q) \/ e.tag = "WaitFlushed"
         /\ NoneTracked(q) /\ e.tag \notin Tracked => NoneTracked(Append(q, e))
         /\ FlushIsLast(q) /\ e.tag \notin Tracked => FlushIsLast(Append(q, e))
         /\ ~Flushes(q) => FlushIsLast(Append(q, e))
<1> DEFINE p == Append(q, e)
<1>1. /\ Len(p) = Len(q) + 1 /\ Len(q) \in Nat
      /\ \A i \in 1..Len(q) : p[i] = q[i]
      /\ p[Len(q) + 1] = e
  BY AppendElements
<1>2. \A i \in 1..Len(p) : i \in 1..Len(q) \/ i = Len(q) + 1
  BY <1>1
<1>3. \A i \in 1..Len(p) : \A j \in 1..Len(p) : i < j => i \in 1..Len(q)
  BY <1>1
<1> HIDE DEF p
<1>4. Flushes(p) => Flushes(q) \/ e.tag = "WaitFlushed"
  BY <1>1, <1>2 DEF Flushes
<1>5. NoneTracked(q) /\ e.tag \notin Tracked => NoneTracked(p)
  BY <1>1, <1>2 DEF NoneTracked
<1>6. FlushIsLast(q) /\ e.tag \notin Tracked => FlushIsLast(p)
  BY <1>1, <1>2, <1>3 DEF FlushIsLast
<1>7. ~Flushes(q) => FlushIsLast(p)
  BY <1>1, <1>3 DEF Flushes, FlushIsLast
<1> QED BY <1>4, <1>5, <1>6, <1>7 DEF p

(* One less.                                                                *)
LEMMA FlushesTail ==
  ASSUME NEW S, NEW q \in Seq(S), q # <<>>
  PROVE  /\ Flushes(Tail(q)) => Flushes(q)
         /\ NoneTracked(q) => NoneTracked(Tail(q)) /\ Head(q).tag \notin Tracked
         /\ FlushIsLast(q) => FlushIsLast(Tail(q))
         /\ Head(q).tag = "WaitFlushed" => Flushes(q)
         /\ FlushIsLast(q) /\ Head(q).tag = "WaitFlushed" => NoneTracked(Tail(q))
<1> DEFINE p == Tail(q)
<1>1. /\ Len(q) \in Nat /\ Len(q) >= 1 /\ Len(p) = Len(q) - 1
      /\ \A i \in 1..Len(p) : p[i] = q[i + 1]
      /\ Head(q) = q[1]
  BY TailElements
<1>2. /\ 1 \in 1..Len(q)
      /\ \A i \in 1..Len(p) : i + 1 \in 1..Len(q) /\ 1 < i + 1
      /\ \A i, j \in 1..Len(p) : i < j => i + 1 < j + 1
  BY <1>1
<1> HIDE DEF p
<1>3. Flushes(p) => Flushes(q)
  BY <1>1, <1>2 DEF Flushes
<1>4. NoneTracked(q) => NoneTracked(p) /\ Head(q).tag \notin Tracked
  BY <1>1, <1>2 DEF NoneTracked
<1>5. FlushIsLast(q) => FlushIsLast(p)
  BY <1>1, <1>2 DEF FlushIsLast
<1>6. Head(q).tag = "WaitFlushed" => Flushes(q)
  BY <1>1, <1>2 DEF Flushes
<1>7. FlushIsLast(q) /\ Head(q).tag = "WaitFlushed" => NoneTracked(p)
  BY <1>1, <1>2 DEF FlushIsLast, NoneTracked
<1> QED BY <1>3, <1>4, <1>5, <1>6, <1>7 DEF p

(* None, and none of those that are tracked.                                *)
LEMMA FlushesNothing ==
  /\ ~Flushes(<<>>) /\ NoneTracked(<<>>)
  /\ \A q : NoneTracked(q) => ~Flushes(q)
  BY EmptySeq DEF Flushes, NoneTracked, Tracked

-----------------------------------------------------------------------------
(* Every step keeps WaitFlushed behind the frames                           *)

(* A step that sends the window nothing.                                    *)
LEMMA FlushKept ==
  ASSUME TypeOK, NEW x \in Windows, LastFlush(x),
         backend'[x] = backend[x], busy'[x] = busy[x],
         mPendingWrNotifierEvents'[x] \in {mPendingWrNotifierEvents[x], <<>>},
         \/ events'[x] \in {events[x], <<>>}
         \/ events[x] # <<>> /\ events'[x] = Tail(events[x])
  PROVE  LastFlush(x)' /\ (Flushing(x)' => Flushing(x))
                       /\ (Removing(x)' => Removing(x))
<1>1. /\ events[x] \in Seq(Event)
      /\ Flushes(events'[x]) => Flushes(events[x])
      /\ Removes(events'[x]) => Removes(events[x])
      /\ FlushIsLast(events[x]) /\ Flushes(events'[x]) => FlushIsLast(events'[x])
  BY FlushesTail, FlushesNothing, RemovesTail, RemovesNothing
  DEF TypeOK, QueueTypeOK
<1>2. /\ Flushes(mPendingWrNotifierEvents'[x]) =>
           mPendingWrNotifierEvents'[x] = mPendingWrNotifierEvents[x]
      /\ NoneTracked(mPendingWrNotifierEvents[x]) =>
           NoneTracked(mPendingWrNotifierEvents'[x])
      /\ Removes(mPendingWrNotifierEvents'[x]) =>
           Removes(mPendingWrNotifierEvents[x])
  BY FlushesNothing, RemovesNothing
<1>3. BackendFlushed(x) => BackendFlushed(x)'
  BY DEF BackendFlushed
<1>4. FlushSent(x)'
  BY <1>1, <1>2 DEF LastFlush, FlushSent
<1>5. FlushPending(x)'
  BY <1>1, <1>2, <1>3 DEF LastFlush, FlushPending
<1>6. FlushInBatch(x)'
  BY <1>1, <1>2, <1>3 DEF LastFlush, FlushInBatch
<1>7. (Flushing(x)' => Flushing(x)) /\ (Removing(x)' => Removing(x))
  BY <1>1, <1>2 DEF Flushing, Removing
<1> QED BY <1>4, <1>5, <1>6, <1>7 DEF LastFlush

(* A step that does nothing to the queues.                                  *)
LEMMA FlushSame ==
  ASSUME TypeOK, NEW x \in Windows, LastFlush(x),
         UNCHANGED <<backend, busy, mPendingWrNotifierEvents, events>>
  PROVE  LastFlush(x)' /\ (Flushing(x)' => Flushing(x))
                       /\ (Removing(x)' => Removing(x))
  BY FlushKept

(* The backend is sent something while no WaitFlushed is on its way.        *)
LEMMA FlushNew ==
  ASSUME TypeOK, NEW x \in Windows, ~Flushing(x), NEW w \in Windows,
         NEW m \in Message, SendToBackend(w, m),
         UNCHANGED <<busy, mPendingWrNotifierEvents, events>>
  PROVE  /\ LastFlush(x)'
         /\ Flushing(x)' => x = w /\ m.tag = "WaitFlushed"
         /\ Removing(x)' => Removing(x) \/ (x = w /\ m.tag = "RemoveRenderer")
<1>1. /\ backend[x] \in Seq(Message)
      /\ x # w => backend'[x] = backend[x]
      /\ x = w => backend'[x] = Append(backend[x], m)
  BY DEF SendToBackend, TypeOK, BackendTypeOK
<1>2. /\ Flushes(backend'[x]) => x = w /\ m.tag = "WaitFlushed"
      /\ Removes(backend'[x]) =>
           Removes(backend[x]) \/ (x = w /\ m.tag = "RemoveRenderer")
      /\ Flushes(backend'[x]) => FlushIsLast(backend'[x])
  <2>1. ~Flushes(backend[x])
    BY DEF Flushing
  <2>2. CASE x # w
    BY <1>1, <2>1, <2>2
  <2>3. CASE x = w
    <3>1. /\ Flushes(Append(backend[x], m)) => m.tag = "WaitFlushed"
          /\ Removes(Append(backend[x], m)) =>
               Removes(backend[x]) \/ m.tag = "RemoveRenderer"
          /\ FlushIsLast(Append(backend[x], m))
      BY <1>1, <2>1, FlushesAppend, RemovesAppend
    <3> QED BY <1>1, <2>3, <3>1
  <2> QED BY <2>2, <2>3
<1> QED BY <1>2 DEF Flushing, Removing, LastFlush, FlushSent, FlushPending,
               FlushInBatch

(* Stop and RemoveRenderer are sent.                                        *)
LEMMA FlushDestroyed ==
  ASSUME TypeOK, NEW x \in Windows, ~Flushing(x), ~Removing(x),
         NEW w \in Windows, DestroyRenderer(w)
  PROVE  /\ LastFlush(x)' /\ ~Flushing(x)' /\ (Removing(x)' => x = w)
<1> DEFINE stop == [tag |-> "Stop", id |-> 0]
           remove == ExternalEvent("RemoveRenderer")
           q == Append(backend[x], stop)
<1>1. /\ x # w => backend'[x] = backend[x]
      /\ x = w => backend'[x] = Append(q, remove)
      /\ UNCHANGED <<mPendingWrNotifierEvents, events, busy>>
  BY DEF DestroyRenderer, queueVars, TypeOK, BackendTypeOK
<1>2. /\ stop \in Message /\ remove \in Message
      /\ stop.tag # "WaitFlushed" /\ remove.tag # "WaitFlushed"
      /\ backend[x] \in Seq(Message)
  BY DEF Message, ExternalEvent, ExternalEvents, TypeOK, BackendTypeOK
<1> HIDE DEF stop, remove
<1>3. q \in Seq(Message) /\ ~Flushes(q)
  BY <1>2, FlushesAppend, AppendProperties DEF Flushing
<1> HIDE DEF q
<1>4. ~Flushes(backend'[x])
  BY <1>1, <1>2, <1>3, FlushesAppend DEF Flushing
<1> QED BY <1>1, <1>4 DEF Flushing, Removing, LastFlush, FlushSent,
               FlushPending, FlushInBatch

(* An event that is not tracked is posted, by whom else than the backend's  *)
(* queue, or a frame that was built.                                        *)
LEMMA FlushPosted ==
  ASSUME TypeOK, NEW x \in Windows, LastFlush(x), NEW w \in Windows,
         NEW e \in Event, PostWrNotifierEvent(w, e), UNCHANGED <<backend, events>>,
         e.tag \notin {"WaitFlushed", "RemoveRenderer"},
         x # w => busy'[x] = busy[x],
         \/ e.tag \notin Tracked /\ busy'[w] = busy[w]
         \/ busy[w] # 0 /\ busy'[w] = 0
  PROVE  LastFlush(x)' /\ (Flushing(x)' => Flushing(x))
                       /\ (Removing(x)' => Removing(x))
<1>1. /\ x # w => mPendingWrNotifierEvents'[x] = mPendingWrNotifierEvents[x]
      /\ mPendingWrNotifierEvents[x] \in Seq(Event)
      /\ mPendingWrNotifierEvents'[w] \in
          {mPendingWrNotifierEvents[w], Append(mPendingWrNotifierEvents[w], e)}
  BY DEF PostWrNotifierEvent, TypeOK, InfoTypeOK
<1>2. CASE x # w
  BY <1>1, <1>2, FlushKept
<1>3. CASE x = w
  <2>1. /\ Flushes(mPendingWrNotifierEvents'[x]) =>
             Flushes(mPendingWrNotifierEvents[x])
        /\ Removes(mPendingWrNotifierEvents'[x]) =>
             Removes(mPendingWrNotifierEvents[x])
    BY <1>1, <1>3, FlushesAppend, RemovesAppend
  <2>2. (Flushing(x)' => Flushing(x)) /\ (Removing(x)' => Removing(x))
    BY <2>1 DEF Flushing, Removing
  <2>3. CASE e.tag \notin Tracked /\ busy'[w] = busy[w]
    <3>1. /\ NoneTracked(mPendingWrNotifierEvents[x]) =>
               NoneTracked(mPendingWrNotifierEvents'[x])
          /\ FlushIsLast(mPendingWrNotifierEvents[x]) =>
               FlushIsLast(mPendingWrNotifierEvents'[x])
          /\ BackendFlushed(x) => BackendFlushed(x)'
      BY <1>1, <1>3, <2>3, FlushesAppend DEF BackendFlushed
    <3> QED BY <2>1, <2>2, <3>1 DEF LastFlush, FlushSent, FlushPending,
               FlushInBatch
  <2>4. CASE busy[w] # 0 /\ busy'[w] = 0
    <3>1. ~Flushes(mPendingWrNotifierEvents[x]) /\ ~Flushes(events[x])
      BY <1>3, <2>4 DEF LastFlush, FlushPending, FlushInBatch, BackendFlushed
    <3> QED BY <2>1, <2>2, <3>1 DEF LastFlush, FlushSent, FlushPending,
               FlushInBatch
  <2> QED BY <2>3, <2>4
<1> QED BY <1>2, <1>3

(* The backend forwards an event: WaitFlushed has nothing tracked behind it.*)
LEMMA FlushForwarded ==
  ASSUME TypeOK, NEW x \in Windows, LastFlush(x), NEW w \in Windows,
         ForwardExternalEvent(w)
  PROVE  LastFlush(x)' /\ (Flushing(x)' => Flushing(x))
                       /\ (Removing(x)' => Removing(x))
<1> DEFINE e == Head(backend[w])
<1>1. /\ backend[w] \in Seq(Message) /\ backend[w] # <<>>
      /\ backend'[w] = Tail(backend[w]) /\ busy[w] = 0
      /\ x # w => backend'[x] = backend[x]
      /\ UNCHANGED <<events, busy>>
  BY DEF ForwardExternalEvent, BackendTakes, TypeOK, BackendTypeOK, queueVars
<1>2. e \in Event /\ (e.tag \in Tracked => e.tag = "WaitFlushed")
  <2>1. e \in Message
    BY <1>1, HeadTailProperties
  <2> QED BY <2>1 DEF ForwardExternalEvent, BackendTakes, ForwardedTags, Message,
             Event, ExternalEvents, Tracked
<1>3. /\ x # w => mPendingWrNotifierEvents'[x] = mPendingWrNotifierEvents[x]
      /\ mPendingWrNotifierEvents[w] \in Seq(Event)
      /\ mPendingWrNotifierEvents'[w] \in
           {mPendingWrNotifierEvents[w], Append(mPendingWrNotifierEvents[w], e)}
  BY DEF ForwardExternalEvent, PostWrNotifierEvent, TypeOK, InfoTypeOK
<1>4. /\ e.tag = "WaitFlushed" => Flushes(backend[w])
      /\ e.tag = "RemoveRenderer" => Removes(backend[w])
  BY <1>1, FlushesTail, RemovesTail DEF e
<1> HIDE DEF e
<1>5. CASE x # w
  BY <1>1, <1>3, <1>5, FlushKept
<1>6. CASE x = w
  <2>1. /\ Flushes(backend'[x]) => Flushes(backend[x])
        /\ Removes(backend'[x]) => Removes(backend[x])
        /\ FlushIsLast(backend[x]) => FlushIsLast(backend'[x])
        /\ NoneTracked(backend[x]) => NoneTracked(backend'[x])
    BY <1>1, <1>6, FlushesTail, RemovesTail
  <2>2. /\ Flushes(mPendingWrNotifierEvents'[x]) =>
             Flushes(mPendingWrNotifierEvents[x]) \/ e.tag = "WaitFlushed"
        /\ Removes(mPendingWrNotifierEvents'[x]) =>
             Removes(mPendingWrNotifierEvents[x]) \/ e.tag = "RemoveRenderer"
    BY <1>2, <1>3, <1>6, FlushesAppend, RemovesAppend
  <2>3. (Flushing(x)' => Flushing(x)) /\ (Removing(x)' => Removing(x))
    BY <1>1, <1>4, <1>6, <2>1, <2>2 DEF Flushing, Removing
  <2>4. CASE e.tag = "WaitFlushed"
    <3>1. /\ FlushIsLast(backend[x]) /\ Flushes(backend[x])
          /\ ~Flushes(mPendingWrNotifierEvents[x]) /\ ~Flushes(events[x])
      BY <1>4, <1>6, <2>4 DEF LastFlush, FlushSent
    <3>2. NoneTracked(backend'[x])
      BY <1>1, <1>6, <2>4, <3>1, FlushesTail DEF e
    <3>3. BackendFlushed(x)' /\ ~Flushes(backend'[x])
      BY <1>1, <1>6, <3>2, FlushesNothing DEF BackendFlushed
    <3>4. Flushes(mPendingWrNotifierEvents'[x]) =>
            FlushIsLast(mPendingWrNotifierEvents'[x])
      BY <1>2, <1>3, <1>6, <3>1, FlushesAppend
    <3> QED BY <1>1, <2>3, <3>1, <3>3, <3>4 DEF LastFlush, FlushSent,
               FlushPending, FlushInBatch
  <2>5. CASE e.tag # "WaitFlushed"
    <3>1. /\ NoneTracked(mPendingWrNotifierEvents[x]) =>
               NoneTracked(mPendingWrNotifierEvents'[x])
          /\ FlushIsLast(mPendingWrNotifierEvents[x]) =>
               FlushIsLast(mPendingWrNotifierEvents'[x])
          /\ BackendFlushed(x) => BackendFlushed(x)'
      BY <1>1, <1>2, <1>3, <1>6, <2>1, <2>5, FlushesAppend DEF BackendFlushed
    <3> QED BY <1>1, <2>1, <2>2, <2>3, <2>5, <3>1 DEF LastFlush, FlushSent,
               FlushPending, FlushInBatch
  <2> QED BY <2>4, <2>5
<1> QED BY <1>5, <1>6

(* The backend builds a frame, or stops.                                    *)
LEMMA FlushTaken ==
  ASSUME TypeOK, NEW x \in Windows, LastFlush(x), NEW w \in Windows,
         FrameBuilt(w) \/ StopRenderBackend(w)
  PROVE  LastFlush(x)' /\ (Flushing(x)' => Flushing(x))
                       /\ (Removing(x)' => Removing(x))
<1>1. /\ backend[w] \in Seq(Message) /\ backend[w] # <<>>
      /\ backend'[w] = Tail(backend[w])
      /\ x # w => backend'[x] = backend[x] /\ busy'[x] = busy[x]
      /\ UNCHANGED <<mPendingWrNotifierEvents, events>>
  BY DEF FrameBuilt, StopRenderBackend, BackendTakes, TypeOK, BackendTypeOK,
     infoVars, queueVars
<1>2. CASE x # w
  BY <1>1, <1>2, FlushKept
<1>3. CASE x = w
  <2>1. /\ Flushes(backend'[x]) => Flushes(backend[x])
        /\ Removes(backend'[x]) => Removes(backend[x])
        /\ FlushIsLast(backend[x]) => FlushIsLast(backend'[x])
        /\ NoneTracked(backend[x]) =>
             NoneTracked(backend'[x]) /\ Head(backend[x]).tag \notin Tracked
    BY <1>1, <1>3, FlushesTail, RemovesTail
  <2>2. BackendFlushed(x) => BackendFlushed(x)'
    BY <1>3, <2>1 DEF BackendFlushed, FrameBuilt, StopRenderBackend,
       BackendTakes, Tracked
  <2> QED BY <1>1, <2>1, <2>2 DEF LastFlush, FlushSent, FlushPending,
             FlushInBatch, Flushing, Removing
<1> QED BY <1>2, <1>3

(* The handler takes the pending events over.                               *)
LEMMA FlushBatch ==
  ASSUME TypeOK, NEW x \in Windows, LastFlush(x), NEW w \in Windows,
         HandleWrNotifierEvents(w)
  PROVE  LastFlush(x)' /\ (Flushing(x)' => Flushing(x))
                       /\ (Removing(x)' => Removing(x))
<1>1. UNCHANGED <<backend, busy>>
  BY DEF HandleWrNotifierEvents, backendVars
<1>2. \/ events'[x] = events[x]
           /\ mPendingWrNotifierEvents'[x] = mPendingWrNotifierEvents[x]
      \/ events[x] = <<>> /\ events'[x] = mPendingWrNotifierEvents[x]
           /\ mPendingWrNotifierEvents'[x] = <<>>
  BY DEF HandleWrNotifierEvents, TakePendingEvents, TypeOK, InfoTypeOK,
     QueueTypeOK
<1>3. CASE events'[x] = events[x]
             /\ mPendingWrNotifierEvents'[x] = mPendingWrNotifierEvents[x]
  BY <1>1, <1>3, FlushKept
<1>4. CASE events[x] = <<>> /\ events'[x] = mPendingWrNotifierEvents[x]
             /\ mPendingWrNotifierEvents'[x] = <<>>
  <2>1. ~Flushes(mPendingWrNotifierEvents'[x])
        /\ NoneTracked(mPendingWrNotifierEvents'[x])
        /\ ~Removes(mPendingWrNotifierEvents'[x])
    BY <1>4, FlushesNothing, RemovesNothing
  <2>2. BackendFlushed(x) => BackendFlushed(x)'
    BY <1>1 DEF BackendFlushed
  <2> QED BY <1>1, <1>4, <2>1, <2>2 DEF LastFlush, FlushSent, FlushPending,
             FlushInBatch, Flushing, Removing
<1> QED BY <1>2, <1>3, <1>4

(* What a step may bring to a window, if it starts no call.                 *)
NoneNew(x) == /\ LastFlush(x)' /\ (Flushing(x)' => Flushing(x))
              /\ (Removing(x)' => Removing(x))
              /\ (Queued("NewRenderer", x)' => Queued("NewRenderer", x))

Starts(w) == \/ Create(w) \/ GenerateFrame(w) \/ SetFrameStartTime(w)
             \/ WaitFlushed(w) \/ DestroyRenderer(w)

(* A renderer is posted by Create only.                                     *)
LEMMA StepCreation ==
  ASSUME TypeOK, [Next]_vars, NEW x \in Windows, ~Create(x),
         Queued("NewRenderer", x)'
  PROVE  Queued("NewRenderer", x)
<1>1. mThread \in Seq(Runnable)
  BY DEF TypeOK, ThreadTypeOK
<1>2. ASSUME NEW tag \in {"NewRenderer", "HandleWrNotifierEvents", "EraseQueue",
                          "SetClearColor", "ShutDownTask"},
             NEW w \in Windows \cup {NoWindow}, PostRunnable(tag, w),
             tag # "NewRenderer" \/ w # x
      PROVE  Queued("NewRenderer", x)
  <2>1. Run(tag, w) \in Runnable /\ Run(tag, w) # Run("NewRenderer", x)
    BY <1>2 DEF Run, Runnable
  <2> QED BY <1>1, <1>2, <2>1, QueuePosted DEF PostRunnable
<1>3. ASSUME UNCHANGED mThread PROVE Queued("NewRenderer", x)
  BY <1>3 DEF Queued
<1>4. ASSUME NEW tag, NEW w, RunnableTaken(tag, w), mThread' = Tail(mThread)
      PROVE  Queued("NewRenderer", x)
  BY <1>1, <1>4, QueueTaken DEF RunnableTaken
<1>5. ASSUME NEW w \in Windows, PostWrNotifierEvents(w)
      PROVE  Queued("NewRenderer", x)
  BY <1>2, <1>3, <1>5 DEF PostWrNotifierEvents
<1>6. ASSUME NEW w \in Windows, CompositorStep(w)
      PROVE  Queued("NewRenderer", x)
  BY <1>2, <1>3, <1>6 DEF CompositorStep, Create, Composite,
     RetrySkippedComposite, GenerateFrame, SetFrameStartTime, SetClearColor,
     WaitFlushed, DestroyRenderer
<1>7. ASSUME NEW w \in Windows, BackendStep(w) \/ WakeUp(w)
      PROVE  Queued("NewRenderer", x)
  BY <1>3, <1>5, <1>7 DEF BackendStep, FrameBuilt, NewFrameReady,
     ForwardExternalEvent, StopRenderBackend, WakeUp, PostWrNotifierEvent
<1>8. ASSUME NEW w \in Windows, RunnableStep(w)
      PROVE  Queued("NewRenderer", x)
  BY <1>4, <1>8 DEF RunnableStep, NewRenderer, RunSetClearColor, EraseQueue,
     HandleWrNotifierEvents
<1>9. CASE ShutDownTask
  BY <1>4, <1>9 DEF ShutDownTask
<1>10. CASE RunRemoveRenderer \/ HandlerReturns
  <2>1. cur \in Windows
    BY <1>10 DEF RunRemoveRenderer, AtEvent, HandlerReturns, TypeOK,
       HandlerTypeOK
  <2> QED BY <1>2, <1>3, <1>5, <1>10, <2>1 DEF RunRemoveRenderer,
             RemoveRenderer, HandlerReturns, RepostIfEventsLeft
<1>11. CASE PostShutDownTask
  BY <1>2, <1>11 DEF PostShutDownTask
<1>12. CASE RunExternalEvent \/ FrameHandled \/ HandleFrameOneDoc
            \/ TaskReturns \/ SessionsRebuilt \/ ShutDown \/ ThreadJoined
            \/ StartRender \/ FinishRender \/ UNCHANGED vars
  BY <1>3, <1>12 DEF RunExternalEvent, FrameHandled, HandleFrameOneDoc,
     TaskReturns, SessionsRebuilt, ShutDown, ThreadJoined, StartRender,
     FinishRender, vars
<1> QED BY <1>6, <1>7, <1>8, <1>9, <1>10, <1>11, <1>12
        DEF Next, RenderThreadStep, MainStep

(* Steps that start no call bring none of the events that answer one.       *)
LEMMA StepNoneNew ==
  ASSUME TypeOK, Handling, [Next]_vars, NEW x \in Windows, LastFlush(x),
         \A w \in Windows : ~Starts(w)
  PROVE  NoneNew(x)
<1>0. Queued("NewRenderer", x)' => Queued("NewRenderer", x)
  BY StepCreation DEF Starts
<1>1. ASSUME NEW w \in Windows, NewFrameReady(w) PROVE NoneNew(x)
  <2>1. /\ NewFrameReadyEvent(busy[w]) \in Event
        /\ NewFrameReadyEvent(busy[w]).tag \notin {"WaitFlushed", "RemoveRenderer"}
    BY DEF NewFrameReadyEvent, Event, TypeOK, BackendTypeOK
  <2>2. /\ busy[w] # 0 /\ busy'[w] = 0
        /\ x # w => busy'[x] = busy[x]
    BY <1>1 DEF NewFrameReady, TypeOK, BackendTypeOK
  <2> QED BY <1>0, <1>1, <2>1, <2>2, FlushPosted DEF NewFrameReady, queueVars,
             NoneNew
<1>2. ASSUME NEW w \in Windows, WakeUp(w) PROVE NoneNew(x)
  <2>1. /\ WakeUpEvent \in Event /\ WakeUpEvent.tag \notin Tracked
        /\ WakeUpEvent.tag # "RemoveRenderer"
    BY DEF WakeUpEvent, Event, Tracked
  <2> QED BY <1>0, <1>2, <2>1, FlushPosted DEF WakeUp, queueVars, backendVars,
             NoneNew, Tracked
<1>3. ASSUME NEW w \in Windows,
             \/ ForwardExternalEvent(w) \/ FrameBuilt(w) \/ StopRenderBackend(w)
             \/ HandleWrNotifierEvents(w)
      PROVE  NoneNew(x)
  BY <1>0, <1>3, FlushForwarded, FlushTaken, FlushBatch DEF NoneNew
<1>4. ASSUME NEW w \in Windows,
             Composite(w) \/ RetrySkippedComposite(w) \/ SetClearColor(w)
               \/ NewRenderer(w) \/ RunSetClearColor(w)
      PROVE  NoneNew(x)
  BY <1>0, <1>4, FlushSame DEF Composite, RetrySkippedComposite, SetClearColor,
     NewRenderer, RunSetClearColor, infoVars, queueVars, backendVars, NoneNew
<1>5. ASSUME NEW w \in Windows, EraseQueue(w) PROVE NoneNew(x)
  <2>1. events'[x] \in {events[x], <<>>}
    BY <1>5 DEF EraseQueue, TypeOK, QueueTypeOK
  <2> QED BY <1>0, <1>5, <2>1, FlushKept DEF EraseQueue, infoVars, backendVars,
             NoneNew
<1>6. CASE RunExternalEvent \/ FrameHandled \/ HandleFrameOneDoc
           \/ RunRemoveRenderer
  <2>1. events' = events \/ PopEvent
    BY <1>6 DEF RunExternalEvent, FrameHandled, HandleFrameOneDoc,
       RunRemoveRenderer
  <2>2. cur \in Windows /\ events[cur] # <<>>
    BY <1>6 DEF RunExternalEvent, FrameHandled, HandleFrameOneDoc,
       RunRemoveRenderer, AtEvent, Handling, TypeOK, HandlerTypeOK
  <2>3. events'[x] = events[x] \/ (events[x] # <<>> /\ events'[x] = Tail(events[x]))
    BY <2>1, <2>2 DEF PopEvent, TypeOK, QueueTypeOK
  <2>4. mPendingWrNotifierEvents'[x] \in {mPendingWrNotifierEvents[x], <<>>}
    BY <1>6, <2>2 DEF RunExternalEvent, FrameHandled, HandleFrameOneDoc,
       RunRemoveRenderer, RemoveRenderer, EraseWindowInfo, infoVars, TypeOK,
       InfoTypeOK
  <2>5. UNCHANGED <<backend, busy>>
    BY <1>6 DEF RunExternalEvent, FrameHandled, HandleFrameOneDoc,
       RunRemoveRenderer, backendVars
  <2> QED BY <1>0, <2>3, <2>4, <2>5, FlushKept DEF NoneNew
<1>7. CASE TaskReturns \/ SessionsRebuilt \/ MainStep \/ ShutDownTask
           \/ StartRender \/ FinishRender \/ HandlerReturns \/ UNCHANGED vars
  BY <1>0, <1>7, FlushSame DEF TaskReturns, SessionsRebuilt, MainStep, ShutDown,
     PostShutDownTask, ThreadJoined, ShutDownTask, StartRender, FinishRender,
     HandlerReturns, vars, infoVars, queueVars, backendVars, NoneNew
<1> QED BY <1>1, <1>2, <1>3, <1>4, <1>5, <1>6, <1>7
        DEF Starts, Next, CompositorStep, BackendStep, RunnableStep,
            RenderThreadStep

-----------------------------------------------------------------------------
(* Every answer is to the call that waits                                   *)

(* While the compositor thread waits for nothing, nothing answers.          *)
LEMMA NoAnswerUnasked ==
  ASSUME NEW x, AnswersTheCall(x), comp.op \in {"idle", "accepted"} \/ taskDone
  PROVE  ~Flushing(x) /\ ~Removing(x) /\ ~Queued("NewRenderer", x)
  BY DEF AnswersTheCall, Awaited

(* A call starts, and what answers it is sent.                              *)
LEMMA StartAnswers ==
  ASSUME TypeOK, NEW x \in Windows, AnswersTheCall(x), [Next]_vars,
         NEW w \in Windows, Starts(w)
  PROVE  LastFlush(x)' /\ AnswersTheCall(x)'
<1>1. ~Flushing(x) /\ ~Removing(x) /\ ~Queued("NewRenderer", x)
  BY NoAnswerUnasked DEF Starts, Create, GenerateFrame, SetFrameStartTime,
     WaitFlushed, DestroyRenderer, CompIdle
<1>2. ~Create(x) => ~Queued("NewRenderer", x)'
  BY <1>1, StepCreation
<1>3. CASE Create(w)
  <2>1. LastFlush(x)' /\ ~Flushing(x)' /\ ~Removing(x)'
    BY <1>1, <1>3 DEF Create, infoVars, queueVars, backendVars, LastFlush,
       FlushSent, FlushPending, FlushInBatch, Flushing, Removing
  <2>2. x = w \/ ~Create(x)
    BY <1>3 DEF Create, CompWaits, CompDoes
  <2>3. Awaited("create", w)'
    BY <1>3 DEF Create, CompWaits, CompDoes, Awaited
  <2> QED BY <1>2, <2>1, <2>2, <2>3 DEF AnswersTheCall
<1>4. ASSUME ~Create(w) PROVE ~Queued("NewRenderer", x)'
  <2>1. CASE Create(x)
    <3>1. comp' = [op |-> "create", window |-> x] /\ comp.op = "idle"
      BY <2>1 DEF Create, CompWaits, CompDoes, CompIdle
    <3>2. comp'.op # "create"
      BY <1>4, <3>1 DEF Starts, GenerateFrame, SetFrameStartTime, WaitFlushed,
         DestroyRenderer, CompReturns, CompWaits, CompDoes, compVars
    <3> QED BY <3>1, <3>2
  <2> QED BY <1>2, <2>1
<1>5. CASE GenerateFrame(w) \/ SetFrameStartTime(w) \/ WaitFlushed(w)
  <2>1. PICK m \in Message : /\ SendToBackend(w, m) /\ m.tag # "RemoveRenderer"
                             /\ m.tag = "WaitFlushed" => WaitFlushed(w)
    <3>1. /\ [tag |-> "GenerateFrame", id |-> issued[w] + 1] \in Message
          /\ ExternalEvent("FrameStartTime") \in Message
          /\ ExternalEvent("WaitFlushed") \in Message
      BY DEF Message, ExternalEvent, ExternalEvents, TypeOK, BackendTypeOK
    <3>2. CASE GenerateFrame(w)
      BY <3>1, <3>2 DEF GenerateFrame
    <3>3. CASE SetFrameStartTime(w)
      BY <3>1, <3>3 DEF SetFrameStartTime, ExternalEvent
    <3>4. CASE WaitFlushed(w)
      BY <3>1, <3>4 DEF WaitFlushed, ExternalEvent
    <3> QED BY <1>5, <3>2, <3>3, <3>4
  <2>2. UNCHANGED <<busy, mPendingWrNotifierEvents, events>>
    BY <1>5 DEF GenerateFrame, SetFrameStartTime, WaitFlushed, infoVars,
       queueVars
  <2>3. /\ LastFlush(x)' /\ ~Removing(x)'
        /\ Flushing(x)' => x = w /\ WaitFlushed(w)
    BY <1>1, <2>1, <2>2, FlushNew
  <2>4. WaitFlushed(w) => Awaited("flush", w)'
    BY DEF WaitFlushed, CompWaits, CompDoes, Awaited
  <2>5. ~Queued("NewRenderer", x)'
    <3>1. ~Create(w)
      <4>1. Create(w) => mThread' # mThread
        <5>1. Len(Append(mThread, Run("NewRenderer", w))) # Len(mThread)
          BY DEF TypeOK, ThreadTypeOK, Run, Runnable
        <5> QED BY <5>1 DEF Create, PostRunnable
      <4> QED BY <1>5, <4>1 DEF GenerateFrame, SetFrameStartTime, WaitFlushed
    <3> QED BY <1>4, <3>1
  <2> QED BY <2>3, <2>4, <2>5 DEF AnswersTheCall
<1>6. CASE DestroyRenderer(w)
  <2>1. LastFlush(x)' /\ ~Flushing(x)' /\ (Removing(x)' => x = w)
    BY <1>1, <1>6, FlushDestroyed
  <2>2. Awaited("destroy", w)' /\ ~Create(w)
    BY <1>6 DEF DestroyRenderer, CompWaits, CompDoes, Awaited, Create
  <2> QED BY <1>4, <2>1, <2>2 DEF AnswersTheCall
<1> QED BY <1>3, <1>5, <1>6 DEF Starts

(* The other steps that concern a call.                                     *)
LEMMA CallsGoOn ==
  ASSUME TypeOK, [Next]_vars, \A w \in Windows : ~Starts(w)
  PROVE  \/ UNCHANGED <<comp, taskDone, life>>
         \/ /\ comp.op = "idle" /\ comp'.op = "accepted"
            /\ UNCHANGED <<taskDone, life>>
         \/ TaskReturns
         \/ RunExternalEvent /\ Head(events[cur]).tag = "WaitFlushed"
         \/ RunRemoveRenderer
         \/ \E w \in Windows : NewRenderer(w)
<1>1. ASSUME NEW w \in Windows, Composite(w) \/ RetrySkippedComposite(w)
      PROVE  \/ UNCHANGED <<comp, taskDone, life>>
             \/ /\ comp.op = "idle" /\ comp'.op = "accepted"
                /\ UNCHANGED <<taskDone, life>>
  BY <1>1 DEF Composite, RetrySkippedComposite, TryComposite, CompDoes, CompIdle
<1>2. ASSUME NEW w \in Windows,
             \/ SetClearColor(w) \/ BackendStep(w) \/ WakeUp(w)
             \/ RunSetClearColor(w) \/ EraseQueue(w) \/ HandleWrNotifierEvents(w)
      PROVE  UNCHANGED <<comp, taskDone, life>>
  BY <1>2 DEF SetClearColor, BackendStep, FrameBuilt, NewFrameReady,
     ForwardExternalEvent, StopRenderBackend, WakeUp, RunSetClearColor,
     EraseQueue, HandleWrNotifierEvents, compVars
<1>3. CASE RunExternalEvent /\ Head(events[cur]).tag # "WaitFlushed"
  <2>1. taskDone' = (taskDone \/ FALSE) /\ UNCHANGED <<comp, life>>
    BY <1>3 DEF RunExternalEvent
  <2> QED BY <2>1 DEF TypeOK, CompTypeOK
<1>4. CASE SessionsRebuilt \/ MainStep \/ ShutDownTask \/ FrameHandled
           \/ HandleFrameOneDoc \/ StartRender \/ FinishRender
           \/ HandlerReturns \/ UNCHANGED vars
  BY <1>4 DEF SessionsRebuilt, MainStep, ShutDown, PostShutDownTask,
     ThreadJoined, ShutDownTask, FrameHandled, HandleFrameOneDoc, StartRender,
     FinishRender, HandlerReturns, vars, compVars
<1> QED BY <1>1, <1>2, <1>3, <1>4 DEF Starts, Next, CompositorStep,
           RunnableStep, RenderThreadStep

(* WaitFlushed is handled: it was the only one.                             *)
LEMMA FlushIsAnswered ==
  ASSUME IInv, CInv, RunExternalEvent, Head(events[cur]).tag = "WaitFlushed"
  PROVE  /\ cur \in Windows /\ events[cur] \in Seq(Event) /\ events[cur] # <<>>
         /\ Awaited("flush", cur) /\ Flushes(events[cur]) /\ ~Flushing(cur)'
         /\ cur' = cur
<1>1. /\ cur \in Windows /\ events[cur] \in Seq(Event) /\ events[cur] # <<>>
      /\ events'[cur] = Tail(events[cur])
      /\ UNCHANGED <<backend, mPendingWrNotifierEvents, cur>>
  BY DEF RunExternalEvent, AtEvent, PopEvent, IInv, TypeOK, HandlerTypeOK,
     QueueTypeOK, infoVars, backendVars, handlerVars
<1>2. Flushes(events[cur])
  BY <1>1, FlushesTail
<1>3. Awaited("flush", cur)
  BY <1>1, <1>2 DEF CInv, AnswersTheCall, Flushing
<1>4. FlushIsLast(events[cur]) /\ NoneTracked(backend[cur])
      /\ NoneTracked(mPendingWrNotifierEvents[cur])
  BY <1>1, <1>2 DEF CInv, LastFlush, FlushInBatch, BackendFlushed
<1>5. NoneTracked(events'[cur])
  BY <1>1, <1>4, FlushesTail
<1> QED BY <1>1, <1>2, <1>3, <1>4, <1>5, FlushesNothing DEF Flushing

(* RemoveRenderer is handled: it was the only one.                          *)
LEMMA RemovalIsAnswered ==
  ASSUME IInv, RInv, CInv, RunRemoveRenderer
  PROVE  /\ cur \in Windows /\ Awaited("destroy", cur) /\ ~Removing(cur)'
         /\ cur' = cur
         /\ events'[cur] = <<>> /\ mPendingWrNotifierEvents'[cur] = <<>>
<1>1. /\ cur \in Windows /\ events[cur] \in Seq(Event) /\ events[cur] # <<>>
      /\ Head(events[cur]).tag = "RemoveRenderer"
      /\ events'[cur] = Tail(events[cur]) /\ UNCHANGED <<backend, cur>>
  BY DEF RunRemoveRenderer, AtEvent, PopEvent, IInv, TypeOK, HandlerTypeOK,
     QueueTypeOK, backendVars, handlerVars
<1>2. Removes(events[cur])
  BY <1>1, RemovesTail
<1>3. Awaited("destroy", cur)
  BY <1>1, <1>2 DEF CInv, AnswersTheCall, Removing
<1>4. /\ backend[cur] = <<>> /\ RemovalIsLast(events[cur])
      /\ mPendingWrNotifierEvents[cur] = <<>>
  BY <1>1, <1>2 DEF RInv, LastEvent, RemovalInBatch, Silent
<1>5. events'[cur] = <<>>
  BY <1>1, <1>4, RemovesTail
<1>6. mPendingWrNotifierEvents'[cur] = <<>>
  BY <1>1, <1>4 DEF RunRemoveRenderer, RemoveRenderer, EraseWindowInfo,
     infoVars, IInv, TypeOK, InfoTypeOK
<1> QED BY <1>1, <1>3, <1>4, <1>5, <1>6, RemovesNothing DEF Removing

(* NewRenderer runs: it was the only one.                                   *)
LEMMA CreationIsAnswered ==
  ASSUME IInv, CInv, NEW w \in Windows, NewRenderer(w)
  PROVE  /\ Awaited("create", w) /\ ~Queued("NewRenderer", w)'
         /\ Queued("NewRenderer", w)
<1>1. /\ mThread \in Seq(Runnable) /\ mThread # <<>> /\ mThread' = Tail(mThread)
      /\ Head(mThread) = Run("NewRenderer", w)
  BY DEF NewRenderer, RunnableTaken, IInv, TypeOK, ThreadTypeOK
<1>2. QueuedOnce("NewRenderer", w)
  BY DEF IInv, AddedOnce
<1>3. Queued("NewRenderer", w) /\ ~Queued("NewRenderer", w)'
  BY <1>1, <1>2, QueueTaken
<1> QED BY <1>3 DEF CInv, AnswersTheCall

(* Every step keeps what is on its way to be the answer to the call.        *)
LEMMA StepAnswers ==
  ASSUME IInv, RInv, CInv, [Next]_vars, NEW x \in Windows
  PROVE  LastFlush(x)' /\ AnswersTheCall(x)'
<1> TypeOK /\ Handling /\ LastFlush(x) /\ AnswersTheCall(x)
  BY DEF IInv, CInv
<1>1. CASE \E w \in Windows : Starts(w)
  BY <1>1, StartAnswers
<1>2. CASE \A w \in Windows : ~Starts(w)
  <2>1. NoneNew(x)
    BY <1>2, StepNoneNew
  <2>2. CASE UNCHANGED <<comp, taskDone, life>>
    BY <2>1, <2>2 DEF NoneNew, AnswersTheCall, Awaited
  <2>3. CASE (comp.op = "idle" /\ comp'.op = "accepted") \/ TaskReturns
    <3>1. ~Flushing(x) /\ ~Removing(x) /\ ~Queued("NewRenderer", x)
      BY <2>3, NoAnswerUnasked DEF TaskReturns
    <3> QED BY <2>1, <3>1 DEF NoneNew, AnswersTheCall
  <2>4. CASE RunExternalEvent /\ Head(events[cur]).tag = "WaitFlushed"
    <3>1. Awaited("flush", cur) /\ ~Flushing(cur)' /\ cur' = cur
      BY <2>4, FlushIsAnswered
    <3>2. (Flushing(x) => x = cur) /\ ~Removing(x) /\ ~Queued("NewRenderer", x)
      BY <3>1 DEF AnswersTheCall, Awaited
    <3> QED BY <2>1, <3>1, <3>2 DEF NoneNew, AnswersTheCall
  <2>5. CASE RunRemoveRenderer
    <3>1. Awaited("destroy", cur) /\ ~Removing(cur)' /\ cur' = cur
      BY <2>5, RemovalIsAnswered
    <3>2. (Removing(x) => x = cur) /\ ~Flushing(x) /\ ~Queued("NewRenderer", x)
      BY <3>1 DEF AnswersTheCall, Awaited
    <3> QED BY <2>1, <3>1, <3>2 DEF NoneNew, AnswersTheCall
  <2>6. ASSUME NEW w \in Windows, NewRenderer(w)
        PROVE  LastFlush(x)' /\ AnswersTheCall(x)'
    <3>1. Awaited("create", w) /\ ~Queued("NewRenderer", w)'
      BY <2>6, CreationIsAnswered
    <3>2. (Queued("NewRenderer", x) => x = w) /\ ~Flushing(x) /\ ~Removing(x)
      BY <3>1 DEF AnswersTheCall, Awaited
    <3> QED BY <2>1, <3>1, <3>2 DEF NoneNew, AnswersTheCall
  <2>7. LastFlush(x)'
    BY <2>1 DEF NoneNew
  <2> QED BY <1>2, <2>2, <2>3, <2>4, <2>5, <2>6, <2>7, CallsGoOn
<1> QED BY <1>1, <1>2

-----------------------------------------------------------------------------
(* What an answer means                                                     *)

(* A window dies by its removal, or because it could not be created.        *)
LEMMA StepClosed ==
  ASSUME IInv, RInv, CInv, [Next]_vars, NEW x \in Windows, Closed(x)', ~Closed(x)
  PROVE  \/ RunRemoveRenderer /\ x = cur
         \/ TaskReturns /\ x \notin docHandle
<1> TypeOK
  BY DEF IInv
<1>1. ASSUME NEW w \in Windows, Starts(w) PROVE FALSE
  BY <1>1 DEF Starts, Create, GenerateFrame, SetFrameStartTime, WaitFlushed,
     DestroyRenderer, CompReturns, CompWaits, CompDoes, compVars, Closed,
     Answered, TypeOK, CompTypeOK
<1>2. CASE TaskReturns
  BY <1>2 DEF TaskReturns, CompReturns, Closed, Answered, TypeOK, CompTypeOK
<1>3. CASE UNCHANGED <<comp, taskDone, life>>
  BY <1>3 DEF Closed, Answered
<1>4. CASE comp'.op = "accepted" /\ UNCHANGED <<taskDone, life>>
  BY <1>4 DEF Closed, Answered
<1>5. CASE RunExternalEvent /\ Head(events[cur]).tag = "WaitFlushed"
  BY <1>5, FlushIsAnswered DEF RunExternalEvent, Awaited, Closed, Answered
<1>6. CASE RunRemoveRenderer
  BY <1>6, RemovalIsAnswered DEF RunRemoveRenderer, Awaited, Closed, Answered
<1>7. ASSUME NEW w \in Windows, NewRenderer(w) PROVE FALSE
  BY <1>7, CreationIsAnswered DEF NewRenderer, Awaited, Closed, Answered
<1> QED BY <1>1, <1>2, <1>3, <1>4, <1>5, <1>6, <1>7, CallsGoOn

(* An entry and its renderer come and go together, and come once.           *)
LEMMA StepEntry ==
  ASSUME IInv, CInv, [Next]_vars
  PROVE  /\ \A x \in Windows :
              x \in mWindowInfos' => x \in mWindowInfos \/ NewRenderer(x)
         /\ mWindowInfos' \subseteq mRenderers'
         /\ ~RunRemoveRenderer => mWindowInfos \subseteq mWindowInfos'
<1> mWindowInfos \subseteq mRenderers
  BY DEF CInv, RendersWhatIsThere
<1>1. ASSUME UNCHANGED <<mWindowInfos, mRenderers>>
      PROVE  /\ \A x \in Windows :
                  x \in mWindowInfos' => x \in mWindowInfos \/ NewRenderer(x)
             /\ mWindowInfos' \subseteq mRenderers'
             /\ ~RunRemoveRenderer => mWindowInfos \subseteq mWindowInfos'
  BY <1>1
<1>2. ASSUME NEW w \in Windows, NewRenderer(w)
      PROVE  /\ \A x \in Windows :
                  x \in mWindowInfos' => x \in mWindowInfos \/ NewRenderer(x)
             /\ mWindowInfos' \subseteq mRenderers'
             /\ ~RunRemoveRenderer => mWindowInfos \subseteq mWindowInfos'
  BY <1>2 DEF NewRenderer, AddRenderer
<1>3. CASE RunRemoveRenderer
  BY <1>3 DEF RunRemoveRenderer, RemoveRenderer, EraseWindowInfo, infoVars
<1>4. ASSUME NEW w \in Windows, CompositorStep(w)
      PROVE  UNCHANGED <<mWindowInfos, mRenderers>>
  BY <1>4 DEF CompositorStep, Create, Composite, RetrySkippedComposite,
     GenerateFrame, SetFrameStartTime, SetClearColor, WaitFlushed,
     DestroyRenderer, infoVars
<1>5. ASSUME NEW w \in Windows,
             \/ BackendStep(w) \/ WakeUp(w) \/ RunSetClearColor(w)
             \/ EraseQueue(w) \/ HandleWrNotifierEvents(w)
      PROVE  UNCHANGED <<mWindowInfos, mRenderers>>
  BY <1>5 DEF BackendStep, FrameBuilt, NewFrameReady, ForwardExternalEvent,
     StopRenderBackend, WakeUp, RunSetClearColor, EraseQueue,
     HandleWrNotifierEvents, infoVars
<1>6. CASE RunExternalEvent \/ FrameHandled \/ HandleFrameOneDoc
           \/ TaskReturns \/ SessionsRebuilt \/ MainStep \/ ShutDownTask
           \/ StartRender \/ FinishRender \/ HandlerReturns \/ UNCHANGED vars
  BY <1>1, <1>6 DEF RunExternalEvent, FrameHandled, HandleFrameOneDoc,
     TaskReturns, SessionsRebuilt, MainStep, ShutDown, PostShutDownTask,
     ThreadJoined, ShutDownTask, StartRender, FinishRender, HandlerReturns,
     vars, infoVars
<1> QED BY <1>1, <1>2, <1>3, <1>4, <1>5, <1>6
        DEF Next, RunnableStep, RenderThreadStep

(* ShutDown is not taken back.                                              *)
LEMMA StepShutDown == ASSUME [Next]_vars, mHasShutdown PROVE mHasShutdown'
<1>1. ASSUME UNCHANGED main PROVE mHasShutdown'
  BY <1>1 DEF mHasShutdown
<1>2. CASE MainStep
  BY <1>2 DEF MainStep, ShutDown, PostShutDownTask, ThreadJoined, mHasShutdown
<1>3. ASSUME NEW w \in Windows, CompositorStep(w) PROVE UNCHANGED main
  BY <1>3 DEF CompositorStep, Create, Composite, RetrySkippedComposite,
     GenerateFrame, SetFrameStartTime, SetClearColor, WaitFlushed,
     DestroyRenderer
<1>4. ASSUME NEW w \in Windows, BackendStep(w) \/ WakeUp(w) \/ RunnableStep(w)
      PROVE  UNCHANGED main
  BY <1>4 DEF BackendStep, FrameBuilt, NewFrameReady, ForwardExternalEvent,
     StopRenderBackend, WakeUp, RunnableStep, NewRenderer, RunSetClearColor,
     EraseQueue, HandleWrNotifierEvents
<1>5. CASE RunExternalEvent \/ FrameHandled \/ HandleFrameOneDoc
           \/ TaskReturns \/ SessionsRebuilt \/ ShutDownTask
           \/ StartRender \/ FinishRender \/ HandlerReturns
           \/ RunRemoveRenderer \/ UNCHANGED vars
  BY <1>5 DEF RunExternalEvent, FrameHandled, HandleFrameOneDoc,
     TaskReturns, SessionsRebuilt, ShutDownTask, StartRender, FinishRender,
     HandlerReturns, RunRemoveRenderer, vars, mHasShutdown
<1> QED BY <1>1, <1>2, <1>3, <1>4, <1>5 DEF Next, RenderThreadStep

-----------------------------------------------------------------------------
(* Every step keeps asking for the frame in construction                    *)

(* One more message: what asked still does, and so does a new one.          *)
LEMMA AskedAppend ==
  ASSUME NEW q \in Seq(Message), NEW m \in Message
  PROVE  AsksForSome(q) \/ AsksFor(m) => AsksForSome(Append(q, m))
<1> DEFINE p == Append(q, m)
<1>1. /\ Len(p) = Len(q) + 1 /\ Len(q) \in Nat
      /\ \A i \in 1..Len(q) : p[i] = q[i]
      /\ p[Len(q) + 1] = m
  BY AppendElements
<1>2. Len(q) + 1 \in 1..Len(p) /\ \A i \in 1..Len(q) : i \in 1..Len(p)
  BY <1>1
<1> HIDE DEF p
<1> QED BY <1>1, <1>2 DEF AsksForSome, p

(* One less: if it was not what asks, the rest still does.                  *)
LEMMA AskedTail ==
  ASSUME NEW q \in Seq(Message), q # <<>>, AsksForSome(q), ~AsksFor(Head(q))
  PROVE  AsksForSome(Tail(q))
<1>1. /\ Len(q) \in Nat /\ Len(q) >= 1 /\ Len(Tail(q)) = Len(q) - 1
      /\ \A i \in 1..Len(Tail(q)) : Tail(q)[i] = q[i + 1]
      /\ Head(q) = q[1]
  BY TailElements
<1>2. PICK i \in 1..Len(q) : AsksFor(q[i])
  BY DEF AsksForSome
<1>3. i # 1
  BY <1>1, <1>2
<1>4. i - 1 \in 1..Len(Tail(q)) /\ (i - 1) + 1 = i
  BY <1>1, <1>2, <1>3
<1>5. Tail(q)[i - 1] = q[i]
  BY <1>1, <1>4
<1> QED BY <1>2, <1>4, <1>5 DEF AsksForSome

(* Until its frame is built, the backend of a window is asked for it.       *)
LEMMA StepAsked ==
  ASSUME IInv, CInv, [Next]_vars, NEW x \in Windows, x \in mWindowInfos'
  PROVE  StillAsked(x)'
<1> TypeOK
  BY DEF IInv
<1>0. /\ backend[x] \in Seq(Message)
      /\ x \in mWindowInfos => StillAsked(x) /\ InBackend(x)
  BY DEF IInv, CInv, WindowOK, TypeOK, BackendTypeOK
<1>1. ASSUME x \in mWindowInfos,
             UNCHANGED <<backend, issued, built>>
      PROVE  StillAsked(x)'
  BY <1>0, <1>1 DEF StillAsked
<1>2. ASSUME NEW w \in Windows, NewRenderer(w) PROVE StillAsked(x)'
  <2>1. CASE x \in mWindowInfos
    BY <1>1, <1>2, <2>1 DEF NewRenderer, backendVars, frameVars
  <2>2. CASE x \notin mWindowInfos
    <3>1. x = w
      BY <1>2, <2>2 DEF NewRenderer, AddRenderer
    <3>2. Fresh(x)
      BY <1>2, <3>1, CreationIsAnswered DEF IInv, AddedOnce
    <3> QED BY <1>2, <3>2 DEF Fresh, StillAsked, NewRenderer, backendVars,
               frameVars
  <2> QED BY <2>1, <2>2
<1>3. ASSUME \A w \in Windows : ~NewRenderer(w)
      PROVE  x \in mWindowInfos
  BY <1>3, StepEntry
<1>4. ASSUME NEW w \in Windows, GenerateFrame(w) PROVE StillAsked(x)'
  <2> DEFINE m == [tag |-> "GenerateFrame", id |-> issued[w] + 1]
  <2>1. /\ m \in Message /\ AsksFor(m)
        /\ x # w => /\ backend'[x] = backend[x] /\ issued'[x] = issued[x]
                    /\ built'[x] = built[x]
        /\ x = w => backend'[x] = Append(backend[x], m)
    BY <1>4 DEF GenerateFrame, SendToBackend, AsksFor, Message, TypeOK,
       BackendTypeOK
  <2>2. x \in mWindowInfos
    BY <1>4 DEF GenerateFrame
  <2> HIDE DEF m
  <2> QED BY <1>0, <2>1, <2>2, AskedAppend DEF StillAsked
<1>5. ASSUME NEW w \in Windows, NEW m \in Message, SendToBackend(w, m),
             x \in mWindowInfos, UNCHANGED <<issued, built>>
      PROVE  StillAsked(x)'
  <2>1. backend'[x] \in {backend[x], Append(backend[x], m)}
    BY <1>5 DEF SendToBackend, TypeOK, BackendTypeOK
  <2> QED BY <1>0, <1>5, <2>1, AskedAppend DEF StillAsked
<1>6. ASSUME NEW w \in Windows, SetFrameStartTime(w) \/ WaitFlushed(w)
      PROVE  StillAsked(x)'
  <2>1. /\ ExternalEvent("FrameStartTime") \in Message
        /\ ExternalEvent("WaitFlushed") \in Message
    BY DEF Message, ExternalEvent, ExternalEvents
  <2> QED BY <1>5, <1>6, <2>1 DEF SetFrameStartTime, WaitFlushed, infoVars,
             frameVars
<1>7. ASSUME NEW w \in Windows, DestroyRenderer(w) PROVE StillAsked(x)'
  <2> DEFINE stop == [tag |-> "Stop", id |-> 0]
             remove == ExternalEvent("RemoveRenderer")
             q == Append(backend[x], stop)
  <2>1. /\ stop \in Message /\ remove \in Message
        /\ backend'[x] \in {backend[x], Append(q, remove)}
        /\ x \in mWindowInfos /\ UNCHANGED <<issued, built>>
    BY <1>7 DEF DestroyRenderer, frameVars, Message, ExternalEvent,
       ExternalEvents, TypeOK, BackendTypeOK
  <2> HIDE DEF stop, remove
  <2>2. q \in Seq(Message) /\ (AsksForSome(backend[x]) => AsksForSome(q))
    BY <1>0, <2>1, AskedAppend, AppendProperties
  <2> HIDE DEF q
  <2>3. AsksForSome(backend[x]) => AsksForSome(backend'[x])
    BY <2>1, <2>2, AskedAppend
  <2> QED BY <1>0, <2>1, <2>3 DEF StillAsked
<1>8. ASSUME NEW w \in Windows,
             FrameBuilt(w) \/ ForwardExternalEvent(w) \/ StopRenderBackend(w)
      PROVE  StillAsked(x)'
  <2>1. /\ x \in mWindowInfos /\ backend[w] # <<>> /\ UNCHANGED issued
        /\ backend' = [backend EXCEPT ![w] = Tail(@)]
        /\ AsksFor(Head(backend[w])) => FrameBuilt(w)
        /\ x # w => backend'[x] = backend[x] /\ built'[x] = built[x]
        /\ ~FrameBuilt(w) => built' = built
    BY <1>8 DEF FrameBuilt, ForwardExternalEvent, StopRenderBackend,
       BackendTakes, ForwardedTags, ExternalEvents, AsksFor, frameVars,
       infoVars, TypeOK, BackendTypeOK
  <2>2. CASE x # w
    BY <1>0, <2>1, <2>2 DEF StillAsked
  <2>3. CASE x = w /\ ~FrameBuilt(w)
    <3>1. AsksForSome(backend[x]) => AsksForSome(backend'[x])
      BY <1>0, <2>1, <2>3, AskedTail DEF TypeOK, BackendTypeOK
    <3> QED BY <1>0, <2>1, <2>3, <3>1 DEF StillAsked
  <2>4. CASE x = w /\ FrameBuilt(w)
    <3>1. AsksForSome(backend[x])
      <4>1. AsksFor(Head(backend[x]))
        BY <2>4 DEF FrameBuilt, BackendTakes, AsksFor
      <4> QED BY <1>0, <2>1, <2>4, <4>1, AsksTail DEF InBackend
    <3>2. built'[x] = built[x] + 1
      BY <2>4 DEF FrameBuilt, TypeOK, BackendTypeOK
    <3> QED BY <1>0, <2>1, <3>1, <3>2 DEF InBackend, StillAsked
  <2> QED BY <2>2, <2>3, <2>4
<1>9. ASSUME NEW w \in Windows,
             \/ Create(w) \/ Composite(w) \/ RetrySkippedComposite(w)
             \/ SetClearColor(w) \/ NewFrameReady(w) \/ WakeUp(w)
             \/ RunSetClearColor(w) \/ EraseQueue(w) \/ HandleWrNotifierEvents(w)
      PROVE  UNCHANGED <<backend, issued, built>>
  BY <1>9 DEF Create, Composite, RetrySkippedComposite, SetClearColor,
     NewFrameReady, WakeUp, RunSetClearColor, EraseQueue,
     HandleWrNotifierEvents, backendVars, frameVars
<1>10. CASE RunExternalEvent \/ FrameHandled \/ HandleFrameOneDoc
            \/ RunRemoveRenderer \/ TaskReturns \/ SessionsRebuilt \/ MainStep
            \/ ShutDownTask \/ StartRender \/ FinishRender \/ HandlerReturns
            \/ UNCHANGED vars
  <2>1. UNCHANGED <<backend, issued, built>>
    BY <1>10 DEF RunExternalEvent, FrameHandled, HandleFrameOneDoc,
       RunRemoveRenderer, TaskReturns, SessionsRebuilt, MainStep, ShutDown,
       PostShutDownTask, ThreadJoined, ShutDownTask, StartRender, FinishRender,
       HandlerReturns, vars, backendVars, frameVars
  <2> QED BY <1>1, <1>2, <1>3, <2>1
<1> QED BY <1>1, <1>2, <1>3, <1>4, <1>6, <1>7, <1>8, <1>9, <1>10
        DEF Next, CompositorStep, BackendStep, RunnableStep, RenderThreadStep

(* When WaitFlushed is handled no frame of the window is left anywhere.     *)
LEMMA FlushedIsEmpty ==
  ASSUME IInv, CInv, RunExternalEvent, Head(events[cur]).tag = "WaitFlushed",
         ~mHasShutdown
  PROVE  mPendingFrames[cur] = <<>>
<1> TypeOK
  BY DEF IInv
<1>1. /\ cur \in Windows /\ events[cur] \in Seq(Event) /\ events[cur] # <<>>
      /\ Flushes(events[cur])
  BY FlushIsAnswered
<1>2. CASE cur \notin mWindowInfos
  BY <1>1, <1>2 DEF IInv, AddedOnce
<1>3. CASE cur \in mWindowInfos
  <2>1. /\ FlushIsLast(events[cur]) /\ busy[cur] = 0
        /\ NoneTracked(backend[cur])
        /\ NoneTracked(mPendingWrNotifierEvents[cur])
    BY <1>1 DEF CInv, LastFlush, FlushInBatch, BackendFlushed
  <2>2. Counts(cur) /\ NoneMissing(cur)
    BY <1>3 DEF IInv, WindowOK
  <2>3. \A i \in 1..Len(events[cur]) : ~IsFrame(events[cur][i])
    <3>1. /\ Len(events[cur]) \in Nat /\ Len(events[cur]) >= 1
          /\ Head(events[cur]) = events[cur][1]
      BY <1>1, TailElements
    <3>2. \A i \in 1..Len(events[cur]) : i = 1 \/ 1 < i
      BY <3>1
    <3>3. 1 \in 1..Len(events[cur]) /\ events[cur][1].tag = "WaitFlushed"
      BY <3>1
    <3> QED BY <2>1, <3>2, <3>3 DEF FlushIsLast, Tracked, IsFrame
  <2>4. \A n \in 1..Announced(cur) : ~(Done(cur) < n)
    BY <2>1, <2>2, <2>3 DEF NoneMissing, Contains, NoneTracked, Tracked, IsFrame
  <2>5. built[cur] = issued[cur]
    <3>1. ~AsksForSome(backend[cur])
      BY <2>1 DEF AsksForSome, AsksFor, NoneTracked, Tracked
    <3> QED BY <1>3, <3>1 DEF CInv, StillAsked
  <2>6. Announced(cur) = issued[cur] /\ issued[cur] \in Nat
    BY <1>1, <2>1, <2>5 DEF Announced, TypeOK, BackendTypeOK
  <2>7. Done(cur) = issued[cur] - Len(mPendingFrames[cur])
        /\ Len(mPendingFrames[cur]) \in Nat /\ Done(cur) >= 0
    BY <1>1, <2>2 DEF Done, Counts, TypeOK, InfoTypeOK
  <2> DEFINE n == issued[cur]
             k == Len(mPendingFrames[cur])
  <2>8. k = 0
    <3> HIDE DEF n, k
    <3>1. n \in Nat /\ k \in Nat /\ n - k >= 0 /\ \A m \in 1..n : ~(n - k < m)
      BY <2>4, <2>6, <2>7 DEF n, k
    <3>2. SUFFICES ASSUME k # 0 PROVE FALSE
      OBVIOUS
    <3>3. n \in 1..n /\ n - k < n
      BY <3>1, <3>2
    <3> QED BY <3>1, <3>3
  <2>9. mPendingFrames[cur] \in Seq(Nat)
    BY <1>1 DEF TypeOK, InfoTypeOK
  <2> QED BY <2>8, <2>9, EmptySeq
<1> QED BY <1>2, <1>3


-----------------------------------------------------------------------------
(* What an answer means stays so                                            *)

(* Only a new frame makes an empty mPendingFrames grow.                     *)
LEMMA PendingStays ==
  ASSUME IInv, [Next]_vars, NEW x \in Windows, mPendingFrames[x] = <<>>
  PROVE  \/ mPendingFrames'[x] = <<>>
         \/ \E w \in Windows : GenerateFrame(w)
<1> TypeOK /\ Handling
  BY DEF IInv
<1>1. ASSUME NEW w \in Windows, CompositorStep(w), ~GenerateFrame(w)
      PROVE  UNCHANGED mPendingFrames
  BY <1>1 DEF CompositorStep, Create, Composite, RetrySkippedComposite,
     SetFrameStartTime, SetClearColor, WaitFlushed, DestroyRenderer, infoVars
<1>2. ASSUME NEW w \in Windows, BackendStep(w) \/ WakeUp(w) \/ RunnableStep(w)
      PROVE  UNCHANGED mPendingFrames
  BY <1>2 DEF BackendStep, FrameBuilt, NewFrameReady, ForwardExternalEvent,
     StopRenderBackend, WakeUp, RunnableStep, NewRenderer, RunSetClearColor,
     EraseQueue, HandleWrNotifierEvents, infoVars
<1>3. CASE RunRemoveRenderer
  BY <1>3 DEF RunRemoveRenderer, RemoveRenderer, EraseWindowInfo, infoVars,
     TypeOK, InfoTypeOK
<1>4. CASE FrameHandled
  <2>1. CASE HandlingFrame
    <3>1. cur # x
      BY <2>1, EmptySeq DEF Handling
    <3>2. mPendingFrames'[x] = mPendingFrames[x]
      BY <1>4, <3>1 DEF FrameHandled, DecPendingFrameCount, TypeOK, InfoTypeOK
    <3> QED BY <3>2
  <2>2. CASE ~HandlingFrame
    BY <1>4, <2>2 DEF FrameHandled, DecPendingFrameCount, HandlingFrame
  <2> QED BY <2>1, <2>2
<1>5. CASE RunExternalEvent \/ HandleFrameOneDoc \/ TaskReturns
           \/ SessionsRebuilt \/ MainStep \/ ShutDownTask \/ StartRender
           \/ FinishRender \/ HandlerReturns \/ UNCHANGED vars
  BY <1>5 DEF RunExternalEvent, HandleFrameOneDoc, TaskReturns,
     SessionsRebuilt, MainStep, ShutDown, PostShutDownTask, ThreadJoined,
     ShutDownTask, StartRender, FinishRender, HandlerReturns, vars, infoVars
<1> QED BY <1>1, <1>2, <1>3, <1>4, <1>5 DEF Next, RenderThreadStep

(* A flush is answered when its event is handled.                           *)
LEMMA StepFlushed ==
  ASSUME IInv, RInv, CInv, [Next]_vars, NEW x \in Windows,
         Answered("flush", x)'
  PROVE  /\ \A w \in Windows : ~GenerateFrame(w)
         /\ \/ Answered("flush", x)
            \/ /\ RunExternalEvent /\ Head(events[cur]).tag = "WaitFlushed"
               /\ x = cur
<1> TypeOK
  BY DEF IInv
<1>1. ASSUME NEW w \in Windows, Starts(w) PROVE FALSE
  <2>1. CASE Create(w) \/ WaitFlushed(w) \/ DestroyRenderer(w)
    <3>1. taskDone' = FALSE
      BY <2>1 DEF Create, WaitFlushed, DestroyRenderer, CompWaits
    <3> QED BY <3>1 DEF Answered
  <2>2. CASE GenerateFrame(w) \/ SetFrameStartTime(w)
    <3>1. comp'.op = "idle"
      BY <2>2 DEF GenerateFrame, SetFrameStartTime, CompReturns, CompIdle,
         compVars
    <3> QED BY <3>1 DEF Answered
  <2> QED BY <1>1, <2>1, <2>2 DEF Starts
<1>2. \A w \in Windows : ~GenerateFrame(w)
  BY <1>1 DEF Starts
<1>3. ASSUME NEW w \in Windows, NewRenderer(w) PROVE FALSE
  BY <1>3, CreationIsAnswered DEF NewRenderer, Awaited, Answered
<1>4. CASE RunRemoveRenderer
  BY <1>4, RemovalIsAnswered DEF RunRemoveRenderer, Awaited, Answered
<1>5. CASE TaskReturns
  BY <1>5 DEF TaskReturns, CompReturns, Answered
<1>6. CASE comp'.op = "accepted"
  BY <1>6 DEF Answered
<1>7. CASE RunExternalEvent /\ Head(events[cur]).tag = "WaitFlushed"
  <2>1. Awaited("flush", cur) /\ comp' = comp
    BY <1>7, FlushIsAnswered DEF RunExternalEvent
  <2> QED BY <1>2, <1>7, <2>1 DEF Awaited, Answered
<1>8. CASE UNCHANGED <<comp, taskDone, life>>
  BY <1>2, <1>8 DEF Answered
<1> QED BY <1>1, <1>3, <1>4, <1>5, <1>6, <1>7, <1>8, CallsGoOn

(* Every step keeps what an answer means.                                   *)
LEMMA StepMeans ==
  ASSUME IInv, RInv, CInv, [Next]_vars, NEW x \in Windows
  PROVE  AnswerMeans(x)'
<1> AnswerMeans(x)
  BY DEF CInv
<1>1. ASSUME Answered("flush", x)', ~mHasShutdown'
      PROVE  mPendingFrames'[x] = <<>>
  <2>1. ~mHasShutdown
    BY <1>1, StepShutDown
  <2>2. mPendingFrames[x] = <<>>
    BY <1>1, <2>1, StepFlushed, FlushedIsEmpty DEF AnswerMeans
  <2> QED BY <1>1, <2>2, StepFlushed, PendingStays
<1>2. ASSUME Closed(x)', ~mHasShutdown'
      PROVE  x \notin mWindowInfos'
  <2>1. ~mHasShutdown
    BY <1>2, StepShutDown
  <2>2. CASE Closed(x)
    <3>1. x \notin mWindowInfos
      BY <2>1, <2>2 DEF AnswerMeans
    <3>2. ~NewRenderer(x)
      <4>1. NewRenderer(x) => Awaited("create", x)
        BY CreationIsAnswered
      <4>2. Awaited("create", x) => life[x] = "creating"
        BY DEF Awaited, RInv, CallFitsLife
      <4> QED BY <2>2, <4>1, <4>2 DEF Closed, Answered, Awaited
    <3> QED BY <3>1, <3>2, StepEntry
  <2>3. CASE RunRemoveRenderer /\ x = cur
    BY <2>1, <2>3 DEF RunRemoveRenderer, RemoveRenderer, EraseWindowInfo
  <2>4. CASE TaskReturns /\ x \notin docHandle
    BY <2>4 DEF TaskReturns, infoVars, IInv, AddedOnce
  <2> QED BY <1>2, <2>2, <2>3, <2>4, StepClosed
<1> QED BY <1>1, <1>2 DEF AnswerMeans

-----------------------------------------------------------------------------
(* What is rendered is there                                                *)

(* A handler turns to a frame only in these steps.                          *)
LEMMA StepRendering ==
  ASSUME [Next]_vars, pc' \in {"render", "rendering"}
  PROVE  \/ HandleFrameOneDoc
         \/ pc \in {"render", "rendering"} /\ cur' = cur /\ ~RunRemoveRenderer
<1>1. ASSUME NEW w \in Windows,
             \/ CompositorStep(w) \/ BackendStep(w) \/ WakeUp(w)
             \/ NewRenderer(w) \/ RunSetClearColor(w) \/ EraseQueue(w)
      PROVE  UNCHANGED <<pc, cur>>
  BY <1>1 DEF CompositorStep, Create, Composite, RetrySkippedComposite,
     GenerateFrame, SetFrameStartTime, SetClearColor, WaitFlushed,
     DestroyRenderer, BackendStep, FrameBuilt, NewFrameReady,
     ForwardExternalEvent, StopRenderBackend, WakeUp, NewRenderer,
     RunSetClearColor, EraseQueue, handlerVars
<1>2. ASSUME NEW w \in Windows, HandleWrNotifierEvents(w) PROVE FALSE
  BY <1>2 DEF HandleWrNotifierEvents, RunnableTaken
<1>3. CASE RunExternalEvent \/ RunRemoveRenderer
  BY <1>3 DEF RunExternalEvent, RunRemoveRenderer, AtEvent, handlerVars
<1>4. CASE FinishRender \/ FrameHandled \/ HandlerReturns
  BY <1>4 DEF FinishRender, FrameHandled, HandlerReturns
<1>5. CASE StartRender
  BY <1>5 DEF StartRender, RunRemoveRenderer, AtEvent
<1>6. ASSUME TaskReturns \/ SessionsRebuilt \/ MainStep \/ ShutDownTask
               \/ UNCHANGED vars
      PROVE  UNCHANGED <<pc, cur>>
  BY <1>6 DEF TaskReturns, SessionsRebuilt, MainStep, ShutDown,
     PostShutDownTask, ThreadJoined, ShutDownTask, vars, handlerVars
<1>7. UNCHANGED <<pc, cur>> =>
        pc \in {"render", "rendering"} /\ cur' = cur /\ ~RunRemoveRenderer
  BY DEF RunRemoveRenderer, AtEvent
<1> QED BY <1>1, <1>2, <1>3, <1>4, <1>5, <1>6, <1>7
        DEF Next, RunnableStep, RenderThreadStep

(* A frame is rendered for a window that has its entry and its renderer.    *)
LEMMA StepRenders ==
  ASSUME IInv, RInv, CInv, [Next]_vars
  PROVE  RendersWhatIsThere'
<1> TypeOK /\ Handling /\ RendersWhatIsThere
  BY DEF IInv, CInv
<1>1. mWindowInfos' \subseteq mRenderers'
  BY StepEntry
<1>2. ASSUME pc' \in {"render", "rendering"}
      PROVE  cur' \in mWindowInfos' /\ ~Closed(cur)'
  <2>1. /\ cur' = cur /\ pc # "idle" /\ cur \in mWindowInfos /\ ~Closed(cur)
        /\ ~RunRemoveRenderer
    <3>1. CASE HandleFrameOneDoc
      <4>1. /\ pc = "loop" /\ cur' = cur /\ ~mHasShutdown /\ ~SkipsFrame(cur)
            /\ ~RunRemoveRenderer
        BY <1>2, <3>1 DEF HandleFrameOneDoc, AtEvent, RunRemoveRenderer
      <4>2. cur \in mWindowInfos
        BY <4>1 DEF SkipsFrame, IsDestroyed
      <4>3. ~Closed(cur)
        BY <4>1, <4>2 DEF TypeOK, HandlerTypeOK, CInv, AnswerMeans
      <4> QED BY <4>1, <4>2, <4>3
    <3>2. CASE ~HandleFrameOneDoc
      BY <1>2, <3>2, StepRendering DEF RendersWhatIsThere
    <3> QED BY <3>1, <3>2
  <2>2. cur \in Windows /\ cur \in docHandle
    BY <2>1 DEF TypeOK, HandlerTypeOK, Handling
  <2>3. cur' \in mWindowInfos'
    BY <2>1, StepEntry
  <2>4. \A x \in Windows : ~Closed(x) /\ x \in docHandle => ~Closed(x)'
    BY <2>1, StepClosed
  <2>5. ~Closed(cur)'
    BY <2>1, <2>2, <2>4 DEF Closed, Answered
  <2> QED BY <2>3, <2>5
<1> QED BY <1>1, <1>2 DEF RendersWhatIsThere

(* Answers mean what they say, and what is rendered is there.               *)
LEMMA CallInvariant == Spec => []CInv
<1>1. Init => CInv
  <2> SUFFICES ASSUME Init PROVE CInv
    OBVIOUS
  <2>1. \A w \in Windows : LastFlush(w) /\ AnswersTheCall(w)
    <3>1. \A w \in Windows : /\ backend[w] = <<>> /\ events[w] = <<>>
                              /\ mPendingWrNotifierEvents[w] = <<>>
      BY DEF Init
    <3>2. \A w \in Windows : ~Queued("NewRenderer", w)
      <4>1. mThread = <<>>
        BY DEF Init
      <4> QED BY <4>1 DEF Queued
    <3> QED BY <3>1, <3>2, FlushesNothing, RemovesNothing
    DEF LastFlush, FlushSent, FlushPending, FlushInBatch, AnswersTheCall,
        Flushing, Removing
  <2>2. \A w \in Windows : AnswerMeans(w)
    BY DEF Init, AnswerMeans, Closed, Answered
  <2>3. RendersWhatIsThere /\ mWindowInfos = {}
    BY DEF Init, RendersWhatIsThere
  <2> QED BY <2>1, <2>2, <2>3 DEF CInv
<1>2. IInv /\ RInv /\ CInv /\ [Next]_vars => CInv'
  <2> SUFFICES ASSUME IInv, RInv, CInv, [Next]_vars PROVE CInv'
    OBVIOUS
  <2>1. \A x \in Windows : LastFlush(x)' /\ AnswersTheCall(x)'
    BY StepAnswers
  <2>2. \A x \in Windows : AnswerMeans(x)'
    BY StepMeans
  <2>3. \A x \in Windows : x \in mWindowInfos' => StillAsked(x)'
    BY StepAsked
  <2>4. mWindowInfos' \subseteq Windows
    <3>1. TypeOK'
      BY StepIInv DEF IInv
    <3> QED BY <3>1 DEF TypeOK, InfoTypeOK
  <2>5. RendersWhatIsThere'
    BY StepRenders
  <2> QED BY <2>1, <2>2, <2>3, <2>4, <2>5 DEF CInv
<1> QED BY <1>1, <1>2, Invariant, RemovalInvariant, PTL DEF Spec

(* UpdateAndRender never runs for a window whose WebRenderAPI is gone.      *)
THEOREM NoneRenderedAfterDestroy == Spec => []NoRenderAfterDestroy
<1>1. IInv /\ CInv => NoRenderAfterDestroy
  <2> SUFFICES ASSUME IInv, CInv, pc \in {"render", "rendering"}
               PROVE  /\ life[cur] \in {"creating", "live", "destroying"}
                      /\ cur \in mRenderers
    BY DEF NoRenderAfterDestroy
  <2>1. cur \in Windows /\ cur \in mWindowInfos /\ ~Closed(cur) /\ cur \in mRenderers
    BY DEF CInv, RendersWhatIsThere, IInv, TypeOK, HandlerTypeOK
  <2>2. life[cur] \notin {"unused", "dead"}
    BY <2>1 DEF Closed, IInv, AddedOnce, Fresh
  <2> QED BY <2>1, <2>2 DEF IInv, TypeOK, CompTypeOK
<1> QED BY <1>1, Invariant, CallInvariant, PTL

(* When WaitFlushed returns, every frame asked for before it has been       *)
(* handled (the comment in WebRenderAPI::WaitFlushed).                      *)
THEOREM FlushesAreWhole == Spec => []FlushedMeansHandled
<1>1. IInv /\ CInv => FlushedMeansHandled
  <2> SUFFICES ASSUME IInv, CInv, comp.op = "flush", taskDone, ~mHasShutdown
               PROVE  mPendingFrames[comp.window] = <<>>
    BY DEF FlushedMeansHandled
  <2>1. comp.window \in Windows
    BY DEF IInv, TypeOK, CompTypeOK
  <2> QED BY <2>1 DEF CInv, AnswerMeans, Answered
<1> QED BY <1>1, Invariant, CallInvariant, PTL

-----------------------------------------------------------------------------
(* Only frames have a number, and no window is asked for a frame beyond the *)
(* bound.                                                                   *)
Plain(q) == \A i \in 1..Len(q) : q[i].tag # "NewFrameReady"
                                   /\ q[i].tag # "GenerateFrame" => q[i].id = 0

PlainQueues(w) == /\ Plain(backend[w]) /\ Plain(events[w])
                  /\ Plain(mPendingWrNotifierEvents[w])
FewFrames(w) ==
  /\ issued[w] <= MaxFrames
  /\ w \in skipped => issued[w] < MaxFrames
  /\ comp.op = "accepted" /\ comp.window = w =>
       issued[w] < MaxFrames /\ w \notin skipped

(* Without an entry there is no event, without a document no backend, and a *)
(* closed window's backend has stopped.                                     *)
ListedForEvents(w) ==
  w \notin mWindowInfos => events[w] = <<>> /\ mPendingWrNotifierEvents[w] = <<>>
HasBackend(w) ==
  /\ life[w] \in {"live", "destroying"} => w \in docHandle
  /\ w \notin docHandle => backend[w] = <<>> /\ busy[w] = 0
ClosedIsSilent(w) ==
  Closed(w) => /\ backend[w] = <<>> /\ busy[w] = 0
               /\ w \in docHandle => w \in stopped

(* What is handled as a frame is no external event.                         *)
HandlesFrame == pc \in {"render", "rendering", "handled"} =>
                  Head(events[cur]).tag \in {"WakeUp", "NewFrameReady"}

EInv == /\ \A w \in Windows : /\ PlainQueues(w) /\ FewFrames(w)
                              /\ ListedForEvents(w) /\ HasBackend(w)
                              /\ ClosedIsSilent(w)
        /\ HandlesFrame

-----------------------------------------------------------------------------
(* What a step does to the queues of a window                               *)

(* Only frames have a number.                                               *)
PlainOne(m) == m.tag # "NewFrameReady" /\ m.tag # "GenerateFrame" => m.id = 0

(* One more.                                                                *)
LEMMA PlainAppend ==
  ASSUME NEW S, NEW q \in Seq(S), NEW e \in S, Plain(q), PlainOne(e)
  PROVE  Plain(Append(q, e))
<1>1. /\ Len(Append(q, e)) = Len(q) + 1 /\ Len(q) \in Nat
      /\ \A i \in 1..Len(q) : Append(q, e)[i] = q[i]
      /\ Append(q, e)[Len(q) + 1] = e
  BY AppendElements
<1>2. \A i \in 1..Len(Append(q, e)) : i \in 1..Len(q) \/ i = Len(q) + 1
  BY <1>1
<1> QED BY <1>1, <1>2 DEF Plain, PlainOne

(* The first one, and the rest.                                             *)
LEMMA PlainTail ==
  ASSUME NEW S, NEW q \in Seq(S), q # <<>>, Plain(q)
  PROVE  Plain(Tail(q)) /\ PlainOne(Head(q))
<1>1. /\ Len(q) \in Nat /\ Len(q) >= 1 /\ Len(Tail(q)) = Len(q) - 1
      /\ \A i \in 1..Len(Tail(q)) : Tail(q)[i] = q[i + 1]
      /\ Head(q) = q[1]
  BY TailElements
<1>2. /\ \A i \in 1..Len(Tail(q)) : i + 1 \in 1..Len(q)
      /\ 1 \in 1..Len(q)
  BY <1>1
<1> QED BY <1>1, <1>2 DEF Plain, PlainOne

(* No message at all.                                                       *)
LEMMA PlainNothing == Plain(<<>>)
  BY EmptySeq DEF Plain

(* A live window's backend is sent messages, or the backend takes one.      *)
Hears(x) ==
  \/ backend'[x] = backend[x] /\ busy'[x] \in {busy[x], 0}
  \/ /\ life[x] = "live" /\ ~Closed(x)' /\ busy'[x] = busy[x]
     /\ \E m, n \in Message :
          /\ PlainOne(m) /\ PlainOne(n)
          /\ backend'[x] \in {Append(backend[x], m), Append(Append(backend[x], m), n)}
  \/ backend[x] # <<>> /\ backend'[x] = Tail(backend[x])

(* Every step of the threads leaves a backend alone, or does one of these.  *)
LEMMA StepHears ==
  ASSUME TypeOK, Accepted, [Next]_vars, NEW x \in Windows
  PROVE  Hears(x)
<1>1. ASSUME UNCHANGED <<backend, busy>> PROVE Hears(x)
  BY <1>1 DEF Hears
<1>2. ASSUME NEW w \in Windows, NEW m \in Message, PlainOne(m),
             SendToBackend(w, m), life[w] = "live", ~Closed(w)', UNCHANGED busy
      PROVE  Hears(x)
  BY <1>2 DEF Hears, SendToBackend, TypeOK, BackendTypeOK
<1>3. ASSUME NEW w \in Windows, GenerateFrame(w) PROVE Hears(x)
  <2> DEFINE m == [tag |-> "GenerateFrame", id |-> issued[w] + 1]
  <2>1. m \in Message /\ PlainOne(m)
    BY DEF Message, PlainOne, TypeOK, BackendTypeOK
  <2>2. SendToBackend(w, m) /\ UNCHANGED busy
    BY <1>3 DEF GenerateFrame
  <2> HIDE DEF m
  <2>3. life[w] = "live" /\ ~Closed(w)'
    BY <1>3 DEF GenerateFrame, CompReturns, Accepted, Closed
  <2> QED BY <1>2, <2>1, <2>2, <2>3
<1>4. ASSUME NEW w \in Windows, SetFrameStartTime(w) \/ WaitFlushed(w)
      PROVE  Hears(x)
  <2>1. PICK tag \in ExternalEvents : SendToBackend(w, ExternalEvent(tag))
    BY <1>4 DEF SetFrameStartTime, WaitFlushed, ExternalEvents
  <2>2. ExternalEvent(tag) \in Message /\ PlainOne(ExternalEvent(tag))
    BY DEF ExternalEvent, Message, PlainOne
  <2>3. life[w] = "live" /\ ~Closed(w)' /\ UNCHANGED busy
    BY <1>4 DEF SetFrameStartTime, WaitFlushed, CompWaits, CompDoes, CompIdle,
       compVars, Closed
  <2> QED BY <1>2, <2>1, <2>2, <2>3
<1>5. ASSUME NEW w \in Windows, DestroyRenderer(w) PROVE Hears(x)
  <2> DEFINE stop == [tag |-> "Stop", id |-> 0]
             remove == ExternalEvent("RemoveRenderer")
  <2>1. /\ stop \in Message /\ remove \in Message
        /\ PlainOne(stop) /\ PlainOne(remove)
    BY DEF ExternalEvent, ExternalEvents, Message, PlainOne
  <2>2. /\ backend' = [backend EXCEPT ![w] = Append(Append(backend[w], stop), remove)]
        /\ UNCHANGED busy
    BY <1>5 DEF DestroyRenderer
  <2> HIDE DEF stop, remove
  <2>3. life[w] = "live" /\ ~Closed(w)'
    BY <1>5 DEF DestroyRenderer, CompWaits, CompDoes, Closed, TypeOK, CompTypeOK
  <2>4. CASE x = w
    <3>1. backend'[x] = Append(Append(backend[x], stop), remove)
      BY <2>2, <2>4 DEF TypeOK, BackendTypeOK
    <3> QED BY <2>1, <2>2, <2>3, <2>4, <3>1 DEF Hears
  <2>5. CASE x # w
    BY <2>2, <2>5 DEF Hears, TypeOK, BackendTypeOK
  <2> QED BY <2>4, <2>5
<1>6. ASSUME NEW w \in Windows,
             FrameBuilt(w) \/ ForwardExternalEvent(w) \/ StopRenderBackend(w)
      PROVE  Hears(x)
  BY <1>6 DEF FrameBuilt, ForwardExternalEvent, StopRenderBackend,
     BackendTakes, Hears, TypeOK, BackendTypeOK
<1>7. ASSUME NEW w \in Windows, NewFrameReady(w) PROVE Hears(x)
  BY <1>7 DEF NewFrameReady, Hears, TypeOK, BackendTypeOK
<1>8. ASSUME NEW w \in Windows,
             \/ Create(w) \/ Composite(w) \/ RetrySkippedComposite(w)
             \/ SetClearColor(w) \/ WakeUp(w) \/ RunnableStep(w)
      PROVE  UNCHANGED <<backend, busy>>
  BY <1>8 DEF Create, Composite, RetrySkippedComposite, SetClearColor,
     WakeUp, RunnableStep, NewRenderer, RunSetClearColor, EraseQueue,
     HandleWrNotifierEvents, backendVars
<1>9. CASE RunExternalEvent \/ FrameHandled \/ HandleFrameOneDoc
           \/ RunRemoveRenderer \/ TaskReturns \/ SessionsRebuilt \/ MainStep
           \/ ShutDownTask \/ StartRender \/ FinishRender \/ HandlerReturns
           \/ UNCHANGED vars
  BY <1>1, <1>9 DEF RunExternalEvent, FrameHandled, HandleFrameOneDoc,
     RunRemoveRenderer, TaskReturns, SessionsRebuilt, MainStep, ShutDown,
     PostShutDownTask, ThreadJoined, ShutDownTask, StartRender, FinishRender,
     HandlerReturns, vars, backendVars
<1> QED BY <1>1, <1>3, <1>4, <1>5, <1>6, <1>7, <1>8, <1>9
        DEF Next, CompositorStep, BackendStep, RenderThreadStep

(* A window with an entry is posted an event, its handler takes the pending *)
(* ones over or takes one out, or its queues are cleared.                   *)
Queues(x) ==
  \/ events'[x] = events[x]
       /\ mPendingWrNotifierEvents'[x] = mPendingWrNotifierEvents[x]
  \/ /\ x \in mWindowInfos /\ events'[x] = events[x]
     /\ \E e \in Event : /\ PlainQueues(x) => PlainOne(e)
                        /\ mPendingWrNotifierEvents'[x] =
                             Append(mPendingWrNotifierEvents[x], e)
  \/ /\ events[x] = <<>> /\ events'[x] = mPendingWrNotifierEvents[x]
     /\ mPendingWrNotifierEvents'[x] = <<>>
  \/ /\ events[x] # <<>> /\ events'[x] = Tail(events[x])
     /\ mPendingWrNotifierEvents'[x] \in {mPendingWrNotifierEvents[x], <<>>}
  \/ /\ events'[x] = <<>>
     /\ mPendingWrNotifierEvents'[x] = mPendingWrNotifierEvents[x]

(* Every step of the threads does one of these to the queues of a window.   *)
LEMMA StepQueues ==
  ASSUME TypeOK, Handling, [Next]_vars, NEW x \in Windows
  PROVE  Queues(x)
<1>1. ASSUME UNCHANGED <<events, mPendingWrNotifierEvents>> PROVE Queues(x)
  BY <1>1 DEF Queues
<1>2. ASSUME NEW w \in Windows, NEW e \in Event, PostWrNotifierEvent(w, e),
             PlainQueues(w) => PlainOne(e), UNCHANGED events
      PROVE  Queues(x)
  BY <1>2 DEF Queues, PostWrNotifierEvent, TypeOK, InfoTypeOK
<1>3. ASSUME NEW w \in Windows, NewFrameReady(w) PROVE Queues(x)
  <2>1. /\ NewFrameReadyEvent(busy[w]) \in Event
        /\ PlainOne(NewFrameReadyEvent(busy[w]))
    BY DEF NewFrameReadyEvent, Event, PlainOne, TypeOK, BackendTypeOK
  <2> QED BY <1>2, <1>3, <2>1 DEF NewFrameReady, queueVars
<1>4. ASSUME NEW w \in Windows, WakeUp(w) PROVE Queues(x)
  <2>1. WakeUpEvent \in Event /\ PlainOne(WakeUpEvent)
    BY DEF WakeUpEvent, Event, PlainOne
  <2> QED BY <1>2, <1>4, <2>1 DEF WakeUp, queueVars
<1>5. ASSUME NEW w \in Windows, ForwardExternalEvent(w) PROVE Queues(x)
  <2>1. /\ backend[w] \in Seq(Message) /\ backend[w] # <<>>
        /\ Head(backend[w]).tag \in ExternalEvents
    BY <1>5 DEF ForwardExternalEvent, BackendTakes, ForwardedTags, TypeOK,
       BackendTypeOK
  <2>2. Head(backend[w]) \in Event
    <3>1. Head(backend[w]) \in Message
      BY <2>1, HeadTailProperties
    <3> QED BY <2>1, <3>1 DEF Message, Event
  <2>3. PlainQueues(w) => PlainOne(Head(backend[w]))
    BY <2>1, PlainTail DEF PlainQueues
  <2> QED BY <1>2, <1>5, <2>2, <2>3 DEF ForwardExternalEvent, queueVars
<1>6. ASSUME NEW w \in Windows, HandleWrNotifierEvents(w) PROVE Queues(x)
  BY <1>6 DEF HandleWrNotifierEvents, TakePendingEvents, Queues, TypeOK,
     InfoTypeOK, QueueTypeOK
<1>7. ASSUME NEW w \in Windows, EraseQueue(w) PROVE Queues(x)
  BY <1>7 DEF EraseQueue, infoVars, Queues, TypeOK, QueueTypeOK
<1>8. CASE RunExternalEvent \/ FrameHandled \/ HandleFrameOneDoc
           \/ RunRemoveRenderer
  <2>1. /\ events' = events \/ PopEvent
        /\ ~PopEvent => UNCHANGED mPendingWrNotifierEvents
    BY <1>8 DEF RunExternalEvent, FrameHandled, HandleFrameOneDoc,
       RunRemoveRenderer, infoVars
  <2>2. cur \in Windows /\ events[cur] # <<>>
    BY <1>8 DEF RunExternalEvent, FrameHandled, HandleFrameOneDoc,
       RunRemoveRenderer, AtEvent, Handling, TypeOK, HandlerTypeOK
  <2>3. \/ mPendingWrNotifierEvents'[x] = mPendingWrNotifierEvents[x]
        \/ x = cur /\ mPendingWrNotifierEvents'[x] = <<>>
    BY <1>8, <2>2 DEF RunExternalEvent, FrameHandled, HandleFrameOneDoc,
       RunRemoveRenderer, RemoveRenderer, EraseWindowInfo, infoVars, TypeOK,
       InfoTypeOK
  <2>4. CASE ~PopEvent
    BY <1>1, <2>1, <2>4
  <2>5. CASE PopEvent
    <3>1. /\ x = cur => events'[x] = Tail(events[x])
          /\ x # cur => events'[x] = events[x]
      BY <2>2, <2>5 DEF PopEvent, TypeOK, QueueTypeOK
    <3> QED BY <2>2, <2>3, <3>1 DEF Queues
  <2> QED BY <2>4, <2>5
<1>9. ASSUME NEW w \in Windows,
             \/ CompositorStep(w) \/ FrameBuilt(w) \/ StopRenderBackend(w)
             \/ NewRenderer(w) \/ RunSetClearColor(w)
      PROVE  UNCHANGED <<events, mPendingWrNotifierEvents>>
  BY <1>9 DEF CompositorStep, Create, Composite, RetrySkippedComposite,
     GenerateFrame, SetFrameStartTime, SetClearColor, WaitFlushed,
     DestroyRenderer, FrameBuilt, StopRenderBackend, NewRenderer,
     RunSetClearColor, infoVars, queueVars
<1>10. CASE TaskReturns \/ SessionsRebuilt \/ MainStep \/ ShutDownTask
            \/ StartRender \/ FinishRender \/ HandlerReturns \/ UNCHANGED vars
  BY <1>1, <1>10 DEF TaskReturns, SessionsRebuilt, MainStep, ShutDown,
     PostShutDownTask, ThreadJoined, ShutDownTask, StartRender, FinishRender,
     HandlerReturns, vars, infoVars, queueVars
<1> QED BY <1>1, <1>3, <1>4, <1>5, <1>6, <1>7, <1>8, <1>9, <1>10
        DEF Next, BackendStep, RunnableStep, RenderThreadStep

(* A document comes with NewRenderer, and a backend stops once.             *)
LEMMA StepStopped ==
  ASSUME [Next]_vars, NEW x \in Windows
  PROVE  /\ x \in docHandle => x \in docHandle'
         /\ x \in docHandle' => x \in docHandle \/ NewRenderer(x)
         /\ x \in stopped => x \in stopped'
<1>1. ASSUME NEW w \in Windows,
             \/ CompositorStep(w) \/ BackendStep(w) \/ WakeUp(w)
             \/ RunnableStep(w)
      PROVE  /\ x \in docHandle => x \in docHandle'
             /\ x \in docHandle' => x \in docHandle \/ NewRenderer(x)
             /\ x \in stopped => x \in stopped'
  BY <1>1 DEF CompositorStep, Create, Composite, RetrySkippedComposite,
     GenerateFrame, SetFrameStartTime, SetClearColor, WaitFlushed,
     DestroyRenderer, BackendStep, FrameBuilt, NewFrameReady,
     ForwardExternalEvent, StopRenderBackend, WakeUp, RunnableStep,
     NewRenderer, RunSetClearColor, EraseQueue, HandleWrNotifierEvents,
     compVars, backendVars
<1>2. CASE RunExternalEvent \/ FrameHandled \/ HandleFrameOneDoc
           \/ RunRemoveRenderer \/ TaskReturns \/ SessionsRebuilt \/ MainStep
           \/ ShutDownTask \/ StartRender \/ FinishRender \/ HandlerReturns
           \/ UNCHANGED vars
  BY <1>2 DEF RunExternalEvent, FrameHandled, HandleFrameOneDoc,
     RunRemoveRenderer, TaskReturns, SessionsRebuilt, MainStep, ShutDown,
     PostShutDownTask, ThreadJoined, ShutDownTask, StartRender, FinishRender,
     HandlerReturns, vars, compVars, backendVars
<1> QED BY <1>1, <1>2 DEF Next, RenderThreadStep

-----------------------------------------------------------------------------
(* Every step keeps the invariant of the events                             *)

(* A step sends plain messages and posts plain events.                      *)
LEMMA StepPlain ==
  ASSUME IInv, [Next]_vars, NEW x \in Windows, PlainQueues(x)
  PROVE  PlainQueues(x)'
<1> /\ TypeOK /\ backend[x] \in Seq(Message) /\ events[x] \in Seq(Event)
    /\ mPendingWrNotifierEvents[x] \in Seq(Event)
    /\ Plain(backend[x]) /\ Plain(events[x]) /\ Plain(mPendingWrNotifierEvents[x])
  BY DEF IInv, TypeOK, InfoTypeOK, QueueTypeOK, BackendTypeOK, PlainQueues
<1>1. Plain(backend'[x])
  <2>1. Hears(x)
    BY StepHears DEF IInv
  <2>2. ASSUME NEW m \in Message, NEW n \in Message, PlainOne(m), PlainOne(n)
        PROVE  Plain(Append(backend[x], m)) /\ Plain(Append(Append(backend[x], m), n))
    <3>1. Append(backend[x], m) \in Seq(Message) /\ Plain(Append(backend[x], m))
      BY <2>2, PlainAppend, AppendProperties
    <3> QED BY <2>2, <3>1, PlainAppend
  <2> QED BY <2>1, <2>2, PlainTail DEF Hears
<1>2. Plain(events'[x]) /\ Plain(mPendingWrNotifierEvents'[x])
  <2>1. Queues(x)
    BY StepQueues DEF IInv
  <2> QED BY <2>1, PlainAppend, PlainTail, PlainNothing DEF Queues
<1> QED BY <1>1, <1>2 DEF PlainQueues

(* Events are posted to windows with an entry, which goes with its events.  *)
LEMMA StepListed ==
  ASSUME IInv, RInv, CInv, [Next]_vars, NEW x \in Windows, ListedForEvents(x)
  PROVE  ListedForEvents(x)'
<1>1. CASE x \notin mWindowInfos
  <2>1. Queues(x)
    BY StepQueues DEF IInv
  <2> QED BY <1>1, <2>1 DEF Queues, ListedForEvents
<1>2. CASE x \in mWindowInfos /\ x \notin mWindowInfos'
  <2>1. RunRemoveRenderer
    BY <1>2, StepEntry
  <2>2. x = cur
    BY <1>2, <2>1 DEF RunRemoveRenderer, RemoveRenderer, EraseWindowInfo, infoVars
  <2> QED BY <2>1, <2>2, RemovalIsAnswered DEF ListedForEvents
<1> QED BY <1>1, <1>2 DEF ListedForEvents

(* A document comes before the messages to its backend.                     *)
LEMMA StepBackend ==
  ASSUME IInv, [Next]_vars, NEW x \in Windows, HasBackend(x)
  PROVE  HasBackend(x)'
<1> TypeOK /\ Hears(x)
  BY StepHears DEF IInv
<1>1. life'[x] \in {"live", "destroying"} => x \in docHandle'
  <2>1. \/ life'[x] = life[x] \/ life'[x] \notin {"live", "destroying"}
        \/ life[x] = "live" \/ TaskReturns
    <3>1. ASSUME NEW w \in Windows, Starts(w)
          PROVE  \/ life'[x] = life[x] \/ life[x] = "live"
                 \/ life'[x] \notin {"live", "destroying"}
      BY <3>1 DEF Starts, Create, GenerateFrame, SetFrameStartTime,
         WaitFlushed, DestroyRenderer, compVars, TypeOK, CompTypeOK
    <3>2. ASSUME NEW w \in Windows, NewRenderer(w) PROVE UNCHANGED life
      BY <3>2 DEF NewRenderer
    <3>3. ASSUME RunExternalEvent \/ RunRemoveRenderer PROVE UNCHANGED life
      BY <3>3 DEF RunExternalEvent, RunRemoveRenderer
    <3> QED BY <3>1, <3>2, <3>3, CallsGoOn
  <2>2. CASE TaskReturns
    BY <2>2, StepStopped DEF TaskReturns, HasBackend, TypeOK, CompTypeOK
  <2> QED BY <2>1, <2>2, StepStopped DEF HasBackend
<1>2. x \notin docHandle' => backend'[x] = <<>> /\ busy'[x] = 0
  <2>1. ASSUME x \notin docHandle' PROVE backend'[x] = <<>> /\ busy'[x] = 0
    <3>1. backend[x] = <<>> /\ busy[x] = 0 /\ life[x] # "live"
      BY <2>1, StepStopped DEF HasBackend
    <3> QED BY <3>1 DEF Hears
  <2> QED BY <2>1
<1> QED BY <1>1, <1>2 DEF HasBackend

(* A window is closed for good.                                             *)
LEMMA StepSilent ==
  ASSUME IInv, RInv, CInv, [Next]_vars, NEW x \in Windows, HasBackend(x),
         ClosedIsSilent(x)
  PROVE  ClosedIsSilent(x)'
<1> TypeOK /\ Hears(x)
  BY StepHears DEF IInv
<1> SUFFICES ASSUME Closed(x)'
             PROVE  /\ backend'[x] = <<>> /\ busy'[x] = 0
                    /\ x \in docHandle' => x \in stopped'
  BY DEF ClosedIsSilent
<1>1. CASE Closed(x)
  <2>1. backend'[x] = <<>> /\ busy'[x] = 0
    BY <1>1 DEF ClosedIsSilent, Hears
  <2>2. ~NewRenderer(x)
    <3>1. NewRenderer(x) => Awaited("create", x)
      BY CreationIsAnswered
    <3>2. Awaited("create", x) => life[x] = "creating"
      BY DEF Awaited, RInv, CallFitsLife
    <3> QED BY <1>1, <3>1, <3>2 DEF Closed, Awaited
  <2> QED BY <1>1, <2>1, <2>2, StepStopped DEF ClosedIsSilent
<1>2. CASE RunRemoveRenderer /\ x = cur
  <2>1. Silent(x)
    <3>1. /\ events[cur] \in Seq(Event) /\ events[cur] # <<>>
          /\ Head(events[cur]).tag = "RemoveRenderer"
      BY <1>2 DEF RunRemoveRenderer, AtEvent, TypeOK, QueueTypeOK
    <3> QED BY <1>2, <3>1, RemovesTail DEF RInv, LastEvent, RemovalInBatch
  <2> QED BY <1>2, <2>1 DEF RunRemoveRenderer, backendVars, Silent
<1>3. CASE TaskReturns /\ x \notin docHandle
  BY <1>3 DEF TaskReturns, backendVars, HasBackend
<1> QED BY <1>1, <1>2, <1>3, StepClosed

(* A handler that has turned to a frame stays at it till it is handled.     *)
LEMMA StepHandles ==
  ASSUME IInv, HandlesFrame, [Next]_vars
  PROVE  HandlesFrame'
<1> TypeOK /\ Handling
  BY DEF IInv
<1>1. ASSUME UNCHANGED <<pc, cur>>, pc # "idle" => UNCHANGED events
      PROVE  HandlesFrame'
  BY <1>1 DEF HandlesFrame
<1>2. CASE HandleFrameOneDoc
  BY <1>2 DEF HandleFrameOneDoc, AtEvent, HandlesFrame
<1>3. CASE StartRender \/ FinishRender
  <2>1. /\ UNCHANGED <<cur, events>> /\ pc \in {"render", "rendering"}
    BY <1>3 DEF StartRender, FinishRender, queueVars
  <2> QED BY <2>1 DEF HandlesFrame
<1>4. CASE FrameHandled \/ HandlerReturns
  BY <1>4 DEF FrameHandled, HandlerReturns, HandlesFrame
<1>5. CASE RunExternalEvent \/ RunRemoveRenderer
  BY <1>5 DEF RunExternalEvent, RunRemoveRenderer, AtEvent, handlerVars,
     HandlesFrame
<1>6. ASSUME NEW w \in Windows, RunnableStep(w)
      PROVE  HandlesFrame'
  <2>1. pc = "idle" /\ pc' \in {"idle", "loop"}
    BY <1>6 DEF RunnableStep, NewRenderer, RunSetClearColor, EraseQueue,
       HandleWrNotifierEvents, RunnableTaken, handlerVars
  <2> QED BY <2>1 DEF HandlesFrame
<1>7. ASSUME NEW w \in Windows, CompositorStep(w) \/ BackendStep(w) \/ WakeUp(w)
      PROVE  UNCHANGED <<pc, cur, events>>
  BY <1>7 DEF CompositorStep, Create, Composite, RetrySkippedComposite,
     GenerateFrame, SetFrameStartTime, SetClearColor, WaitFlushed,
     DestroyRenderer, BackendStep, FrameBuilt, NewFrameReady,
     ForwardExternalEvent, StopRenderBackend, WakeUp, queueVars, handlerVars
<1>8. CASE TaskReturns \/ SessionsRebuilt \/ MainStep \/ ShutDownTask
           \/ UNCHANGED vars
  BY <1>1, <1>8 DEF TaskReturns, SessionsRebuilt, MainStep, ShutDown,
     PostShutDownTask, ThreadJoined, ShutDownTask, vars, queueVars, handlerVars
<1> QED BY <1>1, <1>2, <1>3, <1>4, <1>5, <1>6, <1>7, <1>8
        DEF Next, RenderThreadStep

(* A composite is accepted, or skipped, below the bound on frames.          *)
LEMMA StepFew ==
  ASSUME IInv, EInv, [Next]_vars, NEW x \in Windows
  PROVE  FewFrames(x)'
<1> TypeOK /\ Accepted /\ \A w \in Windows : FewFrames(w)
  BY DEF IInv, EInv
<1>1. ASSUME UNCHANGED <<issued, skipped>>, comp' = comp \/ comp'.op # "accepted"
      PROVE  FewFrames(x)'
  BY <1>1 DEF FewFrames
<1>2. ASSUME NEW w \in Windows, TryComposite(w), issued[w] < MaxFrames,
             UNCHANGED issued, comp.op = "idle"
      PROVE  FewFrames(x)'
  BY <1>2 DEF TryComposite, CompDoes, FewFrames
<1>3. ASSUME NEW w \in Windows, Composite(w) PROVE FewFrames(x)'
  BY <1>2, <1>3 DEF Composite, CompIdle, frameVars
<1>4. ASSUME NEW w \in Windows, RetrySkippedComposite(w) PROVE FewFrames(x)'
  BY <1>1, <1>2, <1>4 DEF RetrySkippedComposite, CompIdle, frameVars, FewFrames
<1>5. ASSUME NEW w \in Windows, GenerateFrame(w) PROVE FewFrames(x)'
  <2>1. /\ comp.op = "accepted" /\ comp.window = w /\ comp'.op = "idle"
        /\ issued' = [issued EXCEPT ![w] = issued[w] + 1] /\ UNCHANGED skipped
    BY <1>5 DEF GenerateFrame, CompReturns, retryVars
  <2>2. CASE x = w
    <3>1. issued[x] < MaxFrames /\ x \notin skipped /\ issued'[x] = issued[x] + 1
      BY <2>1, <2>2 DEF FewFrames, TypeOK, BackendTypeOK
    <3>2. issued'[x] <= MaxFrames
      BY <3>1, BoundsAssumption DEF TypeOK, BackendTypeOK
    <3> QED BY <2>1, <3>1, <3>2 DEF FewFrames
  <2>3. CASE x # w
    <3>1. issued'[x] = issued[x]
      BY <2>1, <2>3 DEF TypeOK, BackendTypeOK
    <3> QED BY <2>1, <3>1 DEF FewFrames
  <2> QED BY <2>2, <2>3
<1>6. ASSUME NEW w \in Windows,
             \/ Create(w) \/ SetFrameStartTime(w) \/ SetClearColor(w)
             \/ WaitFlushed(w) \/ DestroyRenderer(w) \/ BackendStep(w)
             \/ WakeUp(w) \/ RunnableStep(w)
      PROVE  FewFrames(x)'
  <2>1. UNCHANGED <<issued, skipped>>
    BY <1>6 DEF Create, SetFrameStartTime, SetClearColor, WaitFlushed,
       DestroyRenderer, BackendStep, FrameBuilt, NewFrameReady,
       ForwardExternalEvent, StopRenderBackend, WakeUp, RunnableStep,
       NewRenderer, RunSetClearColor, EraseQueue, HandleWrNotifierEvents,
       retryVars, frameVars
  <2>2. comp' = comp \/ comp'.op # "accepted"
    BY <1>6 DEF Create, SetFrameStartTime, SetClearColor, WaitFlushed,
       DestroyRenderer, CompWaits, CompDoes, BackendStep, FrameBuilt,
       NewFrameReady, ForwardExternalEvent, StopRenderBackend, WakeUp,
       RunnableStep, NewRenderer, RunSetClearColor, EraseQueue,
       HandleWrNotifierEvents, compVars
  <2> QED BY <1>1, <2>1, <2>2
<1>7. CASE RunExternalEvent \/ FrameHandled \/ HandleFrameOneDoc
           \/ RunRemoveRenderer \/ TaskReturns \/ SessionsRebuilt \/ MainStep
           \/ ShutDownTask \/ StartRender \/ FinishRender \/ HandlerReturns
           \/ UNCHANGED vars
  <2>1. UNCHANGED <<issued, skipped>>
    BY <1>7 DEF RunExternalEvent, FrameHandled, HandleFrameOneDoc,
       RunRemoveRenderer, TaskReturns, SessionsRebuilt, MainStep, ShutDown,
       PostShutDownTask, ThreadJoined, ShutDownTask, StartRender,
       FinishRender, HandlerReturns, vars, retryVars, frameVars
  <2>2. comp' = comp \/ comp'.op # "accepted"
    BY <1>7 DEF RunExternalEvent, FrameHandled, HandleFrameOneDoc,
       RunRemoveRenderer, TaskReturns, CompReturns, SessionsRebuilt, MainStep,
       ShutDown, PostShutDownTask, ThreadJoined, ShutDownTask, StartRender,
       FinishRender, HandlerReturns, vars, compVars
  <2> QED BY <1>1, <2>1, <2>2
<1> QED BY <1>3, <1>4, <1>5, <1>6, <1>7
        DEF Next, CompositorStep, RenderThreadStep

(* The invariant of the events holds in every reachable state.              *)
LEMMA EventInvariant == Spec => []EInv
<1>1. Init => EInv
  <2> SUFFICES ASSUME Init PROVE EInv
    OBVIOUS
  <2>1. ASSUME NEW w \in Windows
        PROVE  /\ PlainQueues(w) /\ ListedForEvents(w) /\ HasBackend(w)
               /\ ClosedIsSilent(w)
    BY PlainNothing DEF Init, PlainQueues, ListedForEvents, HasBackend,
       ClosedIsSilent, Closed
  <2>2. ASSUME NEW w \in Windows PROVE FewFrames(w)
    <3>1. issued[w] = 0 /\ skipped = {} /\ comp.op = "idle"
      BY DEF Init
    <3> QED BY <3>1, BoundsAssumption DEF FewFrames
  <2>3. HandlesFrame
    BY DEF Init, HandlesFrame
  <2> QED BY <2>1, <2>2, <2>3 DEF EInv
<1>2. IInv /\ RInv /\ CInv /\ EInv /\ [Next]_vars => EInv'
  <2> SUFFICES ASSUME IInv, RInv, CInv, EInv, [Next]_vars PROVE EInv'
    OBVIOUS
  <2>1. ASSUME NEW w \in Windows
        PROVE  /\ PlainQueues(w)' /\ FewFrames(w)' /\ ListedForEvents(w)'
               /\ HasBackend(w)' /\ ClosedIsSilent(w)'
    BY StepPlain, StepFew, StepListed, StepBackend, StepSilent DEF EInv
  <2>2. HandlesFrame'
    BY StepHandles DEF EInv
  <2> QED BY <2>1, <2>2 DEF EInv
<1> QED BY <1>1, <1>2, Invariant, RemovalInvariant, CallInvariant, PTL DEF Spec

-----------------------------------------------------------------------------
(* The inbox                                                                *)

(* Two queues one behind the other.                                         *)
LEMMA JoinedQueues ==
  ASSUME NEW p \in Seq(Event), NEW q \in Seq(Event)
  PROVE  /\ p \o q \in Seq(Event)
         /\ \A e \in Event : p \o Append(q, e) = Append(p \o q, e)
         /\ p # <<>> => /\ p \o q # <<>> /\ Head(p \o q) = Head(p)
                        /\ Tail(p \o q) = Tail(p) \o q
         /\ p \o q # <<>> /\ ~Removes(p) /\ ~Removes(q) =>
              (p \o q)[Len(p \o q)].tag # "RemoveRenderer"
<1> DEFINE r == p \o q
<1>1. /\ r \in Seq(Event) /\ Len(r) = Len(p) + Len(q)
      /\ Len(p) \in Nat /\ Len(q) \in Nat
      /\ \A i \in 1..Len(p) + Len(q) :
           r[i] = IF i <= Len(p) THEN p[i] ELSE q[i - Len(p)]
  BY ConcatProperties
<1>2. ASSUME NEW e \in Event PROVE p \o Append(q, e) = Append(p \o q, e)
  <2>1. <<e>> \in Seq(Event)
    OBVIOUS
  <2>2. Append(q, e) = q \o <<e>> /\ Append(p \o q, e) = (p \o q) \o <<e>>
    BY <1>1, AppendIsConcat
  <2> QED BY <2>1, <2>2, ConcatAssociative
<1>3. ASSUME p # <<>>
      PROVE  r # <<>> /\ Head(r) = Head(p) /\ Tail(r) = Tail(p) \o q
  <2> DEFINE t == Tail(p)
             u == t \o q
  <2>1. /\ Len(p) >= 1 /\ Head(p) = p[1] /\ Len(t) = Len(p) - 1
        /\ \A i \in 1..Len(t) : t[i] = p[i + 1]
        /\ t \in Seq(Event)
    BY <1>3, TailElements, HeadTailProperties
  <2> HIDE DEF r, t
  <2>2. r # <<>>
    BY <1>1, <2>1
  <2>3. /\ Head(r) = r[1] /\ Len(Tail(r)) = Len(r) - 1
        /\ \A i \in 1..Len(Tail(r)) : Tail(r)[i] = r[i + 1]
        /\ Tail(r) \in Seq(Event)
    BY <1>1, <2>2, TailElements, HeadTailProperties
  <2>4. Head(r) = Head(p)
    BY <1>1, <2>1, <2>3
  <2>5. /\ u \in Seq(Event) /\ Len(u) = Len(t) + Len(q)
        /\ \A i \in 1..Len(t) + Len(q) :
             u[i] = IF i <= Len(t) THEN t[i] ELSE q[i - Len(t)]
    BY <2>1, ConcatProperties
  <2> HIDE DEF u
  <2>6. Len(u) = Len(Tail(r))
    BY <1>1, <2>1, <2>3, <2>5
  <2>7. ASSUME NEW i \in 1..Len(u) PROVE u[i] = Tail(r)[i]
    <3>1. /\ i \in 1..Len(t) + Len(q) /\ i + 1 \in 1..Len(p) + Len(q)
          /\ i <= Len(t) => i \in 1..Len(t)
          /\ i <= Len(t) <=> i + 1 <= Len(p)
          /\ i - Len(t) = i + 1 - Len(p)
      BY <1>1, <2>1, <2>5
    <3>2. Tail(r)[i] = r[i + 1]
      BY <2>3, <2>6
    <3>3. /\ r[i + 1] = IF i + 1 <= Len(p) THEN p[i + 1] ELSE q[i + 1 - Len(p)]
          /\ u[i] = IF i <= Len(t) THEN t[i] ELSE q[i - Len(t)]
      BY <1>1, <2>5, <3>1
    <3>4. i <= Len(t) => t[i] = p[i + 1]
      BY <2>1, <3>1
    <3> QED BY <3>1, <3>2, <3>3, <3>4
  <2>8. u = Tail(r)
    BY <2>3, <2>5, <2>6, <2>7, SeqEqual
  <2> QED BY <2>2, <2>4, <2>8 DEF u, t
<1>4. ASSUME r # <<>>, ~Removes(p), ~Removes(q)
      PROVE  r[Len(r)].tag # "RemoveRenderer"
  <2>1. Len(r) \in 1..Len(p) + Len(q)
    <3>1. Len(r) # 0
      BY <1>1, <1>4, EmptySeq
    <3> QED BY <1>1, <3>1
  <2> HIDE DEF r
  <2>2. CASE Len(r) <= Len(p)
    <3>1. Len(r) \in 1..Len(p)
      BY <2>1, <2>2, <1>1
    <3> QED BY <1>1, <1>4, <2>1, <2>2, <3>1 DEF Removes
  <2>3. CASE ~(Len(r) <= Len(p))
    <3>1. Len(r) - Len(p) \in 1..Len(q)
      BY <2>1, <2>3, <1>1
    <3> QED BY <1>1, <1>4, <2>1, <2>3, <3>1 DEF Removes
  <2> QED BY <2>2, <2>3
<1> QED BY <1>1, <1>2, <1>3, <1>4 DEF r

-----------------------------------------------------------------------------
(* Every step is one of RendererEvents, or none                             *)
Stutters == UNCHANGED <<OpenWindows, Inbox, AnswerGiven>>

(* The inbox of a window, which changes where its queues change.            *)
Joined(w) == events[w] \o mPendingWrNotifierEvents[w]

(* Where no queue changes, neither does the inbox.                          *)
LEMMA InboxSame ==
  ASSUME \A x \in Windows : Joined(x)' = Joined(x)
  PROVE  Inbox' = Inbox
  BY DEF Inbox, Joined

(* A change of one window's queues.                                         *)
LEMMA InboxChanged ==
  ASSUME NEW w \in Windows, \A x \in Windows : x # w => Joined(x)' = Joined(x)
  PROVE  Inbox' = [Inbox EXCEPT ![w] = Joined(w)']
  BY DEF Inbox, Joined

(* An inbox is the two queues of its window.                                *)
LEMMA InboxOf ==
  ASSUME NEW w \in Windows PROVE Inbox[w] = Joined(w)
  BY DEF Inbox, Joined

(* The windows stay open while nothing is listed or closed.                 *)
LEMMA OpenSame ==
  ASSUME TypeOK, UNCHANGED mWindowInfos,
         \A x \in Windows : Closed(x)' <=> Closed(x)
  PROVE  OpenWindows' = OpenWindows
  BY DEF OpenWindows, TypeOK, InfoTypeOK

(* A step that concerns no call leaves the windows and the answer alone.    *)
LEMMA CallsSame ==
  ASSUME TypeOK, UNCHANGED <<mWindowInfos, comp, taskDone, life>>
  PROVE  UNCHANGED <<OpenWindows, AnswerGiven>>
<1>1. \A x \in Windows : Closed(x)' <=> Closed(x)
  BY DEF Closed
<1>2. UNCHANGED AnswerGiven
  BY DEF AnswerGiven
<1> QED BY <1>1, <1>2, OpenSame

(* A call starts, or a composite is accepted.                               *)
LEMMA StartMaps ==
  ASSUME TypeOK, NEW w \in Windows,
         Starts(w) \/ Composite(w) \/ RetrySkippedComposite(w)
  PROVE  Stutters
<1>1. UNCHANGED <<mWindowInfos, events, mPendingWrNotifierEvents>>
  BY DEF Starts, Create, Composite, RetrySkippedComposite, GenerateFrame,
     SetFrameStartTime, WaitFlushed, DestroyRenderer, infoVars, queueVars
<1>2. Inbox' = Inbox
  BY <1>1, InboxSame DEF Joined
<1>3. comp.op \in {"idle", "accepted"}
  BY DEF Starts, Create, Composite, RetrySkippedComposite, GenerateFrame,
     SetFrameStartTime, WaitFlushed, DestroyRenderer, CompIdle
<1>4. comp'.op \in {"idle", "accepted"} \/ taskDone' = FALSE
  BY <1>3 DEF Starts, Create, Composite, RetrySkippedComposite, GenerateFrame,
     SetFrameStartTime, WaitFlushed, DestroyRenderer, TryComposite, CompWaits,
     CompDoes, CompReturns, compVars
<1>5. \A x \in Windows : life'[x] = "dead" <=> life[x] = "dead"
  BY DEF Starts, Create, Composite, RetrySkippedComposite, GenerateFrame,
     SetFrameStartTime, WaitFlushed, DestroyRenderer, compVars, TypeOK,
     CompTypeOK
<1>6. \A x \in Windows : Closed(x)' <=> Closed(x)
  BY <1>3, <1>4, <1>5 DEF Closed
<1>7. AnswerGiven' = AnswerGiven
  <2>1. AnswerGiven = FALSE
    BY <1>3 DEF AnswerGiven
  <2>2. AnswerGiven' = FALSE
    BY <1>4 DEF AnswerGiven
  <2> QED BY <2>1, <2>2
<1> QED BY <1>1, <1>2, <1>6, <1>7, OpenSame DEF Stutters

(* A step that concerns neither events nor calls.                           *)
LEMMA OtherMaps ==
  ASSUME TypeOK,
         UNCHANGED <<mWindowInfos, events, mPendingWrNotifierEvents, comp,
                     taskDone, life>>
  PROVE  Stutters
<1>1. Inbox' = Inbox
  BY InboxSame DEF Joined
<1> QED BY <1>1, CallsSame DEF Stutters

(* A handler takes the pending events over: the inbox is the same.          *)
LEMMA BatchMaps ==
  ASSUME TypeOK, NEW w \in Windows, HandleWrNotifierEvents(w)
  PROVE  Stutters
<1>1. ASSUME NEW x \in Windows PROVE Joined(x)' = Joined(x)
  <2>1. \/ events'[x] = events[x]
           /\ mPendingWrNotifierEvents'[x] = mPendingWrNotifierEvents[x]
        \/ events[x] = <<>> /\ events'[x] = mPendingWrNotifierEvents[x]
           /\ mPendingWrNotifierEvents'[x] = <<>>
    BY DEF HandleWrNotifierEvents, TakePendingEvents, TypeOK, InfoTypeOK,
       QueueTypeOK
  <2>2. /\ mPendingWrNotifierEvents[x] \in Seq(Event)
    BY DEF TypeOK, InfoTypeOK
  <2> QED BY <2>1, <2>2, ConcatEmptySeq DEF Joined
<1>2. UNCHANGED <<mWindowInfos, comp, taskDone, life>>
  BY DEF HandleWrNotifierEvents, compVars
<1> QED BY <1>1, <1>2, CallsSame, InboxSame DEF Stutters

(* The queue that is erased is empty.                                       *)
LEMMA EraseMaps ==
  ASSUME IInv, EInv, NEW w \in Windows, EraseQueue(w)
  PROVE  Stutters
<1> TypeOK
  BY DEF IInv
<1>1. events[w] = <<>>
  <2>1. Queued("EraseQueue", w)
    BY QueueTaken DEF EraseQueue, RunnableTaken, TypeOK, ThreadTypeOK
  <2>2. w \notin mWindowInfos
    BY <2>1 DEF IInv, AddedOnce
  <2> QED BY <2>2 DEF EInv, ListedForEvents
<1>2. UNCHANGED <<mWindowInfos, mPendingWrNotifierEvents, comp, taskDone, life>>
  BY DEF EraseQueue, infoVars, compVars
<1>3. UNCHANGED events
  BY <1>1 DEF EraseQueue, TypeOK, QueueTypeOK
<1> QED BY <1>2, <1>3, OtherMaps

(* A call returns: what was answered is so no more, what is closed is dead. *)
LEMMA ReturnMaps ==
  ASSUME IInv, RInv, TaskReturns
  PROVE  RendererEvents!Return \/ Stutters
<1> TypeOK /\ \A x \in Windows : AddedOnce(x)
  BY DEF IInv
<1>1. /\ UNCHANGED <<mWindowInfos, events, mPendingWrNotifierEvents, docHandle>>
      /\ comp.window \in Windows /\ taskDone /\ comp'.op = "idle"
      /\ comp.op \in {"create", "flush", "destroy"}
      /\ \A x \in Windows : x # comp.window => life'[x] = life[x]
  BY DEF TaskReturns, CompReturns, infoVars, queueVars, TypeOK, CompTypeOK
<1>2. Inbox' = Inbox
  BY <1>1, InboxSame DEF Joined
<1>3. AnswerGiven' = FALSE
  BY <1>1 DEF AnswerGiven
<1>4. CASE comp.op \in {"flush", "destroy"}
  <2>1. AnswerGiven
    BY <1>1, <1>4 DEF AnswerGiven
  <2>2. /\ comp.op = "flush" => life'[comp.window] = life[comp.window]
        /\ comp.op = "destroy" => life'[comp.window] = "dead"
    BY <1>1 DEF TaskReturns, TypeOK, CompTypeOK
  <2>3. \A x \in Windows : Closed(x)' <=> Closed(x)
    BY <1>1, <1>4, <2>2 DEF Closed
  <2>4. OpenWindows' = OpenWindows
    BY <1>1, <2>3, OpenSame
  <2> QED BY <1>2, <1>3, <2>1, <2>4 DEF RendererEvents!Return
<1>5. CASE comp.op = "create"
  <2>1. AnswerGiven = FALSE
    BY <1>5 DEF AnswerGiven
  <2>2. /\ life[comp.window] = "creating"
        /\ life'[comp.window] = "dead" => comp.window \notin mWindowInfos
    BY <1>1, <1>5 DEF RInv, CallFitsLife, TaskReturns, TypeOK, CompTypeOK, AddedOnce
  <2>3. \A x \in Windows : x \in mWindowInfos => (Closed(x)' <=> Closed(x))
    BY <1>1, <1>5, <2>2 DEF Closed
  <2>4. OpenWindows' = OpenWindows
    BY <1>1, <2>3 DEF OpenWindows, TypeOK, InfoTypeOK
  <2> QED BY <1>2, <1>3, <2>1, <2>4 DEF Stutters
<1> QED BY <1>1, <1>4, <1>5

(* A renderer is added: its window opens.                                   *)
LEMMA OpenMaps ==
  ASSUME IInv, RInv, CInv, NEW w \in Windows, NewRenderer(w)
  PROVE  RendererEvents!Open(w) \/ Stutters
<1> TypeOK
  BY DEF IInv
<1>1. /\ comp.op = "create" /\ comp.window = w /\ life[w] = "creating"
      /\ Fresh(w)
  BY CreationIsAnswered DEF Awaited, RInv, CallFitsLife, IInv, AddedOnce
<1>2. UNCHANGED <<events, mPendingWrNotifierEvents, comp, life>>
  BY DEF NewRenderer
<1>3. \A x \in Windows : Closed(x)' <=> Closed(x)
  BY <1>1, <1>2 DEF Closed
<1>4. Inbox' = Inbox
  BY <1>2, InboxSame DEF Joined
<1>5. AnswerGiven' = AnswerGiven
  BY <1>1, <1>2 DEF AnswerGiven
<1>6. CASE UNCHANGED mWindowInfos
  BY <1>3, <1>4, <1>5, <1>6, OpenSame DEF Stutters
<1>7. CASE mWindowInfos' = mWindowInfos \cup {w}
  <2>1. w \notin OpenWindows /\ Inbox[w] = <<>>
    <3>1. Joined(w) = <<>>
      BY <1>1, ConcatEmptySeq DEF Fresh, Joined, TypeOK, InfoTypeOK
    <3> QED BY <1>1, <3>1, InboxOf DEF OpenWindows, Fresh
  <2>2. ~Closed(w)
    BY <1>1 DEF Closed
  <2>3. OpenWindows' = OpenWindows \cup {w}
    BY <1>3, <1>7, <2>2 DEF OpenWindows, TypeOK, InfoTypeOK
  <2> QED BY <1>4, <1>5, <2>1, <2>3 DEF RendererEvents!Open
<1> QED BY <1>6, <1>7 DEF NewRenderer, AddRenderer

(* An event is posted to a window that is open, and nothing behind its      *)
(* removal.                                                                 *)
LEMMA PostMaps ==
  ASSUME IInv, NEW w \in Windows, NEW e \in Event, e \in SentEvents,
         ~Closed(w), ~Removes(events[w]), ~Removes(mPendingWrNotifierEvents[w]),
         PostWrNotifierEvent(w, e),
         UNCHANGED <<mWindowInfos, events, comp, taskDone, life>>
  PROVE  RendererEvents!Send(w, e) \/ Stutters
<1> TypeOK
  BY DEF IInv
<1>1. CASE w \notin mWindowInfos
  <2>1. UNCHANGED mPendingWrNotifierEvents
    BY <1>1 DEF PostWrNotifierEvent
  <2> QED BY <2>1, OtherMaps
<1>2. CASE w \in mWindowInfos
  <2> DEFINE p == events[w]
             q == mPendingWrNotifierEvents[w]
  <2>1. p \in Seq(Event) /\ q \in Seq(Event)
    BY DEF TypeOK, InfoTypeOK, QueueTypeOK
  <2>2. /\ mPendingWrNotifierEvents'[w] = Append(q, e)
        /\ \A x \in Windows : x # w =>
             mPendingWrNotifierEvents'[x] = mPendingWrNotifierEvents[x]
    BY <1>2 DEF PostWrNotifierEvent, TypeOK, InfoTypeOK
  <2>3. Joined(w)' = Append(Joined(w), e)
    <3>1. Joined(w)' = p \o Append(q, e)
      BY <2>2 DEF Joined
    <3>2. p \o Append(q, e) = Append(p \o q, e)
      BY <2>1, JoinedQueues
    <3> QED BY <3>1, <3>2 DEF Joined
  <2>4. Inbox' = [Inbox EXCEPT ![w] = Append(Inbox[w], e)]
    BY <2>2, <2>3, InboxChanged, InboxOf DEF Joined
  <2>5. Inbox[w] # <<>> =>
          Inbox[w][Len(Inbox[w])] # ExternalEvent("RemoveRenderer")
    <3>1. Joined(w) # <<>> => Joined(w)[Len(Joined(w))].tag # "RemoveRenderer"
      BY <2>1, JoinedQueues DEF Joined
    <3> QED BY <3>1, InboxOf DEF ExternalEvent
  <2>6. w \in OpenWindows
    BY <1>2 DEF OpenWindows
  <2> QED BY <2>4, <2>5, <2>6, CallsSame DEF RendererEvents!Send
<1> QED BY <1>1, <1>2

(* Whatever a backend posts is a message to an open window.                 *)
LEMMA SendMaps ==
  ASSUME IInv, RInv, EInv, NEW w \in Windows,
         NewFrameReady(w) \/ ForwardExternalEvent(w) \/ WakeUp(w)
  PROVE  (\E e \in SentEvents : RendererEvents!Send(w, e)) \/ Stutters
<1> /\ TypeOK /\ LastEvent(w) /\ ClosedIsSilent(w) /\ PlainQueues(w)
    /\ FewFrames(w)
  BY DEF IInv, RInv, EInv
<1>1. UNCHANGED <<mWindowInfos, events, comp, taskDone, life>>
  BY DEF NewFrameReady, ForwardExternalEvent, WakeUp, queueVars, compVars
<1>2. ~Closed(w) /\ ~Silent(w)
  BY DEF NewFrameReady, ForwardExternalEvent, BackendTakes, WakeUp,
     ClosedIsSilent, Silent
<1>3. ~Removes(events[w]) /\ ~Removes(mPendingWrNotifierEvents[w])
  BY <1>2 DEF LastEvent, RemovalPending, RemovalInBatch
<1>4. CASE w \notin mWindowInfos
  <2>1. UNCHANGED mPendingWrNotifierEvents
    BY <1>4 DEF NewFrameReady, ForwardExternalEvent, WakeUp, PostWrNotifierEvent
  <2> QED BY <1>1, <2>1, OtherMaps
<1>5. CASE w \in mWindowInfos /\ NewFrameReady(w)
  <2> DEFINE e == NewFrameReadyEvent(busy[w])
  <2>1. busy[w] \in 0..MaxFrames /\ busy[w] > 0
    <3>1. Counts(w) /\ InBackend(w)
      BY <1>5 DEF IInv, WindowOK
    <3>2. /\ busy[w] # 0 /\ busy[w] = built[w] /\ issued[w] <= MaxFrames
          /\ mPendingFrameBuild[w] = issued[w] - built[w]
      BY <1>5, <3>1 DEF NewFrameReady, InBackend, Counts, FewFrames
    <3>3. /\ busy[w] \in Nat /\ built[w] \in Nat /\ issued[w] \in Nat
          /\ mPendingFrameBuild[w] \in 0..255
      BY WindowTypes
    <3>4. busy[w] <= issued[w]
      BY <3>2, <3>3
    <3> QED BY <3>2, <3>3, <3>4, BoundsAssumption
  <2>2. e \in Event /\ e \in SentEvents
    BY <2>1 DEF NewFrameReadyEvent, Event, SentEvents
  <2>3. PostWrNotifierEvent(w, e)
    BY <1>5 DEF NewFrameReady
  <2> HIDE DEF e
  <2> QED BY <1>1, <1>2, <1>3, <2>2, <2>3, PostMaps
<1>6. CASE ForwardExternalEvent(w)
  <2> DEFINE e == Head(backend[w])
  <2>1. /\ backend[w] \in Seq(Message) /\ backend[w] # <<>>
        /\ e.tag \in ExternalEvents
    BY <1>6 DEF ForwardExternalEvent, BackendTakes, ForwardedTags, TypeOK,
       BackendTypeOK
  <2>2. e \in Message /\ PlainOne(e)
    BY <2>1, HeadTailProperties, PlainTail DEF PlainQueues
  <2>3. PostWrNotifierEvent(w, e)
    BY <1>6 DEF ForwardExternalEvent
  <2> HIDE DEF e
  <2>4. e.id = 0
    BY <2>1, <2>2 DEF PlainOne, ExternalEvents
  <2>5. e = [tag |-> e.tag, id |-> e.id]
    BY <2>2 DEF Message
  <2>6. e \in Event /\ e \in SentEvents
    BY <2>1, <2>4, <2>5, BoundsAssumption DEF Event, SentEvents, ExternalEvents
  <2> QED BY <1>1, <1>2, <1>3, <2>3, <2>6, PostMaps
<1>7. CASE WakeUp(w)
  <2>1. WakeUpEvent \in Event /\ WakeUpEvent \in SentEvents
    BY BoundsAssumption DEF WakeUpEvent, Event, SentEvents
  <2>2. PostWrNotifierEvent(w, WakeUpEvent)
    BY <1>7 DEF WakeUp
  <2> QED BY <1>1, <1>2, <1>3, <2>1, <2>2, PostMaps
<1> QED BY <1>4, <1>5, <1>6, <1>7

(* The events that somebody waits for.                                      *)
Awaits == {ExternalEvent("WaitFlushed"), ExternalEvent("RemoveRenderer")}

(* The first event of the batch is the first of the inbox.                  *)
LEMMA PopMaps ==
  ASSUME TypeOK, cur \in Windows, events[cur] # <<>>, PopEvent,
         UNCHANGED mPendingWrNotifierEvents
  PROVE  /\ Inbox[cur] # <<>> /\ Head(Inbox[cur]) = Head(events[cur])
         /\ Inbox' = [Inbox EXCEPT ![cur] = Tail(Inbox[cur])]
<1>1. /\ events[cur] \in Seq(Event) /\ mPendingWrNotifierEvents[cur] \in Seq(Event)
      /\ events'[cur] = Tail(events[cur])
      /\ \A x \in Windows : x # cur => events'[x] = events[x]
  BY DEF PopEvent, TypeOK, InfoTypeOK, QueueTypeOK
<1> PICK w \in Windows : w = cur
  OBVIOUS
<1>2. /\ events[w] \o mPendingWrNotifierEvents[w] # <<>>
      /\ Head(events[w] \o mPendingWrNotifierEvents[w]) = Head(events[w])
      /\ Tail(events[w] \o mPendingWrNotifierEvents[w])
           = events'[w] \o mPendingWrNotifierEvents[w]
  <2> DEFINE p == events[w]
             q == mPendingWrNotifierEvents[w]
  <2>1. p \in Seq(Event) /\ q \in Seq(Event) /\ p # <<>> /\ events'[w] = Tail(p)
    BY <1>1
  <2> HIDE DEF p, q
  <2>2. p \o q # <<>> /\ Head(p \o q) = Head(p) /\ Tail(p \o q) = Tail(p) \o q
    BY <2>1, JoinedQueues
  <2> QED BY <2>1, <2>2 DEF p, q
<1>3. /\ Joined(w) # <<>> /\ Head(Joined(w)) = Head(events[w])
      /\ Joined(w)' = Tail(Joined(w))
  BY <1>2 DEF Joined
<1>4. \A x \in Windows : x # w => Joined(x)' = Joined(x)
  BY <1>1 DEF Joined
<1>5. Inbox' = [Inbox EXCEPT ![w] = Joined(w)']
  BY <1>4, InboxChanged
<1> QED BY <1>3, <1>5, InboxOf

(* An event is handled: it was the first of the inbox.                      *)
LEMMA HandleMaps ==
  ASSUME IInv, RInv, CInv, EInv,
         RunExternalEvent \/ FrameHandled \/ HandleFrameOneDoc
  PROVE  (\E w \in Windows : RendererEvents!Handle(w)) \/ Stutters
<1> TypeOK
  BY DEF IInv
<1>1. /\ cur \in Windows /\ events[cur] # <<>> /\ events[cur] \in Seq(Event)
      /\ Plain(events[cur])
  BY DEF RunExternalEvent, FrameHandled, HandleFrameOneDoc, AtEvent, IInv,
     Handling, TypeOK, HandlerTypeOK, QueueTypeOK, EInv, PlainQueues
<1>2. UNCHANGED <<mWindowInfos, mPendingWrNotifierEvents, comp, life>>
  BY DEF RunExternalEvent, FrameHandled, HandleFrameOneDoc, infoVars, compVars
<1> DEFINE e == Head(events[cur])
<1>3. e \in Event /\ PlainOne(e)
  BY <1>1, PlainTail, HeadTailProperties
<1>4. CASE PopEvent /\ e.tag \notin {"WaitFlushed", "RemoveRenderer"}
           /\ UNCHANGED taskDone
  <2>1. /\ Inbox[cur] # <<>> /\ Head(Inbox[cur]) = e
        /\ Inbox' = [Inbox EXCEPT ![cur] = Tail(Inbox[cur])]
    BY <1>1, <1>2, <1>4, PopMaps
  <2>2. UNCHANGED <<OpenWindows, AnswerGiven>>
    BY <1>2, <1>4, CallsSame
  <2>3. e # ExternalEvent("RemoveRenderer") /\ e \notin Awaits
    BY <1>4 DEF ExternalEvent, Awaits
  <2>4. AnswerGiven' = (AnswerGiven \/ Head(Inbox[cur]) \in Awaits)
    <3>1. AnswerGiven' = AnswerGiven /\ AnswerGiven \in BOOLEAN
      BY <2>2 DEF AnswerGiven, TypeOK, CompTypeOK
    <3>2. Head(Inbox[cur]) \notin Awaits
      BY <2>1, <2>3
    <3> QED BY <3>1, <3>2
  <2>5. RendererEvents!Handle(cur)
    <3> HIDE DEF e
    <3> QED BY <2>1, <2>2, <2>3, <2>4 DEF RendererEvents!Handle, Awaits
  <2> QED BY <1>1, <2>5
<1>5. CASE RunExternalEvent /\ e.tag = "WaitFlushed"
  <2>1. Awaited("flush", cur) /\ PopEvent /\ taskDone'
    BY <1>5, FlushIsAnswered DEF RunExternalEvent
  <2>2. /\ Inbox[cur] # <<>> /\ Head(Inbox[cur]) = e
        /\ Inbox' = [Inbox EXCEPT ![cur] = Tail(Inbox[cur])]
    BY <1>1, <1>2, <2>1, PopMaps
  <2>3. \A x \in Windows : Closed(x)' <=> Closed(x)
    BY <1>2, <2>1 DEF Awaited, Closed
  <2>4. OpenWindows' = OpenWindows
    BY <1>2, <2>3, OpenSame
  <2>5. AnswerGiven' = TRUE
    BY <1>2, <2>1 DEF Awaited, AnswerGiven
  <2>6. e = ExternalEvent("WaitFlushed")
    BY <1>3, <1>5 DEF PlainOne, Event, ExternalEvent
  <2>7. e # ExternalEvent("RemoveRenderer") /\ e \in Awaits
    BY <2>6 DEF ExternalEvent, Awaits
  <2>8. RendererEvents!Handle(cur)
    BY <2>2, <2>4, <2>5, <2>7 DEF RendererEvents!Handle, Awaits
  <2> QED BY <1>1, <2>8
<1>6. CASE RunExternalEvent /\ e.tag # "WaitFlushed"
  <2>1. taskDone' = (taskDone \/ FALSE) /\ PopEvent
        /\ e.tag \in {"FrameStartTime", "WaitFlushed"}
    BY <1>6 DEF RunExternalEvent, AtEvent
  <2>2. UNCHANGED taskDone
    BY <2>1 DEF TypeOK, CompTypeOK
  <2> QED BY <1>4, <1>6, <2>1, <2>2
<1>7. CASE FrameHandled
  <2>1. PopEvent /\ UNCHANGED taskDone /\ e.tag \in {"WakeUp", "NewFrameReady"}
    BY <1>7 DEF FrameHandled, compVars, EInv, HandlesFrame
  <2> QED BY <1>4, <2>1
<1>8. CASE HandleFrameOneDoc
  <2>1. /\ UNCHANGED taskDone /\ e.tag \in {"WakeUp", "NewFrameReady"}
        /\ PopEvent \/ UNCHANGED events
    BY <1>8 DEF HandleFrameOneDoc, AtEvent, compVars
  <2> QED BY <1>2, <1>4, <2>1, OtherMaps
<1> QED BY <1>5, <1>6, <1>7, <1>8

(* RemoveRenderer is handled: it was alone in the inbox of an open window.  *)
LEMMA CloseMaps ==
  ASSUME IInv, RInv, CInv, EInv, RunRemoveRenderer
  PROVE  \E w \in Windows : RendererEvents!Close(w)
<1> TypeOK
  BY DEF IInv
<1> DEFINE e == Head(events[cur])
           removal == ExternalEvent("RemoveRenderer")
<1>1. /\ cur \in Windows /\ events[cur] \in Seq(Event) /\ events[cur] # <<>>
      /\ e.tag = "RemoveRenderer" /\ Plain(events[cur])
      /\ taskDone' /\ UNCHANGED <<comp, life>> /\ PopEvent
  BY DEF RunRemoveRenderer, AtEvent, TypeOK, HandlerTypeOK, QueueTypeOK, EInv,
     PlainQueues
<1>2. /\ Awaited("destroy", cur) /\ life[cur] = "destroying"
      /\ events'[cur] = <<>> /\ mPendingWrNotifierEvents'[cur] = <<>>
  BY RemovalIsAnswered DEF Awaited, RInv, CallFitsLife
<1>3. mPendingWrNotifierEvents[cur] = <<>> /\ RemovalIsLast(events[cur])
  BY <1>1, RemovesTail DEF RInv, LastEvent, RemovalInBatch
<1>4. e = removal
  <2>1. e \in Event /\ PlainOne(e)
    BY <1>1, PlainTail, HeadTailProperties
  <2> QED BY <1>1, <2>1 DEF PlainOne, Event, ExternalEvent
<1>5. events[cur] = <<removal>>
  <2>1. Len(events[cur]) = 1
    BY <1>1, <1>3, RemovesTail
  <2>2. events[cur][1] = removal
    BY <1>1, <1>4, TailElements
  <2> QED BY <1>1, <2>1, <2>2
<1> HIDE DEF e, removal
<1>6. Inbox[cur] = <<removal>>
  <2>1. Joined(cur) = <<removal>>
    BY <1>1, <1>3, <1>5, ConcatEmptySeq DEF Joined
  <2> QED BY <1>1, <2>1, InboxOf
<1>7. Inbox' = [Inbox EXCEPT ![cur] = <<>>]
  <2>1. \A x \in Windows : x # cur => Joined(x)' = Joined(x)
    BY <1>1 DEF RunRemoveRenderer, RemoveRenderer, EraseWindowInfo, infoVars,
       PopEvent, Joined, TypeOK, InfoTypeOK, QueueTypeOK
  <2>2. events'[cur] \o mPendingWrNotifierEvents'[cur] = <<>>
    BY <1>2, ConcatEmptySeq, EmptySeq
  <2> PICK w \in Windows : w = cur
    BY <1>1
  <2>3. Joined(w)' = <<>> /\ \A x \in Windows : x # w => Joined(x)' = Joined(x)
    BY <2>1, <2>2 DEF Joined
  <2>4. Inbox' = [Inbox EXCEPT ![w] = Joined(w)']
    BY <2>3, InboxChanged
  <2> QED BY <2>3, <2>4
<1>8. cur \in mWindowInfos
  BY <1>1 DEF EInv, ListedForEvents
<1>9. /\ cur \in OpenWindows
      /\ OpenWindows' = OpenWindows \ {cur}
  <2>1. \A x \in Windows : x # cur => (Closed(x)' <=> Closed(x))
    BY <1>1, <1>2 DEF Awaited, Closed
  <2>2. /\ \A x \in Windows : x = cur => Closed(x)' /\ ~Closed(x)
    BY <1>1, <1>2 DEF Awaited, Closed
  <2>3. \A x \in Windows : x # cur => (x \in mWindowInfos' <=> x \in mWindowInfos)
    BY DEF RunRemoveRenderer, RemoveRenderer, EraseWindowInfo, infoVars
  <2>4. mWindowInfos \subseteq Windows /\ mWindowInfos' \subseteq mWindowInfos
    BY DEF TypeOK, InfoTypeOK, RunRemoveRenderer, RemoveRenderer,
       EraseWindowInfo, infoVars
  <2> QED BY <1>1, <1>8, <2>1, <2>2, <2>3, <2>4 DEF OpenWindows
<1>10. AnswerGiven' = TRUE
  BY <1>1, <1>2 DEF Awaited, AnswerGiven
<1>11. RendererEvents!Close(cur)
  BY <1>6, <1>7, <1>9, <1>10 DEF RendererEvents!Close, removal
<1> QED BY <1>1, <1>11

(* Every step of the threads is a step of RendererEvents, or none.          *)
LEMMA StepMaps ==
  ASSUME IInv, RInv, CInv, EInv, [Next]_vars
  PROVE  [RendererEvents!Next]_(RendererEvents!vars)
<1> TypeOK
  BY DEF IInv
<1>1. Stutters => UNCHANGED RendererEvents!vars
  BY DEF Stutters, RendererEvents!vars
<1>2. ASSUME NEW w \in Windows,
             Starts(w) \/ Composite(w) \/ RetrySkippedComposite(w)
      PROVE  Stutters
  BY <1>2, StartMaps
<1>3. ASSUME NEW w \in Windows,
             \/ SetClearColor(w) \/ FrameBuilt(w) \/ StopRenderBackend(w)
             \/ RunSetClearColor(w)
      PROVE  Stutters
  BY <1>3, OtherMaps DEF SetClearColor, FrameBuilt, StopRenderBackend,
     RunSetClearColor, infoVars, queueVars, compVars
<1>4. ASSUME NEW w \in Windows, HandleWrNotifierEvents(w) \/ EraseQueue(w)
      PROVE  Stutters
  BY <1>4, BatchMaps, EraseMaps
<1>5. CASE SessionsRebuilt \/ MainStep \/ ShutDownTask \/ StartRender
           \/ FinishRender \/ HandlerReturns \/ UNCHANGED vars
  <2>1. Stutters
    BY <1>5, OtherMaps DEF SessionsRebuilt, MainStep, ShutDown,
       PostShutDownTask, ThreadJoined, ShutDownTask, StartRender, FinishRender,
       HandlerReturns, vars, infoVars, queueVars, compVars
  <2> QED BY <1>1, <2>1
<1>6. ASSUME NEW w \in Windows,
             NewFrameReady(w) \/ ForwardExternalEvent(w) \/ WakeUp(w)
      PROVE  RendererEvents!Next \/ Stutters
  BY <1>6, SendMaps DEF RendererEvents!Next
<1>7. ASSUME NEW w \in Windows, NewRenderer(w)
      PROVE  RendererEvents!Next \/ Stutters
  BY <1>7, OpenMaps DEF RendererEvents!Next
<1>8. CASE TaskReturns
  BY <1>1, <1>8, ReturnMaps DEF RendererEvents!Next
<1>9. CASE RunExternalEvent \/ FrameHandled \/ HandleFrameOneDoc
  BY <1>1, <1>9, HandleMaps DEF RendererEvents!Next
<1>10. CASE RunRemoveRenderer
  BY <1>10, CloseMaps DEF RendererEvents!Next
<1> QED BY <1>1, <1>2, <1>3, <1>4, <1>5, <1>6, <1>7, <1>8, <1>9, <1>10
        DEF Starts, Next, CompositorStep, BackendStep, RunnableStep,
            RenderThreadStep

(* Every event a window is sent is handled in the order the events were     *)
(* sent, RemoveRenderer as the last one, which closes the window, and a     *)
(* call is answered when its event is handled and not before: the queues    *)
(* of HandleWrNotifierEvents implement the inboxes of RendererEvents.       *)
THEOREM EventsStayInOrder == Spec => RendererEvents!Spec
<1>1. Init => RendererEvents!Init
  <2> SUFFICES ASSUME Init PROVE RendererEvents!Init
    OBVIOUS
  <2>1. OpenWindows = {} /\ AnswerGiven = FALSE
    BY DEF Init, OpenWindows, AnswerGiven
  <2>2. Inbox = [w \in Windows |-> <<>>]
    <3>1. \A w \in Windows : events[w] \o mPendingWrNotifierEvents[w] = <<>>
      BY ConcatEmptySeq, EmptySeq DEF Init
    <3> QED BY <3>1 DEF Inbox
  <2> QED BY <2>1, <2>2 DEF RendererEvents!Init
<1>2. IInv /\ RInv /\ CInv /\ EInv /\ [Next]_vars
        => [RendererEvents!Next]_(RendererEvents!vars)
  BY StepMaps
<1> QED BY <1>1, <1>2, Invariant, RemovalInvariant, CallInvariant,
           EventInvariant, PTL DEF Spec, RendererEvents!Spec
=============================================================================
