------------------------- MODULE RenderThreadProofs -------------------------
(***************************************************************************)
(* IInv is an inductive invariant of RenderThread, for any windows and any *)
(* bounds; FramesAccounted and PendingFramesBounded follow from it.        *)
(***************************************************************************)
EXTENDS RenderThreadInvariant, SequenceTheorems, TLAPS

-----------------------------------------------------------------------------
(* RenderThread is type correct                                             *)

(* The thread starts well-typed (RenderThread::Start). *)
LEMMA InitTypeOK == Init => TypeOK
<1> SUFFICES ASSUME Init PROVE TypeOK
  OBVIOUS
<1>1. InfoTypeOK BY DEF Init, InfoTypeOK
<1>2. QueueTypeOK BY DEF Init, QueueTypeOK
<1>3. HandlerTypeOK BY DEF Init, HandlerTypeOK
<1>4. ErrorTypeOK BY DEF Init, ErrorTypeOK
<1>5. CompTypeOK BY DEF Init, CompTypeOK
<1>6. BackendTypeOK BY DEF Init, BackendTypeOK
<1>7. ThreadTypeOK BY DEF Init, ThreadTypeOK
<1>8. RetryTypeOK BY DEF Init, RetryTypeOK
<1> QED BY <1>1, <1>2, <1>3, <1>4, <1>5, <1>6, <1>7, <1>8 DEF TypeOK

-----------------------------------------------------------------------------
(* What a step leaves alone keeps its type: mWindowInfos. *)
LEMMA InfoUnchanged == InfoTypeOK /\ UNCHANGED infoVars => InfoTypeOK'
  BY DEF InfoTypeOK, infoVars
(* Likewise mWrNotifierEventsQueues. *)
LEMMA QueueUnchanged == QueueTypeOK /\ UNCHANGED queueVars => QueueTypeOK'
  BY DEF QueueTypeOK, queueVars
(* Likewise where HandleWrNotifierEvents stands. *)
LEMMA HandlerUnchanged == HandlerTypeOK /\ UNCHANGED handlerVars => HandlerTypeOK'
  BY DEF HandlerTypeOK, handlerVars
(* Likewise the error flags. *)
LEMMA ErrorUnchanged == ErrorTypeOK /\ UNCHANGED errorVars => ErrorTypeOK'
  BY DEF ErrorTypeOK, errorVars
(* Likewise the compositor thread's state. *)
LEMMA CompUnchanged == CompTypeOK /\ UNCHANGED compVars => CompTypeOK'
  BY DEF CompTypeOK, compVars
(* Likewise the render backends' state. *)
LEMMA BackendUnchanged ==
    BackendTypeOK /\ UNCHANGED <<backendVars, frameVars>> => BackendTypeOK'
  BY DEF BackendTypeOK, backendVars, frameVars
(* Likewise mRenderers, the pools and the runnables. *)
LEMMA ThreadUnchanged ==
    ThreadTypeOK /\ UNCHANGED <<mRenderers, mThreadPool, mThread, main>> => ThreadTypeOK'
  BY DEF ThreadTypeOK
(* Likewise the composites skipped and to be retried. *)
LEMMA RetryUnchanged == RetryTypeOK /\ UNCHANGED retryVars => RetryTypeOK'
  BY DEF RetryTypeOK, retryVars

-----------------------------------------------------------------------------
(* A uint8_t counted up or down is a uint8_t. *)
LEMMA ByteType ==
  ASSUME NEW n \in 0..255
  PROVE  (n + 1) % 256 \in 0..255 /\ (n - 1) % 256 \in 0..255
  OBVIOUS

(* RemoveRenderer leaves mWindowInfos well-typed. *)
LEMMA EraseWindowInfoType ==
  ASSUME InfoTypeOK, NEW w \in Windows, EraseWindowInfo(w)
  PROVE  InfoTypeOK'
<1>1. /\ mWindowInfos' \subseteq Windows
      /\ mIsDestroyed' \in [Windows -> BOOLEAN]
      /\ mWrNotifierEventsRunnable' \in [Windows -> BOOLEAN]
  BY DEF EraseWindowInfo, InfoTypeOK
<1>2. /\ mPendingFrames' \in [Windows -> Seq(Nat)]
      /\ mPendingFrameBuild' \in [Windows -> 0..255]
  BY DEF EraseWindowInfo, InfoTypeOK
<1>3. mPendingWrNotifierEvents' \in [Windows -> Seq(Event)]
  BY DEF EraseWindowInfo, InfoTypeOK
<1> QED BY <1>1, <1>2, <1>3 DEF InfoTypeOK

(* The events the handlers are sent are events. *)
LEMMA EventTypes ==
  /\ WakeUpEvent \in Event
  /\ \A n \in Nat : NewFrameReadyEvent(n) \in Event
  /\ \A tag \in ExternalEvents : ExternalEvent(tag) \in Message
  BY DEF WakeUpEvent, NewFrameReadyEvent, ExternalEvent, Event, Message

(* A runnable that is posted is a runnable. *)
LEMMA PostRunnableType ==
  ASSUME ThreadTypeOK, NEW w \in Windows \cup {NoWindow},
         NEW tag \in {"HandleWrNotifierEvents", "NewRenderer", "EraseQueue",
                      "SetClearColor", "ShutDownTask"},
         PostRunnable(tag, w)
  PROVE  mThread' \in Seq(Runnable)
<1>1. Run(tag, w) \in Runnable
  BY DEF Run, Runnable
<1> QED BY <1>1 DEF PostRunnable, ThreadTypeOK

(* What is left of the queue are runnables. *)
LEMMA RunnableTakenType ==
  ASSUME ThreadTypeOK, NEW w \in Windows \cup {NoWindow}, NEW tag,
         RunnableTaken(tag, w), mThread' = Tail(mThread)
  PROVE  mThread' \in Seq(Runnable)
  BY DEF RunnableTaken, ThreadTypeOK

(* PostWrNotifierEvents posts a runnable and sets a flag. *)
LEMMA PostWrNotifierEventsType ==
  ASSUME TypeOK, NEW w \in Windows, PostWrNotifierEvents(w)
  PROVE  /\ mWrNotifierEventsRunnable' \in [Windows -> BOOLEAN]
         /\ mThread' \in Seq(Runnable)
<1>1. CASE mWrNotifierEventsRunnable[w]
  BY <1>1 DEF PostWrNotifierEvents, TypeOK, InfoTypeOK, ThreadTypeOK
<1>2. CASE ~mWrNotifierEventsRunnable[w]
  BY <1>2, PostRunnableType DEF PostWrNotifierEvents, TypeOK, InfoTypeOK
<1> QED BY <1>1, <1>2

(* An event that is posted is pending, and its handler is posted. *)
LEMMA PostWrNotifierEventType ==
  ASSUME TypeOK, NEW w \in Windows, NEW e \in Event, PostWrNotifierEvent(w, e)
  PROVE  /\ mPendingWrNotifierEvents' \in [Windows -> Seq(Event)]
         /\ mWrNotifierEventsRunnable' \in [Windows -> BOOLEAN]
         /\ mThread' \in Seq(Runnable)
<1>1. CASE w \in mWindowInfos
  <2>1. Append(mPendingWrNotifierEvents[w], e) \in Seq(Event)
    BY DEF TypeOK, InfoTypeOK
  <2> QED BY <1>1, <2>1, PostWrNotifierEventsType DEF PostWrNotifierEvent, TypeOK, InfoTypeOK
<1>2. CASE w \notin mWindowInfos
  BY <1>2 DEF PostWrNotifierEvent, TypeOK, InfoTypeOK, ThreadTypeOK
<1> QED BY <1>1, <1>2

(* The api channel carries messages. *)
LEMMA SendToBackendType ==
  ASSUME BackendTypeOK, NEW w \in Windows, NEW msg \in Message, SendToBackend(w, msg)
  PROVE  backend' \in [Windows -> Seq(Message)]
<1>1. Append(backend[w], msg) \in Seq(Message)
  BY DEF BackendTypeOK
<1> QED BY <1>1 DEF SendToBackend, BackendTypeOK

(* A backend that takes a message finds one. *)
LEMMA BackendTakesType ==
  ASSUME BackendTypeOK, NEW w \in Windows, NEW tags, BackendTakes(w, tags)
  PROVE  /\ backend' \in [Windows -> Seq(Message)]
         /\ Head(backend[w]) \in Message
<1>1. backend[w] \in Seq(Message) /\ backend[w] # <<>>
  BY DEF BackendTakes, BackendTypeOK
<1>2. Tail(backend[w]) \in Seq(Message) /\ Head(backend[w]) \in Message
  BY <1>1
<1> QED BY <1>2 DEF BackendTakes, BackendTypeOK

(* Popping an event from a queue that has one leaves events. *)
LEMMA PopEventType ==
  ASSUME QueueTypeOK, cur \in Windows, events[cur] # <<>>, PopEvent
  PROVE  events' \in [Windows -> Seq(Event)]
<1>1. Tail(events[cur]) \in Seq(Event)
  BY DEF QueueTypeOK
<1> QED BY <1>1 DEF PopEvent, QueueTypeOK

(* A handler at an event has a window and an event. *)
LEMMA AtEventType ==
  ASSUME TypeOK, NEW tags, AtEvent(tags)
  PROVE  cur \in Windows /\ events[cur] # <<>> /\ Head(events[cur]) \in Event
<1>1. cur \in Windows /\ events[cur] # <<>>
  BY DEF AtEvent, TypeOK, HandlerTypeOK
<1>2. events[cur] \in Seq(Event)
  BY <1>1 DEF TypeOK, QueueTypeOK
<1> QED BY <1>1, <1>2

(* A composite is accepted or skipped for its own window. *)
LEMMA TryCompositeType ==
  ASSUME TypeOK, NEW w \in Windows, TryComposite(w)
  PROVE  /\ comp' \in [op : {"idle", "create", "accepted", "flush", "destroy"},
                      window : Windows \cup {NoWindow}]
         /\ comp'.op # "idle" => comp'.window \in Windows
         /\ skipped' \subseteq Windows
  BY DEF TryComposite, CompDoes, TypeOK, CompTypeOK, RetryTypeOK

-----------------------------------------------------------------------------
(* Every action keeps the types. Handling is needed where the code takes    *)
(* front() or pop() of a queue without a test.                              *)
LEMMA StepTypeOK == TypeOK /\ Handling /\ [Next]_vars => TypeOK'
<1> SUFFICES ASSUME TypeOK, Handling, [Next]_vars PROVE TypeOK'
  OBVIOUS
<1> USE DEF TypeOK
<1>1. ASSUME NEW w \in Windows, Create(w) PROVE TypeOK'
  <2>1. CompTypeOK'
    BY <1>1 DEF Create, CompWaits, CompDoes, CompTypeOK
  <2>2. ThreadTypeOK'
    BY <1>1, PostRunnableType DEF Create, ThreadTypeOK
  <2>3. InfoTypeOK' /\ QueueTypeOK' /\ HandlerTypeOK' /\ ErrorTypeOK' /\ BackendTypeOK' /\ RetryTypeOK'
    BY <1>1, InfoUnchanged, QueueUnchanged, HandlerUnchanged, ErrorUnchanged,
       BackendUnchanged, RetryUnchanged DEF Create
  <2> QED BY <2>1, <2>2, <2>3
<1>2. CASE TaskReturns
  <2>1. CompTypeOK'
    BY <1>2 DEF TaskReturns, CompReturns, CompTypeOK
  <2>2. InfoTypeOK' /\ QueueTypeOK' /\ HandlerTypeOK' /\ ErrorTypeOK' /\ BackendTypeOK' /\ ThreadTypeOK' /\ RetryTypeOK'
    BY <1>2, InfoUnchanged, QueueUnchanged, HandlerUnchanged, ErrorUnchanged,
       BackendUnchanged, ThreadUnchanged, RetryUnchanged DEF TaskReturns
  <2> QED BY <2>1, <2>2
<1>3. ASSUME NEW w \in Windows, Composite(w) PROVE TypeOK'
  <2>1. CompTypeOK'
    BY <1>3, TryCompositeType DEF Composite, CompTypeOK
  <2>2. RetryTypeOK'
    BY <1>3, TryCompositeType DEF Composite, RetryTypeOK
  <2>3. InfoTypeOK' /\ QueueTypeOK' /\ HandlerTypeOK' /\ ErrorTypeOK' /\ BackendTypeOK' /\ ThreadTypeOK'
    BY <1>3, InfoUnchanged, QueueUnchanged, HandlerUnchanged, ErrorUnchanged,
       BackendUnchanged, ThreadUnchanged DEF Composite
  <2> QED BY <2>1, <2>2, <2>3
<1>4. ASSUME NEW w \in Windows, RetrySkippedComposite(w) PROVE TypeOK'
  <2>1. CompTypeOK'
    BY <1>4, TryCompositeType DEF RetrySkippedComposite, CompTypeOK
  <2>2. RetryTypeOK'
    BY <1>4, TryCompositeType DEF RetrySkippedComposite, RetryTypeOK
  <2>3. InfoTypeOK' /\ QueueTypeOK' /\ HandlerTypeOK' /\ ErrorTypeOK' /\ BackendTypeOK' /\ ThreadTypeOK'
    BY <1>4, InfoUnchanged, QueueUnchanged, HandlerUnchanged, ErrorUnchanged,
       BackendUnchanged, ThreadUnchanged DEF RetrySkippedComposite
  <2> QED BY <2>1, <2>2, <2>3
<1>5. ASSUME NEW w \in Windows, GenerateFrame(w) PROVE TypeOK'
  <2>n. issued[w] + 1 \in Nat
    BY <1>5 DEF BackendTypeOK
  <2>a. Append(mPendingFrames[w], issued[w] + 1) \in Seq(Nat)
    BY <1>5, <2>n DEF InfoTypeOK
  <2>b. mPendingFrameBuild' \in [Windows -> 0..255] /\ mPendingFrames' \in [Windows -> Seq(Nat)]
    <3>1. (mPendingFrameBuild[w] + 1) % 256 \in 0..255
      <4> mPendingFrameBuild[w] \in 0..255
        BY <1>5 DEF InfoTypeOK
      <4> QED BY ByteType
    <3>2. CASE w \in mWindowInfos
      <4>1. /\ mPendingFrameBuild' = [mPendingFrameBuild EXCEPT ![w] = (mPendingFrameBuild[w] + 1) % 256]
            /\ mPendingFrames' = [mPendingFrames EXCEPT ![w] = Append(mPendingFrames[w], issued[w] + 1)]
        BY <1>5, <3>2 DEF GenerateFrame, IncPendingFrameCount
      <4>2. mPendingFrameBuild' \in [Windows -> 0..255]
        BY <4>1, <3>1, <1>5 DEF InfoTypeOK
      <4>3. mPendingFrames' \in [Windows -> Seq(Nat)]
        BY <4>1, <2>a, <1>5 DEF InfoTypeOK
      <4> QED BY <4>2, <4>3
    <3>3. CASE w \notin mWindowInfos
      BY <1>5, <3>3 DEF GenerateFrame, IncPendingFrameCount, InfoTypeOK
    <3> QED BY <3>2, <3>3
  <2>c. backend' \in [Windows -> Seq(Message)]
    BY <1>5, <2>n, SendToBackendType DEF GenerateFrame, Message
  <2>1. InfoTypeOK'
    BY <1>5, <2>b DEF GenerateFrame, InfoTypeOK
  <2>2. CompTypeOK'
    BY <1>5 DEF GenerateFrame, CompReturns, CompTypeOK
  <2>3. BackendTypeOK'
    BY <1>5, <2>n, <2>c DEF GenerateFrame, BackendTypeOK
  <2>4. QueueTypeOK' /\ HandlerTypeOK' /\ ErrorTypeOK' /\ ThreadTypeOK' /\ RetryTypeOK'
    BY <1>5, QueueUnchanged, HandlerUnchanged, ErrorUnchanged, ThreadUnchanged,
       RetryUnchanged DEF GenerateFrame
  <2> QED BY <2>1, <2>2, <2>3, <2>4
<1>6. ASSUME NEW w \in Windows, SetFrameStartTime(w) PROVE TypeOK'
  <2>1. BackendTypeOK'
    BY <1>6, EventTypes, SendToBackendType DEF SetFrameStartTime, BackendTypeOK,
       ExternalEvents, frameVars
  <2>2. InfoTypeOK' /\ QueueTypeOK' /\ HandlerTypeOK' /\ ErrorTypeOK' /\ CompTypeOK' /\ ThreadTypeOK' /\ RetryTypeOK'
    BY <1>6, InfoUnchanged, QueueUnchanged, HandlerUnchanged, ErrorUnchanged, CompUnchanged,
       ThreadUnchanged, RetryUnchanged DEF SetFrameStartTime
  <2> QED BY <2>1, <2>2
<1>7. ASSUME NEW w \in Windows, SetClearColor(w) PROVE TypeOK'
  <2>1. ThreadTypeOK'
    BY <1>7, PostRunnableType DEF SetClearColor, ThreadTypeOK
  <2>2. InfoTypeOK' /\ QueueTypeOK' /\ HandlerTypeOK' /\ ErrorTypeOK' /\ CompTypeOK' /\ BackendTypeOK' /\ RetryTypeOK'
    BY <1>7, InfoUnchanged, QueueUnchanged, HandlerUnchanged, ErrorUnchanged, CompUnchanged,
       BackendUnchanged, RetryUnchanged DEF SetClearColor
  <2> QED BY <2>1, <2>2
<1>8. ASSUME NEW w \in Windows, WaitFlushed(w) PROVE TypeOK'
  <2>1. CompTypeOK'
    BY <1>8 DEF WaitFlushed, CompWaits, CompDoes, CompTypeOK
  <2>2. BackendTypeOK'
    BY <1>8, EventTypes, SendToBackendType DEF WaitFlushed, BackendTypeOK, ExternalEvents,
       frameVars
  <2>3. InfoTypeOK' /\ QueueTypeOK' /\ HandlerTypeOK' /\ ErrorTypeOK' /\ ThreadTypeOK' /\ RetryTypeOK'
    BY <1>8, InfoUnchanged, QueueUnchanged, HandlerUnchanged, ErrorUnchanged,
       ThreadUnchanged, RetryUnchanged DEF WaitFlushed
  <2> QED BY <2>1, <2>2, <2>3
<1>9. ASSUME NEW w \in Windows, DestroyRenderer(w) PROVE TypeOK'
  <2>a. Append(Append(backend[w], [tag |-> "Stop", id |-> 0]), ExternalEvent("RemoveRenderer")) \in Seq(Message)
    BY <1>9, EventTypes DEF BackendTypeOK, ExternalEvents, Message
  <2>1. InfoTypeOK'
    BY <1>9 DEF DestroyRenderer, SetDestroyed, InfoTypeOK
  <2>2. CompTypeOK'
    BY <1>9 DEF DestroyRenderer, CompWaits, CompDoes, CompTypeOK
  <2>3. BackendTypeOK'
    BY <1>9, <2>a DEF DestroyRenderer, BackendTypeOK, frameVars
  <2>4. QueueTypeOK' /\ HandlerTypeOK' /\ ErrorTypeOK' /\ ThreadTypeOK' /\ RetryTypeOK'
    BY <1>9, QueueUnchanged, HandlerUnchanged, ErrorUnchanged, ThreadUnchanged,
       RetryUnchanged DEF DestroyRenderer
  <2> QED BY <2>1, <2>2, <2>3, <2>4
<1>10. CASE SessionsRebuilt
  <2>1. ErrorTypeOK'
    BY <1>10 DEF SessionsRebuilt, ErrorTypeOK
  <2>2. InfoTypeOK' /\ QueueTypeOK' /\ HandlerTypeOK' /\ CompTypeOK' /\ BackendTypeOK' /\ ThreadTypeOK' /\ RetryTypeOK'
    BY <1>10, InfoUnchanged, QueueUnchanged, HandlerUnchanged, CompUnchanged,
       BackendUnchanged, ThreadUnchanged, RetryUnchanged DEF SessionsRebuilt
  <2> QED BY <2>1, <2>2
<1>11. ASSUME NEW w \in Windows, FrameBuilt(w) PROVE TypeOK'
  <2>a. (mPendingFrameBuild[w] - 1) % 256 \in 0..255
    <3> mPendingFrameBuild[w] \in 0..255
      BY <1>11 DEF InfoTypeOK
    <3> QED BY ByteType
  <2>h. mPendingFrameBuild' \in [Windows -> 0..255]
    <3>1. CASE w \in mWindowInfos
      BY <1>11, <2>a, <3>1 DEF FrameBuilt, DecPendingFrameBuildCount, InfoTypeOK
    <3>2. CASE w \notin mWindowInfos
      BY <1>11, <3>2 DEF FrameBuilt, DecPendingFrameBuildCount, InfoTypeOK
    <3> QED BY <3>1, <3>2
  <2>b. backend' \in [Windows -> Seq(Message)] /\ Head(backend[w]).id \in Nat
    BY <1>11, BackendTakesType DEF FrameBuilt, Message
  <2>x. busy' \in [Windows -> Nat] /\ built' \in [Windows -> Nat]
    <3>1. built[w] + 1 \in Nat
      BY <1>11 DEF BackendTypeOK
    <3> QED BY <1>11, <2>b, <3>1 DEF FrameBuilt, BackendTypeOK
  <2>1. InfoTypeOK'
    BY <1>11, <2>h DEF FrameBuilt, InfoTypeOK
  <2>2. BackendTypeOK'
    BY <1>11, <2>b, <2>x DEF FrameBuilt, BackendTypeOK
  <2>3. QueueTypeOK' /\ HandlerTypeOK' /\ ErrorTypeOK' /\ CompTypeOK' /\ ThreadTypeOK' /\ RetryTypeOK'
    BY <1>11, QueueUnchanged, HandlerUnchanged, ErrorUnchanged, CompUnchanged,
       ThreadUnchanged, RetryUnchanged DEF FrameBuilt
  <2> QED BY <2>1, <2>2, <2>3
<1>12. ASSUME NEW w \in Windows, NewFrameReady(w) PROVE TypeOK'
  <2>a. NewFrameReadyEvent(busy[w]) \in Event
    BY <1>12, EventTypes DEF BackendTypeOK
  <2>p. PostWrNotifierEvent(w, NewFrameReadyEvent(busy[w]))
    BY <1>12 DEF NewFrameReady
  <2>1. InfoTypeOK'
    BY <1>12, <2>a, <2>p, PostWrNotifierEventType DEF NewFrameReady, InfoTypeOK
  <2>2. BackendTypeOK'
    BY <1>12 DEF NewFrameReady, BackendTypeOK, frameVars
  <2>3. ThreadTypeOK'
    BY <1>12, <2>a, <2>p, PostWrNotifierEventType DEF NewFrameReady, ThreadTypeOK
  <2>4. QueueTypeOK' /\ HandlerTypeOK' /\ ErrorTypeOK' /\ CompTypeOK' /\ RetryTypeOK'
    BY <1>12, QueueUnchanged, HandlerUnchanged, ErrorUnchanged, CompUnchanged,
       RetryUnchanged DEF NewFrameReady
  <2> QED BY <2>1, <2>2, <2>3, <2>4
<1>13. ASSUME NEW w \in Windows, ForwardExternalEvent(w) PROVE TypeOK'
  <2>a. backend' \in [Windows -> Seq(Message)] /\ Head(backend[w]) \in Event
    BY <1>13, BackendTakesType DEF ForwardExternalEvent, BackendTakes, ForwardedTags,
       Message, Event
  <2>p. PostWrNotifierEvent(w, Head(backend[w]))
    BY <1>13 DEF ForwardExternalEvent
  <2>1. InfoTypeOK'
    BY <1>13, <2>a, <2>p, PostWrNotifierEventType DEF ForwardExternalEvent, InfoTypeOK
  <2>2. BackendTypeOK'
    BY <1>13, <2>a DEF ForwardExternalEvent, BackendTypeOK, frameVars
  <2>3. ThreadTypeOK'
    BY <1>13, <2>a, <2>p, PostWrNotifierEventType DEF ForwardExternalEvent, ThreadTypeOK
  <2>4. QueueTypeOK' /\ HandlerTypeOK' /\ ErrorTypeOK' /\ CompTypeOK' /\ RetryTypeOK'
    BY <1>13, QueueUnchanged, HandlerUnchanged, ErrorUnchanged, CompUnchanged,
       RetryUnchanged DEF ForwardExternalEvent
  <2> QED BY <2>1, <2>2, <2>3, <2>4
<1>14. ASSUME NEW w \in Windows, StopRenderBackend(w) PROVE TypeOK'
  <2>1. BackendTypeOK'
    BY <1>14, BackendTakesType DEF StopRenderBackend, BackendTypeOK, frameVars
  <2>2. InfoTypeOK' /\ QueueTypeOK' /\ HandlerTypeOK' /\ ErrorTypeOK' /\ CompTypeOK' /\ ThreadTypeOK' /\ RetryTypeOK'
    BY <1>14, InfoUnchanged, QueueUnchanged, HandlerUnchanged, ErrorUnchanged,
       CompUnchanged, ThreadUnchanged, RetryUnchanged DEF StopRenderBackend
  <2> QED BY <2>1, <2>2
<1>15. ASSUME NEW w \in Windows, WakeUp(w) PROVE TypeOK'
  <2>p. PostWrNotifierEvent(w, WakeUpEvent)
    BY <1>15 DEF WakeUp
  <2>1. InfoTypeOK'
    BY <1>15, <2>p, EventTypes, PostWrNotifierEventType DEF WakeUp, InfoTypeOK
  <2>2. ThreadTypeOK'
    BY <1>15, <2>p, EventTypes, PostWrNotifierEventType DEF WakeUp, ThreadTypeOK
  <2>3. QueueTypeOK' /\ HandlerTypeOK' /\ ErrorTypeOK' /\ CompTypeOK' /\ BackendTypeOK' /\ RetryTypeOK'
    BY <1>15, QueueUnchanged, HandlerUnchanged, ErrorUnchanged, CompUnchanged,
       BackendUnchanged, RetryUnchanged DEF WakeUp
  <2> QED BY <2>1, <2>2, <2>3
<1>16. ASSUME NEW w \in Windows, NewRenderer(w) PROVE TypeOK'
  <2>a. mThread' \in Seq(Runnable)
    BY <1>16, RunnableTakenType DEF NewRenderer
  <2>1. InfoTypeOK'
    BY <1>16 DEF NewRenderer, AddRenderer, InfoTypeOK
  <2>2. QueueTypeOK'
    BY <1>16 DEF NewRenderer, AddRenderer, QueueTypeOK
  <2>3. CompTypeOK'
    BY <1>16 DEF NewRenderer, CompTypeOK
  <2>4. ThreadTypeOK'
    BY <1>16, <2>a DEF NewRenderer, AddRenderer, ThreadTypeOK
  <2>5. HandlerTypeOK' /\ ErrorTypeOK' /\ BackendTypeOK' /\ RetryTypeOK'
    BY <1>16, HandlerUnchanged, ErrorUnchanged, BackendUnchanged, RetryUnchanged DEF
       NewRenderer
  <2> QED BY <2>1, <2>2, <2>3, <2>4, <2>5
<1>17. ASSUME NEW w \in Windows, RunSetClearColor(w) PROVE TypeOK'
  <2>1. ThreadTypeOK'
    BY <1>17, RunnableTakenType DEF RunSetClearColor, ThreadTypeOK
  <2>2. InfoTypeOK' /\ QueueTypeOK' /\ HandlerTypeOK' /\ ErrorTypeOK' /\ CompTypeOK' /\ BackendTypeOK' /\ RetryTypeOK'
    BY <1>17, InfoUnchanged, QueueUnchanged, HandlerUnchanged, ErrorUnchanged,
       CompUnchanged, BackendUnchanged, RetryUnchanged DEF RunSetClearColor
  <2> QED BY <2>1, <2>2
<1>18. ASSUME NEW w \in Windows, EraseQueue(w) PROVE TypeOK'
  <2>1. QueueTypeOK'
    BY <1>18 DEF EraseQueue, QueueTypeOK
  <2>2. ThreadTypeOK'
    BY <1>18, RunnableTakenType DEF EraseQueue, ThreadTypeOK
  <2>3. InfoTypeOK' /\ HandlerTypeOK' /\ ErrorTypeOK' /\ CompTypeOK' /\ BackendTypeOK' /\ RetryTypeOK'
    BY <1>18, InfoUnchanged, HandlerUnchanged, ErrorUnchanged, CompUnchanged,
       BackendUnchanged, RetryUnchanged DEF EraseQueue
  <2> QED BY <2>1, <2>2, <2>3
<1>19. ASSUME NEW w \in Windows, HandleWrNotifierEvents(w) PROVE TypeOK'
  <2>a. mPendingWrNotifierEvents' \in [Windows -> Seq(Event)] /\ events' \in [Windows -> Seq(Event)]
    BY <1>19 DEF HandleWrNotifierEvents, TakePendingEvents, InfoTypeOK, QueueTypeOK
  <2>1. InfoTypeOK'
    BY <1>19, <2>a DEF HandleWrNotifierEvents, InfoTypeOK
  <2>2. QueueTypeOK'
    BY <1>19, <2>a DEF HandleWrNotifierEvents, QueueTypeOK
  <2>3. HandlerTypeOK'
    BY <1>19 DEF HandleWrNotifierEvents, HandlerTypeOK
  <2>4. ThreadTypeOK'
    BY <1>19, RunnableTakenType DEF HandleWrNotifierEvents, ThreadTypeOK
  <2>5. ErrorTypeOK' /\ CompTypeOK' /\ BackendTypeOK' /\ RetryTypeOK'
    BY <1>19, ErrorUnchanged, CompUnchanged, BackendUnchanged, RetryUnchanged DEF
       HandleWrNotifierEvents
  <2> QED BY <2>1, <2>2, <2>3, <2>4, <2>5
<1>20. CASE ShutDownTask
  <2>1. ThreadTypeOK'
    BY <1>20, RunnableTakenType DEF ShutDownTask, ThreadTypeOK
  <2>2. InfoTypeOK' /\ QueueTypeOK' /\ HandlerTypeOK' /\ ErrorTypeOK' /\ CompTypeOK' /\ BackendTypeOK' /\ RetryTypeOK'
    BY <1>20, InfoUnchanged, QueueUnchanged, HandlerUnchanged, ErrorUnchanged,
       CompUnchanged, BackendUnchanged, RetryUnchanged DEF ShutDownTask
  <2> QED BY <2>1, <2>2
<1>21. CASE RunExternalEvent
  <2>a. cur \in Windows /\ events[cur] # <<>>
    BY <1>21, AtEventType DEF RunExternalEvent
  <2>1. QueueTypeOK'
    BY <1>21, <2>a, PopEventType DEF RunExternalEvent, QueueTypeOK
  <2>2. CompTypeOK'
    BY <1>21 DEF RunExternalEvent, CompTypeOK
  <2>3. InfoTypeOK' /\ HandlerTypeOK' /\ ErrorTypeOK' /\ BackendTypeOK' /\ ThreadTypeOK' /\ RetryTypeOK'
    BY <1>21, InfoUnchanged, HandlerUnchanged, ErrorUnchanged, BackendUnchanged,
       ThreadUnchanged, RetryUnchanged DEF RunExternalEvent
  <2> QED BY <2>1, <2>2, <2>3
<1>22. CASE RunRemoveRenderer
  <2>a. cur \in Windows /\ events[cur] # <<>>
    BY <1>22, AtEventType DEF RunRemoveRenderer
  <2>b. events' \in [Windows -> Seq(Event)]
    BY <1>22, <2>a, PopEventType DEF RunRemoveRenderer
  <2>1. InfoTypeOK'
    <3>1. CASE mHasShutdown
      BY <1>22, <3>1, InfoUnchanged DEF RunRemoveRenderer, RemoveRenderer
    <3>2. CASE ~mHasShutdown
      BY <1>22, <2>a, <3>2, EraseWindowInfoType DEF RunRemoveRenderer, RemoveRenderer
    <3> QED BY <3>1, <3>2
  <2>2. QueueTypeOK'
    BY <1>22, <2>b DEF RunRemoveRenderer, RemoveRenderer, QueueTypeOK
  <2>3. ErrorTypeOK'
    BY <1>22 DEF RunRemoveRenderer, RemoveRenderer, ErrorsHandled, ErrorTypeOK
  <2>4. CompTypeOK'
    BY <1>22 DEF RunRemoveRenderer, CompTypeOK
  <2>5. ThreadTypeOK'
    BY <1>22, <2>a, PostRunnableType DEF RunRemoveRenderer, RemoveRenderer, ThreadTypeOK
  <2>6. HandlerTypeOK' /\ BackendTypeOK' /\ RetryTypeOK'
    BY <1>22, HandlerUnchanged, BackendUnchanged, RetryUnchanged DEF RunRemoveRenderer
  <2> QED BY <2>1, <2>2, <2>3, <2>4, <2>5, <2>6
<1>23. CASE HandleFrameOneDoc
  <2>a. cur \in Windows /\ events[cur] # <<>>
    BY <1>23, AtEventType DEF HandleFrameOneDoc
  <2>1. QueueTypeOK'
    BY <1>23, <2>a, PopEventType DEF HandleFrameOneDoc, QueueTypeOK
  <2>2. HandlerTypeOK'
    BY <1>23 DEF HandleFrameOneDoc, HandlerTypeOK, AtEvent
  <2>3. InfoTypeOK' /\ ErrorTypeOK' /\ CompTypeOK' /\ BackendTypeOK' /\ ThreadTypeOK' /\ RetryTypeOK'
    BY <1>23, InfoUnchanged, ErrorUnchanged, CompUnchanged, BackendUnchanged,
       ThreadUnchanged, RetryUnchanged DEF HandleFrameOneDoc
  <2> QED BY <2>1, <2>2, <2>3
<1>24. CASE StartRender
  <2>a. frame' \in Nat
    BY <1>24 DEF StartRender, HandlerTypeOK, InfoTypeOK, QueueTypeOK, Handling,
       HandlingFrame
  <2>1. HandlerTypeOK'
    BY <1>24, <2>a DEF StartRender, HandlerTypeOK
  <2>2. RetryTypeOK'
    BY <1>24 DEF StartRender, NotifyCompositor, HandlerTypeOK, RetryTypeOK
  <2>3. InfoTypeOK' /\ QueueTypeOK' /\ ErrorTypeOK' /\ CompTypeOK' /\ BackendTypeOK' /\ ThreadTypeOK'
    BY <1>24, InfoUnchanged, QueueUnchanged, ErrorUnchanged, CompUnchanged,
       BackendUnchanged, ThreadUnchanged DEF StartRender
  <2> QED BY <2>1, <2>2, <2>3
<1>25. CASE FinishRender
  <2>1. HandlerTypeOK'
    BY <1>25 DEF FinishRender, HandlerTypeOK
  <2>2. ErrorTypeOK'
    BY <1>25 DEF FinishRender, HandleDeviceReset, HandleWebRenderError,
       NotifyGPUProcessManager, ErrorTypeOK
  <2>3. RetryTypeOK'
    BY <1>25 DEF FinishRender, NotifyCompositor, HandlerTypeOK, RetryTypeOK
  <2>4. InfoTypeOK' /\ QueueTypeOK' /\ CompTypeOK' /\ BackendTypeOK' /\ ThreadTypeOK'
    BY <1>25, InfoUnchanged, QueueUnchanged, CompUnchanged, BackendUnchanged,
       ThreadUnchanged DEF FinishRender
  <2> QED BY <2>1, <2>2, <2>3, <2>4
<1>26. CASE FrameHandled
  <2>a. cur \in Windows /\ events[cur] # <<>>
    BY <1>26 DEF FrameHandled, HandlerTypeOK, Handling
  <2>b. mPendingFrames' \in [Windows -> Seq(Nat)]
    <3>1. CASE IsFrame(Head(events[cur])) /\ cur \in mWindowInfos
      <4>1. mPendingFrames[cur] \in Seq(Nat) /\ mPendingFrames[cur] # <<>>
        BY <3>1, <1>26, <2>a DEF FrameHandled, InfoTypeOK, Handling, HandlingFrame
      <4>2. Tail(mPendingFrames[cur]) \in Seq(Nat)
        BY <4>1
      <4> QED BY <3>1, <4>2, <1>26 DEF FrameHandled, DecPendingFrameCount, InfoTypeOK
    <3>2. CASE ~(IsFrame(Head(events[cur])) /\ cur \in mWindowInfos)
      BY <3>2, <1>26 DEF FrameHandled, DecPendingFrameCount, InfoTypeOK
    <3> QED BY <3>1, <3>2
  <2>1. InfoTypeOK'
    BY <1>26, <2>b DEF FrameHandled, InfoTypeOK
  <2>2. QueueTypeOK'
    BY <1>26, <2>a, PopEventType DEF FrameHandled, QueueTypeOK
  <2>3. HandlerTypeOK'
    BY <1>26 DEF FrameHandled, HandlerTypeOK
  <2>4. ErrorTypeOK' /\ CompTypeOK' /\ BackendTypeOK' /\ ThreadTypeOK' /\ RetryTypeOK'
    BY <1>26, ErrorUnchanged, CompUnchanged, BackendUnchanged, ThreadUnchanged,
       RetryUnchanged DEF FrameHandled
  <2> QED BY <2>1, <2>2, <2>3, <2>4
<1>27. CASE HandlerReturns
  <2>a. cur \in Windows
    BY <1>27 DEF HandlerReturns, HandlerTypeOK
  <2>b. mWrNotifierEventsRunnable' \in [Windows -> BOOLEAN] /\ mThread' \in Seq(Runnable)
    BY <1>27, <2>a, PostWrNotifierEventsType DEF HandlerReturns, RepostIfEventsLeft, TypeOK,
       InfoTypeOK, ThreadTypeOK
  <2>1. InfoTypeOK'
    BY <1>27, <2>b DEF HandlerReturns, InfoTypeOK
  <2>2. HandlerTypeOK'
    BY <1>27 DEF HandlerReturns, HandlerTypeOK
  <2>3. ThreadTypeOK'
    BY <1>27, <2>b DEF HandlerReturns, ThreadTypeOK
  <2>4. QueueTypeOK' /\ ErrorTypeOK' /\ CompTypeOK' /\ BackendTypeOK' /\ RetryTypeOK'
    BY <1>27, QueueUnchanged, ErrorUnchanged, CompUnchanged, BackendUnchanged,
       RetryUnchanged DEF HandlerReturns
  <2> QED BY <2>1, <2>2, <2>3, <2>4
<1>28. CASE ShutDown
  <2>1. ThreadTypeOK'
    BY <1>28 DEF ShutDown, ThreadTypeOK
  <2>2. InfoTypeOK' /\ QueueTypeOK' /\ HandlerTypeOK' /\ ErrorTypeOK' /\ CompTypeOK' /\ BackendTypeOK' /\ RetryTypeOK'
    BY <1>28, InfoUnchanged, QueueUnchanged, HandlerUnchanged, ErrorUnchanged,
       CompUnchanged, BackendUnchanged, RetryUnchanged DEF ShutDown
  <2> QED BY <2>1, <2>2
<1>29. CASE PostShutDownTask
  <2>1. ThreadTypeOK'
    BY <1>29, PostRunnableType DEF PostShutDownTask, ThreadTypeOK
  <2>2. InfoTypeOK' /\ QueueTypeOK' /\ HandlerTypeOK' /\ ErrorTypeOK' /\ CompTypeOK' /\ BackendTypeOK' /\ RetryTypeOK'
    BY <1>29, InfoUnchanged, QueueUnchanged, HandlerUnchanged, ErrorUnchanged,
       CompUnchanged, BackendUnchanged, RetryUnchanged DEF PostShutDownTask
  <2> QED BY <2>1, <2>2
<1>30. CASE ThreadJoined
  <2>1. ThreadTypeOK'
    BY <1>30 DEF ThreadJoined, ThreadTypeOK
  <2>2. InfoTypeOK' /\ QueueTypeOK' /\ HandlerTypeOK' /\ ErrorTypeOK' /\ CompTypeOK' /\ BackendTypeOK' /\ RetryTypeOK'
    BY <1>30, InfoUnchanged, QueueUnchanged, HandlerUnchanged, ErrorUnchanged,
       CompUnchanged, BackendUnchanged, RetryUnchanged DEF ThreadJoined
  <2> QED BY <2>1, <2>2
<1>31. CASE UNCHANGED vars
  BY <1>31, InfoUnchanged, QueueUnchanged, HandlerUnchanged, ErrorUnchanged, CompUnchanged,
     BackendUnchanged, ThreadUnchanged, RetryUnchanged DEF vars
<1> QED
  BY <1>1, <1>2, <1>3, <1>4, <1>5, <1>6, <1>7, <1>8, <1>9, <1>10, <1>11, <1>12, <1>13,
     <1>14, <1>15, <1>16, <1>17, <1>18, <1>19, <1>20, <1>21, <1>22, <1>23, <1>24, <1>25,
     <1>26, <1>27, <1>28, <1>29, <1>30, <1>31 DEF Next, CompositorStep, BackendStep,
     RunnableStep, RenderThreadStep, MainStep

-----------------------------------------------------------------------------
(* The elements of a queue with one more at its end. *)
LEMMA AppendElements ==
  ASSUME NEW S, NEW q \in Seq(S), NEW e \in S
  PROVE  /\ Len(Append(q, e)) = Len(q) + 1
         /\ \A i \in 1..Len(q) : Append(q, e)[i] = q[i]
         /\ Append(q, e)[Len(q) + 1] = e
  OBVIOUS

(* The elements of a queue whose first is taken. *)
LEMMA TailElements ==
  ASSUME NEW S, NEW q \in Seq(S), q # <<>>
  PROVE  /\ Len(q) \in Nat /\ Len(q) >= 1
         /\ Len(Tail(q)) = Len(q) - 1
         /\ \A i \in 1..Len(Tail(q)) : Tail(q)[i] = q[i + 1]
         /\ Head(q) = q[1]
  OBVIOUS

(* A later frame at the end keeps a queue ordered. *)
LEMMA OrderedAppend ==
  ASSUME NEW q \in Seq(Event), NEW e \in Event, NEW lo \in Int, NEW hi \in Int,
         NEW new \in Int, Ordered(q, lo, hi), hi <= new,
         IsFrame(e) => lo < e.id /\ hi < e.id /\ e.id <= new
  PROVE  Ordered(Append(q, e), lo, new)
<1> DEFINE a == Append(q, e)
<1>1. /\ Len(a) = Len(q) + 1 /\ Len(q) \in Nat
      /\ \A i \in 1..Len(q) : a[i] = q[i]
      /\ a[Len(q) + 1] = e
  BY AppendElements
<1>2. \A i \in 1..Len(q) : q[i].id \in Nat
  <2> \A i \in 1..Len(q) : q[i] \in Event
    OBVIOUS
  <2> QED BY DEF Event
<1>3. e.id \in Nat
  BY DEF Event
<1> HIDE DEF a
<1>4. \A i \in 1..Len(a) : i = Len(q) + 1 \/ i \in 1..Len(q)
  BY <1>1
<1>5. ASSUME NEW i \in 1..Len(a), IsFrame(a[i]) PROVE lo < a[i].id /\ a[i].id <= new
  <2>1. CASE i = Len(q) + 1
    BY <2>1, <1>1, <1>5
  <2>2. CASE i \in 1..Len(q)
    <3>1. a[i] = q[i] /\ lo < q[i].id /\ q[i].id <= hi /\ q[i].id \in Nat
      BY <2>2, <1>1, <1>2, <1>5 DEF Ordered
    <3> QED BY <3>1
  <2> QED BY <2>1, <2>2, <1>4
<1>6. ASSUME NEW i \in 1..Len(a), NEW j \in 1..Len(a), i < j, IsFrame(a[i]), IsFrame(a[j])
      PROVE  a[i].id < a[j].id
  <2>1. i \in 1..Len(q) /\ a[i].id <= hi /\ a[i].id \in Nat
    BY <1>1, <1>2, <1>4, <1>6 DEF Ordered
  <2>2. CASE j = Len(q) + 1
    BY <2>1, <2>2, <1>1, <1>3, <1>6
  <2>3. CASE j \in 1..Len(q)
    BY <2>1, <2>3, <1>1, <1>6 DEF Ordered
  <2> QED BY <2>2, <2>3, <1>4
<1> QED BY <1>5, <1>6 DEF Ordered, a

(* A queue stays ordered without its first event, and above it. *)
LEMMA OrderedTail ==
  ASSUME NEW q \in Seq(Event), q # <<>>, NEW lo \in Int, NEW hi \in Int,
         Ordered(q, lo, hi)
  PROVE  /\ Ordered(Tail(q), lo, hi)
         /\ IsFrame(Head(q)) => Ordered(Tail(q), Head(q).id, hi)
<1> DEFINE t == Tail(q)
<1>1. /\ Len(q) \in Nat /\ Len(q) >= 1
      /\ Len(t) = Len(q) - 1
      /\ \A i \in 1..Len(t) : t[i] = q[i + 1]
      /\ Head(q) = q[1]
  BY TailElements
<1> HIDE DEF t
<1>2. \A i \in 1..Len(t) : i + 1 \in 1..Len(q) /\ 1 < i + 1 /\ 1 \in 1..Len(q)
  BY <1>1
<1>3. Ordered(t, lo, hi)
  <2>1. ASSUME NEW i \in 1..Len(t), IsFrame(t[i]) PROVE lo < t[i].id /\ t[i].id <= hi
    BY <1>1, <1>2, <2>1 DEF Ordered
  <2>2. ASSUME NEW i \in 1..Len(t), NEW j \in 1..Len(t), i < j, IsFrame(t[i]), IsFrame(t[j])
        PROVE  t[i].id < t[j].id
    <3>1. i + 1 \in 1..Len(q) /\ j + 1 \in 1..Len(q) /\ i + 1 < j + 1
      BY <1>1, <2>2
    <3>2. t[i] = q[i + 1] /\ t[j] = q[j + 1]
      BY <1>1
    <3> QED BY <2>2, <3>1, <3>2 DEF Ordered
  <2> QED BY <2>1, <2>2 DEF Ordered
<1>4. ASSUME IsFrame(Head(q)) PROVE Ordered(t, Head(q).id, hi)
  <2>1. ASSUME NEW i \in 1..Len(t), IsFrame(t[i]) PROVE Head(q).id < t[i].id
    <3>1. /\ IsFrame(q[1]) /\ IsFrame(q[i + 1]) /\ Head(q) = q[1] /\ t[i] = q[i + 1]
          /\ i + 1 \in 1..Len(q) /\ 1 \in 1..Len(q) /\ 1 < i + 1
      BY <1>1, <1>2, <1>4, <2>1
    <3>2. q[1].id < q[i + 1].id
      BY <3>1 DEF Ordered
    <3> QED BY <3>1, <3>2
  <2>2. \A i \in 1..Len(t) : IsFrame(t[i]) => Head(q).id < t[i].id /\ t[i].id <= hi
    BY <1>3, <2>1 DEF Ordered
  <2> QED BY <1>3, <2>2 DEF Ordered
<1> QED BY <1>3, <1>4 DEF t

(* A queue contains what it did and what is appended. *)
LEMMA ContainsAppend ==
  ASSUME NEW q \in Seq(Event), NEW e \in Event, NEW n,
         Contains(q, n) \/ (IsFrame(e) /\ e.id = n)
  PROVE  Contains(Append(q, e), n)
<1>1. /\ Len(Append(q, e)) = Len(q) + 1 /\ Len(q) \in Nat
      /\ \A i \in 1..Len(q) : Append(q, e)[i] = q[i]
      /\ Append(q, e)[Len(q) + 1] = e
  BY AppendElements
<1>2. CASE Contains(q, n)
  BY <1>1, <1>2 DEF Contains
<1>3. CASE IsFrame(e) /\ e.id = n
  <2> Len(q) + 1 \in 1..Len(Append(q, e))
    BY <1>1
  <2> QED BY <1>1, <1>3 DEF Contains
<1> QED BY <1>2, <1>3

(* A queue keeps all frames but its first. *)
LEMMA ContainsTail ==
  ASSUME NEW q \in Seq(Event), q # <<>>, NEW n, Contains(q, n),
         ~IsFrame(Head(q)) \/ Head(q).id # n
  PROVE  Contains(Tail(q), n)
<1>1. /\ Len(q) \in Nat /\ Len(q) >= 1
      /\ Len(Tail(q)) = Len(q) - 1
      /\ \A i \in 1..Len(Tail(q)) : Tail(q)[i] = q[i + 1]
      /\ Head(q) = q[1]
  BY TailElements
<1>2. PICK i \in 1..Len(q) : IsFrame(q[i]) /\ q[i].id = n
  BY DEF Contains
<1>3. i # 1
  BY <1>1, <1>2
<1>4. i - 1 \in 1..Len(Tail(q)) /\ Tail(q)[i - 1] = q[i]
  BY <1>1, <1>3
<1> QED BY <1>2, <1>4 DEF Contains

(* p stays before q when q grows by a later frame. *)
LEMMA BeforeAppend ==
  ASSUME NEW p \in Seq(Event), NEW q \in Seq(Event), NEW e \in Event, Before(p, q),
         IsFrame(e) => \A i \in 1..Len(p) : IsFrame(p[i]) => p[i].id < e.id
  PROVE  Before(p, Append(q, e))
<1> DEFINE a == Append(q, e)
<1>1. /\ Len(a) = Len(q) + 1 /\ Len(q) \in Nat
      /\ \A i \in 1..Len(q) : a[i] = q[i]
      /\ a[Len(q) + 1] = e
  BY AppendElements
<1> HIDE DEF a
<1>2. \A i \in 1..Len(a) : i = Len(q) + 1 \/ i \in 1..Len(q)
  BY <1>1
<1> QED BY <1>1, <1>2 DEF Before, a

(* p stays before q when p loses its first event. *)
LEMMA BeforeTail ==
  ASSUME NEW p \in Seq(Event), p # <<>>, NEW q \in Seq(Event), Before(p, q)
  PROVE  Before(Tail(p), q)
<1>1. /\ Len(p) \in Nat /\ Len(Tail(p)) = Len(p) - 1
      /\ \A i \in 1..Len(Tail(p)) : Tail(p)[i] = p[i + 1]
  BY TailElements
<1>2. \A i \in 1..Len(Tail(p)) : i + 1 \in 1..Len(p)
  BY <1>1
<1> QED BY <1>1, <1>2 DEF Before

(* Another message asks for no other frame. *)
LEMMA AsksAppend ==
  ASSUME NEW q \in Seq(Message), NEW m \in Message, NEW n, AsksOnlyFor(q, n),
         ~AsksFor(m)
  PROVE  AsksOnlyFor(Append(q, m), n) /\ (AsksForSome(Append(q, m)) => AsksForSome(q))
<1> DEFINE a == Append(q, m)
<1>1. /\ Len(a) = Len(q) + 1 /\ Len(q) \in Nat
      /\ \A i \in 1..Len(q) : a[i] = q[i]
      /\ a[Len(q) + 1] = m
  BY AppendElements
<1> HIDE DEF a
<1>2. \A i \in 1..Len(a) : i = Len(q) + 1 \/ i \in 1..Len(q)
  BY <1>1
<1>3. \A i \in 1..Len(a) : AsksFor(a[i]) => i \in 1..Len(q) /\ a[i] = q[i]
  BY <1>1, <1>2
<1> QED BY <1>3 DEF AsksOnlyFor, AsksForSome, a

(* Once the request is taken the channel asks for no frame. *)
LEMMA AsksTail ==
  ASSUME NEW q \in Seq(Message), q # <<>>, NEW n, AsksOnlyFor(q, n)
  PROVE  /\ AsksOnlyFor(Tail(q), n)
         /\ AsksForSome(Tail(q)) => AsksForSome(q)
         /\ AsksFor(Head(q)) => Head(q).id = n /\ AsksForSome(q) /\ ~AsksForSome(Tail(q))
<1>1. /\ Len(q) \in Nat /\ Len(q) >= 1
      /\ Len(Tail(q)) = Len(q) - 1
      /\ \A i \in 1..Len(Tail(q)) : Tail(q)[i] = q[i + 1]
      /\ Head(q) = q[1]
  BY TailElements
<1>2. \A i \in 1..Len(Tail(q)) : i + 1 \in 1..Len(q) /\ i + 1 # 1
  BY <1>1
<1>3. 1 \in 1..Len(q)
  BY <1>1
<1>4. AsksOnlyFor(Tail(q), n)
  BY <1>1, <1>2 DEF AsksOnlyFor
<1>5. AsksForSome(Tail(q)) => AsksForSome(q)
  BY <1>1, <1>2 DEF AsksForSome
<1>6. ASSUME AsksFor(Head(q))
      PROVE  Head(q).id = n /\ AsksForSome(q) /\ ~AsksForSome(Tail(q))
  BY <1>1, <1>2, <1>3, <1>6 DEF AsksOnlyFor, AsksForSome
<1> QED BY <1>4, <1>5, <1>6

-----------------------------------------------------------------------------
(* The types of one window's state. *)
LEMMA WindowTypes ==
  ASSUME TypeOK, NEW w \in Windows
  PROVE  /\ issued[w] \in Nat /\ built[w] \in Nat /\ busy[w] \in Nat
         /\ backend[w] \in Seq(Message)
         /\ events[w] \in Seq(Event) /\ mPendingWrNotifierEvents[w] \in Seq(Event)
         /\ mPendingFrames[w] \in Seq(Nat) /\ Len(mPendingFrames[w]) \in Nat
         /\ mPendingFrameBuild[w] \in 0..255
         /\ Done(w) \in Int /\ Announced(w) \in Int
<1>1. issued[w] \in Nat /\ built[w] \in Nat /\ busy[w] \in Nat /\ backend[w] \in Seq(Message)
  BY DEF TypeOK, BackendTypeOK
<1>2. events[w] \in Seq(Event)
  BY DEF TypeOK, QueueTypeOK
<1>3. /\ mPendingWrNotifierEvents[w] \in Seq(Event)
      /\ mPendingFrames[w] \in Seq(Nat)
      /\ mPendingFrameBuild[w] \in 0..255
  BY DEF TypeOK, InfoTypeOK
<1>4. Len(mPendingFrames[w]) \in Nat
  BY <1>3
<1> QED BY <1>1, <1>2, <1>3, <1>4 DEF Done, Announced

FrameData(w) == <<issued[w], built[w], busy[w], mPendingFrames[w], mPendingFrameBuild[w]>>
QueueData(w) == <<backend[w], events[w], mPendingWrNotifierEvents[w]>>

(* WindowOK: what a step that leaves the counts alone must show of a        *)
(* window's queues to keep it.                                              *)
LEMMA QueuesChange ==
  ASSUME NEW w \in Windows, WindowOK(w), mHasShutdown => mHasShutdown',
         FrameData(w)' = FrameData(w),
         AsksOnlyFor(backend'[w], issued[w]),
         AsksForSome(backend'[w]) => AsksForSome(backend[w]),
         Ordered(events'[w], Done(w), Announced(w)),
         Ordered(mPendingWrNotifierEvents'[w], Done(w), Announced(w)),
         Before(events'[w], mPendingWrNotifierEvents'[w]),
         mHasShutdown' \/ \A n : Contains(events[w], n) \/ Contains(mPendingWrNotifierEvents[w], n)
           => Contains(events'[w], n) \/ Contains(mPendingWrNotifierEvents'[w], n)
  PROVE  WindowOK(w)'
<1>1. /\ issued'[w] = issued[w] /\ built'[w] = built[w] /\ busy'[w] = busy[w]
      /\ mPendingFrames'[w] = mPendingFrames[w]
      /\ mPendingFrameBuild'[w] = mPendingFrameBuild[w]
  BY DEF FrameData
<1>2. Done(w)' = Done(w) /\ Announced(w)' = Announced(w)
  BY <1>1 DEF Done, Announced
<1>3. Counts(w)'
  BY <1>1, <1>2 DEF WindowOK, Counts
<1>4. InBackend(w)'
  BY <1>1, <1>2 DEF WindowOK, InBackend
<1>5. InOrder(w)'
  BY <1>2 DEF InOrder
<1>6. NoneMissing(w)'
  BY <1>2 DEF WindowOK, NoneMissing
<1> QED BY <1>3, <1>4, <1>5, <1>6 DEF WindowOK

(* A step that touches nothing of w keeps WindowOK(w). *)
LEMMA WindowUntouched ==
  ASSUME NEW w \in Windows, WindowOK(w), mHasShutdown => mHasShutdown',
         FrameData(w)' = FrameData(w), QueueData(w)' = QueueData(w)
  PROVE  WindowOK(w)'
<1>1. /\ backend'[w] = backend[w] /\ events'[w] = events[w]
      /\ mPendingWrNotifierEvents'[w] = mPendingWrNotifierEvents[w]
  BY DEF QueueData
<1> QED BY <1>1, QueuesChange DEF WindowOK, InBackend, InOrder

(* One more message that asks for no frame. *)
LEMMA MessageSent ==
  ASSUME TypeOK, NEW w \in Windows, WindowOK(w), mHasShutdown => mHasShutdown',
         FrameData(w)' = FrameData(w),
         NEW m \in Message, ~AsksFor(m), backend'[w] = Append(backend[w], m),
         events'[w] = events[w],
         mPendingWrNotifierEvents'[w] = mPendingWrNotifierEvents[w]
  PROVE  WindowOK(w)'
<1>1. /\ AsksOnlyFor(backend'[w], issued[w])
      /\ AsksForSome(backend'[w]) => AsksForSome(backend[w])
  BY WindowTypes, AsksAppend DEF WindowOK, InBackend
<1> QED BY <1>1, QueuesChange DEF WindowOK, InOrder

(* The backend's first message, which asks for no frame, is taken. *)
LEMMA MessageTaken ==
  ASSUME TypeOK, NEW w \in Windows, WindowOK(w),
         backend[w] # <<>>, backend'[w] = Tail(backend[w])
  PROVE  /\ AsksOnlyFor(backend'[w], issued[w])
         /\ AsksForSome(backend'[w]) => AsksForSome(backend[w])
  BY WindowTypes, AsksTail DEF WindowOK, InBackend

(* An event that announces no frame is posted. *)
LEMMA EventPosted ==
  ASSUME TypeOK, NEW w \in Windows, WindowOK(w), mHasShutdown => mHasShutdown',
         FrameData(w)' = FrameData(w),
         AsksOnlyFor(backend'[w], issued[w]),
         AsksForSome(backend'[w]) => AsksForSome(backend[w]),
         NEW e \in Event, ~IsFrame(e),
         events'[w] = events[w],
         mPendingWrNotifierEvents'[w] = Append(mPendingWrNotifierEvents[w], e)
  PROVE  WindowOK(w)'
<1>1. Ordered(mPendingWrNotifierEvents'[w], Done(w), Announced(w))
  BY WindowTypes, OrderedAppend DEF WindowOK, InOrder
<1>2. Before(events'[w], mPendingWrNotifierEvents'[w])
  BY WindowTypes, BeforeAppend DEF WindowOK, InOrder
<1>3. \A n : Contains(mPendingWrNotifierEvents[w], n)
              => Contains(mPendingWrNotifierEvents'[w], n)
  BY WindowTypes, ContainsAppend
<1> QED BY <1>1, <1>2, <1>3, QueuesChange DEF WindowOK, InOrder

(* An event is popped: it announces no frame, or frames no longer count. *)
LEMMA EventPopped ==
  ASSUME TypeOK, NEW w \in Windows, WindowOK(w), mHasShutdown => mHasShutdown',
         FrameData(w)' = FrameData(w),
         backend'[w] = backend[w],
         events[w] # <<>>, ~IsFrame(Head(events[w])) \/ mHasShutdown',
         events'[w] = Tail(events[w]),
         mPendingWrNotifierEvents'[w] = mPendingWrNotifierEvents[w]
  PROVE  WindowOK(w)'
<1>1. Ordered(events'[w], Done(w), Announced(w))
  BY WindowTypes, OrderedTail DEF WindowOK, InOrder
<1>2. Before(events'[w], mPendingWrNotifierEvents'[w])
  BY WindowTypes, BeforeTail DEF WindowOK, InOrder
<1>3. ~IsFrame(Head(events[w]))
        => \A n : Contains(events[w], n) => Contains(events'[w], n)
  BY WindowTypes, ContainsTail
<1> QED BY <1>1, <1>2, <1>3, QueuesChange DEF WindowOK, InOrder, InBackend

-----------------------------------------------------------------------------
(* GenerateFrame counts the frame it asks for. *)
LEMMA FrameIssued ==
  ASSUME IInv, NEW w \in mWindowInfos, GenerateFrame(w)
  PROVE  WindowOK(w)'
<1> w \in Windows /\ TypeOK /\ WindowOK(w)
  BY DEF IInv, TypeOK, InfoTypeOK
<1> DEFINE n == issued[w] + 1
           msg == [tag |-> "GenerateFrame", id |-> n]
<1>1. mPendingFrameBuild[w] = 0 /\ Len(mPendingFrames[w]) <= 1
  BY DEF IInv, Accepted, GenerateFrame
<1>2. /\ issued'[w] = n /\ built'[w] = built[w] /\ busy'[w] = busy[w]
      /\ mPendingFrames'[w] = Append(mPendingFrames[w], n)
      /\ mPendingFrameBuild'[w] = 1
      /\ mHasShutdown' = mHasShutdown
      /\ events'[w] = events[w] /\ mPendingWrNotifierEvents'[w] = mPendingWrNotifierEvents[w]
  <2>1. /\ issued'[w] = n /\ built'[w] = built[w] /\ busy'[w] = busy[w]
        /\ mHasShutdown' = mHasShutdown
        /\ events'[w] = events[w] /\ mPendingWrNotifierEvents'[w] = mPendingWrNotifierEvents[w]
    BY DEF GenerateFrame, TypeOK, BackendTypeOK, queueVars, mHasShutdown
  <2>2. mPendingFrames'[w] = Append(mPendingFrames[w], n)
    BY DEF GenerateFrame, IncPendingFrameCount, TypeOK, InfoTypeOK
  <2>3. mPendingFrameBuild'[w] = 1
    BY <1>1 DEF GenerateFrame, IncPendingFrameCount, TypeOK, InfoTypeOK
  <2> QED BY <2>1, <2>2, <2>3
<1>3. backend'[w] = Append(backend[w], msg) /\ msg \in Message
  BY DEF GenerateFrame, SendToBackend, TypeOK, BackendTypeOK, Message
<1>4. /\ issued[w] \in Nat /\ built[w] \in Nat /\ backend[w] \in Seq(Message)
      /\ mPendingFrames[w] \in Seq(Nat) /\ Len(mPendingFrames[w]) \in Nat
  BY WindowTypes
<1>5. built[w] = issued[w]
  BY <1>1, <1>4 DEF WindowOK, Counts
<1>6. /\ Len(mPendingFrames'[w]) = Len(mPendingFrames[w]) + 1
      /\ \A i \in 1..Len(mPendingFrames[w]) : mPendingFrames'[w][i] = mPendingFrames[w][i]
      /\ mPendingFrames'[w][Len(mPendingFrames[w]) + 1] = n
  BY <1>2, <1>4, AppendElements
<1>7. Done(w)' = Done(w) /\ Announced(w)' = Announced(w)
  <2>1. \A a, b \in Int : (a + 1) - (b + 1) = a - b
    OBVIOUS
  <2>2. issued'[w] - Len(mPendingFrames'[w]) = (issued[w] + 1) - (Len(mPendingFrames[w]) + 1)
    BY <1>2, <1>6
  <2>3. issued'[w] - Len(mPendingFrames'[w]) = issued[w] - Len(mPendingFrames[w])
    <3> issued[w] \in Int /\ Len(mPendingFrames[w]) \in Int
      BY <1>4
    <3> HIDE DEF n
    <3> QED BY <2>1, <2>2
  <2> QED BY <1>2, <2>3 DEF Done, Announced
<1>8. Counts(w)'
  <2>1. \A i \in 1..Len(mPendingFrames'[w]) : mPendingFrames'[w][i] = Done(w) + i
    <3>1. \A i \in 1..Len(mPendingFrames'[w]) :
            i \in 1..Len(mPendingFrames[w]) \/ i = Len(mPendingFrames[w]) + 1
      BY <1>4, <1>6
    <3>2. Done(w) + (Len(mPendingFrames[w]) + 1) = n
      BY <1>4 DEF Done
    <3> QED BY <1>6, <3>1, <3>2 DEF WindowOK, Counts
  <2> QED BY <1>1, <1>2, <1>4, <1>5, <1>6, <1>7, <2>1 DEF WindowOK, Counts
<1>9. InBackend(w)'
  <2> DEFINE b == backend'[w]
  <2>1. ~AsksForSome(backend[w])
    BY <1>4, <1>5 DEF WindowOK, InBackend
  <2>2. /\ Len(b) = Len(backend[w]) + 1 /\ Len(backend[w]) \in Nat
        /\ \A i \in 1..Len(backend[w]) : b[i] = backend[w][i]
        /\ b[Len(backend[w]) + 1] = msg
    BY <1>3, <1>4, AppendElements
  <2> HIDE DEF b
  <2>3. \A i \in 1..Len(b) : i \in 1..Len(backend[w]) \/ i = Len(backend[w]) + 1
    BY <2>2
  <2>4. \A i \in 1..Len(b) : AsksFor(b[i]) => i = Len(backend[w]) + 1
    BY <2>1, <2>2, <2>3 DEF AsksForSome
  <2>5. AsksOnlyFor(b, n)
    BY <2>2, <2>4 DEF AsksOnlyFor
  <2> QED BY <1>2, <1>5, <1>7, <2>5 DEF WindowOK, InBackend, b
<1>10. InOrder(w)'
  BY <1>2, <1>7 DEF WindowOK, InOrder
<1>11. NoneMissing(w)'
  BY <1>2, <1>7 DEF WindowOK, NoneMissing
<1> QED BY <1>8, <1>9, <1>10, <1>11 DEF WindowOK

(* wr_notifier_new_frame_ready counts the frame as built. *)
LEMMA FrameTaken ==
  ASSUME IInv, NEW w \in mWindowInfos, FrameBuilt(w)
  PROVE  WindowOK(w)'
<1> w \in Windows /\ TypeOK /\ WindowOK(w)
  BY DEF IInv, TypeOK, InfoTypeOK
<1>1. /\ issued[w] \in Nat /\ built[w] \in Nat /\ backend[w] \in Seq(Message)
      /\ Len(mPendingFrames[w]) \in Nat
  BY WindowTypes
<1>2. /\ backend[w] # <<>> /\ AsksFor(Head(backend[w])) /\ busy[w] = 0
      /\ backend'[w] = Tail(backend[w])
  BY DEF FrameBuilt, BackendTakes, AsksFor, TypeOK, BackendTypeOK
<1>3. Head(backend[w]).id = issued[w] /\ issued[w] = built[w] + 1
  BY <1>1, <1>2, AsksTail DEF WindowOK, InBackend
<1>4. AsksOnlyFor(backend'[w], issued[w]) /\ ~AsksForSome(backend'[w])
  BY <1>1, <1>2, AsksTail DEF WindowOK, InBackend
<1>5. /\ issued'[w] = issued[w] /\ built'[w] = issued[w] /\ busy'[w] = issued[w]
      /\ mPendingFrames'[w] = mPendingFrames[w] /\ mHasShutdown' = mHasShutdown
      /\ events'[w] = events[w] /\ mPendingWrNotifierEvents'[w] = mPendingWrNotifierEvents[w]
  BY <1>3 DEF FrameBuilt, TypeOK, BackendTypeOK, queueVars, mHasShutdown
<1>6. mPendingFrameBuild'[w] = 0
  <2>1. mPendingFrameBuild[w] = 1
    BY <1>1, <1>3 DEF WindowOK, Counts
  <2> QED BY <2>1 DEF FrameBuilt, DecPendingFrameBuildCount, TypeOK, InfoTypeOK
<1>7. Done(w)' = Done(w) /\ Announced(w)' = Announced(w)
  BY <1>1, <1>2, <1>3, <1>5 DEF Done, Announced
<1>8. Counts(w)'
  BY <1>1, <1>3, <1>5, <1>6, <1>7, WindowTypes DEF WindowOK, Counts
<1>9. InBackend(w)'
  <2>1. Done(w) < issued[w]
    BY <1>1, <1>3, WindowTypes DEF WindowOK, Counts
  <2> QED BY <1>4, <1>5, <1>7, <2>1 DEF InBackend
<1>10. InOrder(w)'
  BY <1>5, <1>7 DEF WindowOK, InOrder
<1>11. NoneMissing(w)'
  BY <1>5, <1>7 DEF WindowOK, NoneMissing
<1> QED BY <1>8, <1>9, <1>10, <1>11 DEF WindowOK

(* The NewFrameReady event is the latest in its window's queues. *)
LEMMA FrameAnnounced ==
  ASSUME IInv, NEW w \in mWindowInfos, NewFrameReady(w)
  PROVE  WindowOK(w)'
<1> w \in Windows /\ TypeOK /\ WindowOK(w)
  BY DEF IInv, TypeOK, InfoTypeOK
<1> DEFINE n == busy[w]
           e == NewFrameReadyEvent(n)
<1>1. /\ issued[w] \in Nat /\ built[w] \in Nat /\ n \in Nat /\ n # 0
      /\ events[w] \in Seq(Event) /\ mPendingWrNotifierEvents[w] \in Seq(Event)
      /\ Done(w) \in Int /\ Announced(w) \in Int
  BY WindowTypes DEF NewFrameReady
<1>2. n = built[w] /\ Done(w) < n /\ Announced(w) = n - 1
  BY <1>1 DEF WindowOK, InBackend, Announced
<1>3. e \in Event /\ IsFrame(e) /\ e.id = n
  BY <1>1 DEF NewFrameReadyEvent, Event, IsFrame
<1>4. /\ issued'[w] = issued[w] /\ built'[w] = built[w] /\ busy'[w] = 0
      /\ mPendingFrames'[w] = mPendingFrames[w]
      /\ mPendingFrameBuild'[w] = mPendingFrameBuild[w]
      /\ backend'[w] = backend[w] /\ events'[w] = events[w]
      /\ mHasShutdown' = mHasShutdown
  BY DEF NewFrameReady, TypeOK, BackendTypeOK, queueVars, frameVars, mHasShutdown
<1>5. mPendingWrNotifierEvents'[w] = Append(mPendingWrNotifierEvents[w], e)
  BY DEF NewFrameReady, PostWrNotifierEvent, TypeOK, InfoTypeOK
<1>6. Done(w)' = Done(w) /\ Announced(w)' = n
  BY <1>2, <1>4 DEF Done, Announced
<1>7. Counts(w)'
  BY <1>4, <1>6 DEF WindowOK, Counts
<1>8. InBackend(w)'
  BY <1>4 DEF WindowOK, InBackend
<1> HIDE DEF e, n
<1>9. InOrder(w)'
  <2>1. Ordered(mPendingWrNotifierEvents'[w], Done(w), n)
    <3>1. Ordered(mPendingWrNotifierEvents[w], Done(w), n - 1)
      BY <1>2 DEF WindowOK, InOrder
    <3>2. /\ n - 1 \in Int /\ n - 1 <= n
          /\ Done(w) < e.id /\ n - 1 < e.id /\ e.id <= n
      BY <1>1, <1>2, <1>3
    <3>3. Ordered(Append(mPendingWrNotifierEvents[w], e), Done(w), n)
      BY <1>1, <1>3, <3>1, <3>2, OrderedAppend
    <3> QED BY <1>5, <3>3
  <2>2. \A i \in 1..Len(events[w]) :
          IsFrame(events[w][i]) => events[w][i].id \in Nat /\ events[w][i].id <= n - 1
    <3>1. \A i \in 1..Len(events[w]) : events[w][i] \in Event
      BY <1>1
    <3> QED BY <1>2, <3>1 DEF WindowOK, InOrder, Ordered, Event
  <2>3. Ordered(events[w], Done(w), n)
    BY <1>1, <2>2 DEF WindowOK, InOrder, Ordered
  <2>4. Before(events[w], mPendingWrNotifierEvents'[w])
    <3>1. \A i \in 1..Len(events[w]) : IsFrame(events[w][i]) => events[w][i].id < e.id
      BY <1>1, <1>3, <2>2
    <3> QED BY <1>1, <1>3, <1>5, <3>1, BeforeAppend DEF WindowOK, InOrder
  <2> QED BY <1>4, <1>6, <2>1, <2>3, <2>4 DEF InOrder
<1>10. NoneMissing(w)'
  <2> SUFFICES ASSUME ~mHasShutdown, NEW k \in 1..n, Done(w) < k
               PROVE  Contains(events[w], k) \/ Contains(mPendingWrNotifierEvents'[w], k)
    BY <1>4, <1>6 DEF NoneMissing
  <2>1. CASE k = n
    BY <2>1, <1>1, <1>3, <1>5, ContainsAppend
  <2>2. CASE k # n
    <3>1. k \in 1..Announced(w)
      BY <2>2, <1>1, <1>2
    <3>2. Contains(events[w], k) \/ Contains(mPendingWrNotifierEvents[w], k)
      BY <3>1 DEF WindowOK, NoneMissing
    <3> QED BY <3>2, <1>1, <1>3, <1>5, ContainsAppend
  <2> QED BY <2>1, <2>2
<1> QED BY <1>7, <1>8, <1>9, <1>10 DEF WindowOK

(* AddRenderer's fresh entry has nothing to account for. *)
LEMMA WindowAdded ==
  ASSUME IInv, NEW w \in Windows, NewRenderer(w), w \notin mWindowInfos
  PROVE  WindowOK(w)'
<1>1. Queued("NewRenderer", w)
  <2>1. mThread \in Seq(Runnable) /\ mThread # <<>> /\ Head(mThread) = Run("NewRenderer", w)
    BY DEF IInv, TypeOK, ThreadTypeOK, NewRenderer, RunnableTaken
  <2>2. 1 \in 1..Len(mThread) /\ mThread[1] = Run("NewRenderer", w)
    BY <2>1, TailElements
  <2> QED BY <2>2 DEF Queued
<1>2. Fresh(w) /\ mPendingFrames[w] = <<>> /\ mPendingFrameBuild[w] = 0
  BY <1>1 DEF IInv, AddedOnce
<1>3. /\ issued'[w] = 0 /\ built'[w] = 0 /\ busy'[w] = 0 /\ backend'[w] = <<>>
      /\ mPendingFrames'[w] = <<>> /\ mPendingFrameBuild'[w] = 0
      /\ events'[w] = <<>> /\ mPendingWrNotifierEvents'[w] = <<>>
  BY <1>2 DEF Fresh, NewRenderer, backendVars, frameVars
<1>4. Done(w)' = 0 /\ Announced(w)' = 0
  <2>1. Len(mPendingFrames'[w]) = 0
    BY <1>3
  <2>2. issued'[w] - Len(mPendingFrames'[w]) = 0
    <3>1. issued'[w] = 0
      BY <1>3
    <3>2. \A a, b : a = 0 /\ b = 0 => a - b = 0
      OBVIOUS
    <3> QED BY <2>1, <3>1, <3>2
  <2> QED BY <1>3, <2>2 DEF Done, Announced
<1>5. Counts(w)'
  BY <1>3, <1>4 DEF Counts
<1>6. InBackend(w)'
  BY <1>3 DEF InBackend, AsksOnlyFor, AsksForSome
<1>7. InOrder(w)'
  BY <1>3 DEF InOrder, Ordered, Before
<1>8. NoneMissing(w)'
  BY <1>4 DEF NoneMissing
<1> QED BY <1>5, <1>6, <1>7, <1>8 DEF WindowOK

(* Swapping the pending events in loses none and keeps their order. *)
LEMMA BatchTaken ==
  ASSUME IInv, NEW w \in mWindowInfos, HandleWrNotifierEvents(w)
  PROVE  WindowOK(w)'
<1> w \in Windows /\ TypeOK /\ WindowOK(w)
  BY DEF IInv, TypeOK, InfoTypeOK
<1>1. FrameData(w)' = FrameData(w) /\ backend'[w] = backend[w] /\ mHasShutdown' = mHasShutdown
  BY DEF HandleWrNotifierEvents, FrameData, frameVars, backendVars, mHasShutdown
<1>2. CASE events'[w] = events[w] /\ mPendingWrNotifierEvents'[w] = mPendingWrNotifierEvents[w]
  BY <1>1, <1>2, WindowUntouched DEF QueueData
<1>3. CASE /\ events[w] = <<>> /\ events'[w] = mPendingWrNotifierEvents[w]
           /\ mPendingWrNotifierEvents'[w] = <<>>
  <2>1. /\ Ordered(mPendingWrNotifierEvents'[w], Done(w), Announced(w))
        /\ Before(events'[w], mPendingWrNotifierEvents'[w])
        /\ \A n : ~Contains(events[w], n)
    BY <1>3 DEF Ordered, Before, Contains
  <2> QED BY <1>1, <1>3, <2>1, QueuesChange DEF WindowOK, InOrder, InBackend
<1> QED BY <1>2, <1>3 DEF HandleWrNotifierEvents, TakePendingEvents, TypeOK, QueueTypeOK, InfoTypeOK

(* DecPendingFrameCount pops the frame whose event was handled. *)
LEMMA FramePopped ==
  ASSUME IInv, NEW w \in mWindowInfos, w = cur, FrameHandled, IsFrame(Head(events[w]))
  PROVE  WindowOK(w)'
<1> DEFINE n == Head(events[w]).id
<1> w \in Windows /\ TypeOK /\ WindowOK(w)
  BY DEF IInv, TypeOK, InfoTypeOK
<1>1. /\ issued[w] \in Nat /\ built[w] \in Nat /\ busy[w] \in Nat
      /\ events[w] \in Seq(Event) /\ mPendingWrNotifierEvents[w] \in Seq(Event)
      /\ mPendingFrames[w] \in Seq(Nat) /\ Len(mPendingFrames[w]) \in Nat
      /\ Done(w) \in Int /\ Announced(w) \in Int
  BY WindowTypes
<1>2. HandlingFrame
  BY DEF FrameHandled, HandlingFrame
<1>3. events[w] # <<>> /\ n = Done(w) + 1 /\ mPendingFrames[w] # <<>>
  BY <1>1, <1>2 DEF IInv, Handling, FrameHandled
<1>4. /\ issued'[w] = issued[w] /\ built'[w] = built[w] /\ busy'[w] = busy[w]
      /\ mPendingFrameBuild'[w] = mPendingFrameBuild[w]
      /\ backend'[w] = backend[w] /\ mHasShutdown' = mHasShutdown
      /\ mPendingWrNotifierEvents'[w] = mPendingWrNotifierEvents[w]
  BY DEF FrameHandled, backendVars, frameVars, mHasShutdown
<1>5. mPendingFrames'[w] = Tail(mPendingFrames[w]) /\ events'[w] = Tail(events[w])
  BY DEF FrameHandled, DecPendingFrameCount, PopEvent, TypeOK, InfoTypeOK, QueueTypeOK
<1>6. /\ Len(mPendingFrames'[w]) = Len(mPendingFrames[w]) - 1
      /\ \A i \in 1..Len(mPendingFrames'[w]) : mPendingFrames'[w][i] = mPendingFrames[w][i + 1]
  BY <1>1, <1>3, <1>5, TailElements
<1>7. Done(w)' = Done(w) + 1
  <2> DEFINE len == Len(mPendingFrames[w])
             asked == issued[w]
  <2>1. Done(w) = asked - len
    BY DEF Done
  <2>2. Done(w)' = asked - (len - 1)
    BY <1>4, <1>6 DEF Done
  <2>3. asked \in Int /\ len \in Int
    BY <1>1
  <2> HIDE DEF len, asked
  <2> QED BY <2>1, <2>2, <2>3
<1>8. Announced(w)' = Announced(w)
  BY <1>4 DEF Announced
<1>9. n \in Nat /\ n <= Announced(w) /\ Announced(w) <= built[w]
  <2>1. 1 \in 1..Len(events[w]) /\ Head(events[w]) = events[w][1] /\ events[w][1] \in Event
    BY <1>1, <1>3, TailElements
  <2>2. n \in Nat
    BY <2>1 DEF Event
  <2>3. n <= Announced(w)
    BY <2>1 DEF WindowOK, InOrder, Ordered
  <2>4. Announced(w) <= built[w]
    BY <1>1 DEF Announced
  <2> QED BY <2>2, <2>3, <2>4
<1> HIDE DEF n
<1>10. Counts(w)'
  <2>1. \A i \in 1..Len(mPendingFrames'[w]) : mPendingFrames'[w][i] = (Done(w) + 1) + i
    <3> SUFFICES ASSUME NEW i \in 1..Len(mPendingFrames'[w])
                 PROVE  mPendingFrames'[w][i] = (Done(w) + 1) + i
      OBVIOUS
    <3>1. i \in Int /\ i + 1 \in 1..Len(mPendingFrames[w])
      BY <1>1, <1>6
    <3>2. mPendingFrames'[w][i] = Done(w) + (i + 1)
      BY <1>6, <3>1 DEF WindowOK, Counts
    <3> QED BY <1>1, <3>1, <3>2
  <2>2. 0 <= Done(w) + 1 /\ Done(w) + 1 <= built[w]
    BY <1>1, <1>3, <1>9 DEF WindowOK, Counts
  <2>3. Len(mPendingFrames'[w]) <= 2
    BY <1>1, <1>6 DEF WindowOK, Counts
  <2>4. mPendingFrameBuild'[w] = issued'[w] - built'[w] /\ mPendingFrameBuild'[w] <= 1
    BY <1>4 DEF WindowOK, Counts
  <2> QED BY <1>4, <1>7, <2>1, <2>2, <2>3, <2>4 DEF Counts
<1>11. InBackend(w)'
  <2>1. ASSUME busy[w] # 0 PROVE busy[w] = built[w] /\ busy[w] > Done(w) + 1
    <3>1. busy[w] = built[w] /\ Announced(w) = built[w] - 1
      BY <2>1 DEF WindowOK, InBackend, Announced
    <3> QED BY <1>1, <1>3, <1>9, <3>1
  <2> QED BY <1>4, <1>7, <2>1 DEF WindowOK, InBackend
<1>12. InOrder(w)'
  <2>1. Ordered(events'[w], Done(w) + 1, Announced(w))
    BY <1>1, <1>3, <1>5, OrderedTail DEF WindowOK, InOrder, n
  <2>2. Ordered(mPendingWrNotifierEvents[w], Done(w) + 1, Announced(w))
    <3>1. 1 \in 1..Len(events[w]) /\ Head(events[w]) = events[w][1]
      BY <1>1, <1>3, TailElements
    <3>2. \A j \in 1..Len(mPendingWrNotifierEvents[w]) :
            IsFrame(mPendingWrNotifierEvents[w][j])
              => Done(w) + 1 < mPendingWrNotifierEvents[w][j].id
      BY <1>3, <3>1 DEF WindowOK, InOrder, Before, n
    <3> QED BY <3>2 DEF WindowOK, InOrder, Ordered
  <2>3. Before(events'[w], mPendingWrNotifierEvents[w])
    BY <1>1, <1>3, <1>5, BeforeTail DEF WindowOK, InOrder
  <2> QED BY <1>4, <1>7, <1>8, <2>1, <2>2, <2>3 DEF InOrder
<1>13. NoneMissing(w)'
  <2>1. ASSUME ~mHasShutdown, NEW k \in 1..Announced(w), Done(w) + 1 < k
        PROVE  Contains(events'[w], k) \/ Contains(mPendingWrNotifierEvents[w], k)
    <3>1. Done(w) < k /\ n # k
      BY <1>1, <1>3, <2>1
    <3>2. Contains(events[w], k) \/ Contains(mPendingWrNotifierEvents[w], k)
      BY <2>1, <3>1 DEF WindowOK, NoneMissing
    <3> QED BY <1>1, <1>3, <1>5, <3>1, <3>2, ContainsTail DEF n
  <2> QED BY <1>4, <1>7, <1>8, <2>1 DEF NoneMissing
<1> QED BY <1>10, <1>11, <1>12, <1>13 DEF WindowOK

(* The first frame in the events queue is the oldest one pending. *)
LEMMA OldestFirst ==
  ASSUME IInv, NEW w \in mWindowInfos, ~mHasShutdown,
         events[w] # <<>>, IsFrame(Head(events[w]))
  PROVE  Head(events[w]).id = Done(w) + 1 /\ Len(mPendingFrames[w]) > 0
<1> DEFINE n == Head(events[w]).id
           k == Done(w) + 1
<1> w \in Windows /\ TypeOK /\ WindowOK(w)
  BY DEF IInv, TypeOK, InfoTypeOK
<1>1. /\ issued[w] \in Nat /\ built[w] \in Nat /\ busy[w] \in Nat
      /\ events[w] \in Seq(Event) /\ mPendingWrNotifierEvents[w] \in Seq(Event)
      /\ Len(mPendingFrames[w]) \in Nat
      /\ Done(w) \in Int /\ Announced(w) \in Int
  BY WindowTypes
<1>2. 1 \in 1..Len(events[w]) /\ Head(events[w]) = events[w][1] /\ events[w][1] \in Event
  BY <1>1, TailElements
<1>3. n \in Nat /\ Done(w) < n /\ n <= Announced(w) /\ Announced(w) <= built[w]
  BY <1>1, <1>2 DEF WindowOK, InOrder, Ordered, Event, Announced
<1>4. 0 <= Done(w) /\ built[w] <= issued[w]
  <2>1. mPendingFrameBuild[w] \in Nat
    <3>1. mPendingFrameBuild[w] \in 0..255
      BY WindowTypes
    <3>2. \A i \in 0..255 : i \in Nat
      OBVIOUS
    <3> HIDE DEF k, n
    <3> QED BY <3>1, <3>2
  <2>2. 0 <= Done(w) /\ mPendingFrameBuild[w] = issued[w] - built[w]
    BY DEF WindowOK, Counts
  <2> HIDE DEF k, n
  <2> QED BY <1>1, <2>1, <2>2
<1>5. k \in 1..Announced(w) /\ Done(w) < k /\ k <= n
  <2> DEFINE done == Done(w)
             last == Announced(w)
  <2>1. done \in Int /\ last \in Int /\ n \in Int /\ 0 <= done /\ done < n /\ n <= last
    BY <1>1, <1>3, <1>4
  <2> HIDE DEF done, last, n
  <2>2. done + 1 \in 1..last /\ done < done + 1 /\ done + 1 <= n
    BY <2>1
  <2> QED BY <2>2 DEF done, last
<1>6. Contains(events[w], k) \/ Contains(mPendingWrNotifierEvents[w], k)
  BY <1>5 DEF WindowOK, NoneMissing
<1>7. n = k
  <2>1. CASE Contains(events[w], k)
    <3>1. PICK i \in 1..Len(events[w]) : IsFrame(events[w][i]) /\ events[w][i].id = k
      BY <2>1 DEF Contains
    <3>2. CASE i = 1
      BY <1>2, <3>1, <3>2
    <3>3. CASE i # 1
      <4>1. 1 < i
        BY <1>1, <3>3
      <4>2. n < k
        BY <1>2, <3>1, <4>1 DEF WindowOK, InOrder, Ordered
      <4> QED BY <1>1, <1>3, <1>5, <4>2
    <3> QED BY <3>2, <3>3
  <2>2. CASE Contains(mPendingWrNotifierEvents[w], k)
    <3>1. n < k
      BY <1>2, <2>2 DEF WindowOK, InOrder, Before, Contains
    <3> QED BY <1>1, <1>3, <1>5, <3>1
  <2> QED BY <1>6, <2>1, <2>2
<1>8. Len(mPendingFrames[w]) > 0
  <2>1. Done(w) < issued[w]
    BY <1>1, <1>3, <1>4
  <2> QED BY <1>1, <2>1 DEF Done
<1> QED BY <1>7, <1>8

-----------------------------------------------------------------------------
(* Every step keeps WindowOK. *)
LEMMA StepWindowOK ==
  ASSUME IInv, [Next]_vars, NEW x \in mWindowInfos'
  PROVE  WindowOK(x)'
<1> x \in Windows /\ TypeOK /\ \A w \in mWindowInfos : WindowOK(w)
  <2>1. TypeOK' /\ TypeOK /\ \A w \in mWindowInfos : WindowOK(w)
    BY StepTypeOK DEF IInv
  <2> QED BY <2>1 DEF TypeOK, InfoTypeOK
<1>s. ASSUME x \in mWindowInfos, mHasShutdown => mHasShutdown',
             FrameData(x)' = FrameData(x), QueueData(x)' = QueueData(x)
      PROVE  WindowOK(x)'
  BY <1>s, WindowUntouched
<1>1. ASSUME NEW w \in Windows, Create(w) PROVE WindowOK(x)'
  BY <1>s, <1>1 DEF Create, FrameData, QueueData, infoVars, queueVars, backendVars,
     frameVars, mHasShutdown
<1>2. CASE TaskReturns
  BY <1>s, <1>2 DEF TaskReturns, FrameData, QueueData, infoVars, queueVars, backendVars,
     frameVars, mHasShutdown
<1>3. ASSUME NEW w \in Windows, Composite(w) PROVE WindowOK(x)'
  BY <1>s, <1>3 DEF Composite, FrameData, QueueData, infoVars, queueVars, backendVars,
     frameVars, mHasShutdown
<1>4. ASSUME NEW w \in Windows, RetrySkippedComposite(w) PROVE WindowOK(x)'
  BY <1>s, <1>4 DEF RetrySkippedComposite, FrameData, QueueData, infoVars, queueVars,
     backendVars, frameVars, mHasShutdown
<1>5. ASSUME NEW w \in Windows, GenerateFrame(w) PROVE WindowOK(x)'
  <2>1. CASE x # w
    <3>1. /\ mWindowInfos' = mWindowInfos /\ mHasShutdown' = mHasShutdown
          /\ mPendingWrNotifierEvents' = mPendingWrNotifierEvents /\ events' = events
          /\ busy' = busy /\ built' = built
      BY <1>5 DEF GenerateFrame, queueVars, mHasShutdown
    <3>2. backend'[x] = backend[x] /\ issued'[x] = issued[x]
      BY <1>5, <2>1 DEF GenerateFrame, SendToBackend, TypeOK, BackendTypeOK
    <3>3. /\ mPendingFrames'[x] = mPendingFrames[x]
          /\ mPendingFrameBuild'[x] = mPendingFrameBuild[x]
      BY <1>5, <2>1 DEF GenerateFrame, IncPendingFrameCount, TypeOK, InfoTypeOK
    <3> QED BY <1>s, <3>1, <3>2, <3>3 DEF FrameData, QueueData
  <2>2. CASE x = w
    BY <1>5, <2>2, FrameIssued DEF GenerateFrame
  <2> QED BY <2>1, <2>2
<1>6. ASSUME NEW w \in Windows, SetFrameStartTime(w) PROVE WindowOK(x)'
  <2>1. CASE x # w
    BY <1>s, <1>6, <2>1 DEF SetFrameStartTime, SendToBackend, FrameData, QueueData,
       infoVars, queueVars, backendVars, frameVars, mHasShutdown, TypeOK, InfoTypeOK,
       QueueTypeOK, BackendTypeOK
  <2>2. CASE x = w
    <3>1. /\ x \in mWindowInfos /\ FrameData(x)' = FrameData(x) /\ mHasShutdown' = mHasShutdown
          /\ backend'[x] = Append(backend[x], ExternalEvent("FrameStartTime"))
          /\ events'[x] = events[x]
          /\ mPendingWrNotifierEvents'[x] = mPendingWrNotifierEvents[x]
      BY <1>6, <2>2 DEF SetFrameStartTime, SendToBackend, FrameData, infoVars, queueVars,
         backendVars, frameVars, mHasShutdown, TypeOK, InfoTypeOK, QueueTypeOK,
         BackendTypeOK
    <3>2. ExternalEvent("FrameStartTime") \in Message /\ ~AsksFor(ExternalEvent("FrameStartTime"))
      BY EventTypes DEF ExternalEvents, ExternalEvent, AsksFor
    <3> QED BY <3>1, <3>2, MessageSent
  <2> QED BY <2>1, <2>2
<1>7. ASSUME NEW w \in Windows, SetClearColor(w) PROVE WindowOK(x)'
  BY <1>s, <1>7 DEF SetClearColor, FrameData, QueueData, infoVars, queueVars, backendVars,
     frameVars, mHasShutdown
<1>8. ASSUME NEW w \in Windows, WaitFlushed(w) PROVE WindowOK(x)'
  <2>1. CASE x # w
    BY <1>s, <1>8, <2>1 DEF WaitFlushed, SendToBackend, FrameData, QueueData, infoVars,
       queueVars, backendVars, frameVars, mHasShutdown, TypeOK, InfoTypeOK, QueueTypeOK,
       BackendTypeOK
  <2>2. CASE x = w
    <3>1. /\ x \in mWindowInfos /\ FrameData(x)' = FrameData(x) /\ mHasShutdown' = mHasShutdown
          /\ backend'[x] = Append(backend[x], ExternalEvent("WaitFlushed"))
          /\ events'[x] = events[x]
          /\ mPendingWrNotifierEvents'[x] = mPendingWrNotifierEvents[x]
      BY <1>8, <2>2 DEF WaitFlushed, SendToBackend, FrameData, infoVars, queueVars,
         backendVars, frameVars, mHasShutdown, TypeOK, InfoTypeOK, QueueTypeOK,
         BackendTypeOK
    <3>2. ExternalEvent("WaitFlushed") \in Message /\ ~AsksFor(ExternalEvent("WaitFlushed"))
      BY EventTypes DEF ExternalEvents, ExternalEvent, AsksFor
    <3> QED BY <3>1, <3>2, MessageSent
  <2> QED BY <2>1, <2>2
<1>9. ASSUME NEW w \in Windows, DestroyRenderer(w) PROVE WindowOK(x)'
  <2>1. CASE x # w
    BY <1>s, <1>9, <2>1 DEF DestroyRenderer, FrameData, QueueData, infoVars, queueVars,
       backendVars, frameVars, mHasShutdown, TypeOK, InfoTypeOK, QueueTypeOK,
       BackendTypeOK
  <2>2. CASE x = w
    <3> DEFINE stop == [tag |-> "Stop", id |-> 0]
               remove == ExternalEvent("RemoveRenderer")
    <3>1. /\ x \in mWindowInfos /\ FrameData(x)' = FrameData(x) /\ mHasShutdown' = mHasShutdown
          /\ backend'[x] = Append(Append(backend[x], stop), remove)
          /\ events'[x] = events[x]
          /\ mPendingWrNotifierEvents'[x] = mPendingWrNotifierEvents[x]
      BY <1>9, <2>2 DEF DestroyRenderer, FrameData, infoVars, queueVars, backendVars,
         frameVars, mHasShutdown, TypeOK, InfoTypeOK, QueueTypeOK, BackendTypeOK
    <3>2. stop \in Message /\ ~AsksFor(stop) /\ remove \in Message /\ ~AsksFor(remove)
      BY EventTypes DEF ExternalEvents, ExternalEvent, AsksFor, Message
    <3>3. backend[x] \in Seq(Message) /\ Append(backend[x], stop) \in Seq(Message)
      BY <3>2, WindowTypes
    <3> HIDE DEF stop, remove
    <3>4. /\ AsksOnlyFor(Append(backend[x], stop), issued[x])
          /\ AsksForSome(Append(backend[x], stop)) => AsksForSome(backend[x])
      BY <3>1, <3>2, <3>3, AsksAppend DEF WindowOK, InBackend
    <3>5. /\ AsksOnlyFor(backend'[x], issued[x])
          /\ AsksForSome(backend'[x]) => AsksForSome(Append(backend[x], stop))
      BY <3>1, <3>2, <3>3, <3>4, AsksAppend
    <3> QED BY <3>1, <3>4, <3>5, QueuesChange DEF WindowOK, InOrder
  <2> QED BY <2>1, <2>2
<1>10. CASE SessionsRebuilt
  BY <1>s, <1>10 DEF SessionsRebuilt, FrameData, QueueData, infoVars, queueVars,
     backendVars, frameVars, mHasShutdown
<1>11. ASSUME NEW w \in Windows, FrameBuilt(w) PROVE WindowOK(x)'
  <2>1. CASE x # w
    BY <1>s, <1>11, <2>1 DEF FrameBuilt, BackendTakes, DecPendingFrameBuildCount,
       FrameData, QueueData, infoVars, queueVars, backendVars, frameVars, mHasShutdown,
       TypeOK, InfoTypeOK, QueueTypeOK, BackendTypeOK
  <2>2. CASE x = w
    BY <1>11, <2>2, FrameTaken DEF FrameBuilt
  <2> QED BY <2>1, <2>2
<1>12. ASSUME NEW w \in Windows, NewFrameReady(w) PROVE WindowOK(x)'
  <2>1. CASE x # w
    BY <1>s, <1>12, <2>1 DEF NewFrameReady, PostWrNotifierEvent, FrameData, QueueData,
       infoVars, queueVars, backendVars, frameVars, mHasShutdown, TypeOK, InfoTypeOK,
       QueueTypeOK, BackendTypeOK
  <2>2. CASE x = w
    BY <1>12, <2>2, FrameAnnounced DEF NewFrameReady
  <2> QED BY <2>1, <2>2
<1>13. ASSUME NEW w \in Windows, ForwardExternalEvent(w) PROVE WindowOK(x)'
  <2>1. CASE x # w
    BY <1>s, <1>13, <2>1 DEF ForwardExternalEvent, BackendTakes, PostWrNotifierEvent,
       FrameData, QueueData, infoVars, queueVars, backendVars, frameVars, mHasShutdown,
       TypeOK, InfoTypeOK, QueueTypeOK, BackendTypeOK
  <2>2. CASE x = w
    <3> DEFINE e == Head(backend[x])
    <3>1. /\ x \in mWindowInfos /\ FrameData(x)' = FrameData(x) /\ mHasShutdown' = mHasShutdown
          /\ backend[x] # <<>> /\ backend'[x] = Tail(backend[x])
          /\ e.tag \in ExternalEvents
          /\ events'[x] = events[x]
          /\ mPendingWrNotifierEvents'[x] = Append(mPendingWrNotifierEvents[x], e)
      BY <1>13, <2>2 DEF ForwardExternalEvent, BackendTakes, ForwardedTags,
         PostWrNotifierEvent, FrameData, infoVars, queueVars, backendVars, frameVars,
         mHasShutdown, TypeOK, InfoTypeOK, QueueTypeOK, BackendTypeOK
    <3>2. e \in Event /\ ~IsFrame(e)
      <4>1. e \in Message
        BY <3>1, WindowTypes, TailElements
      <4> QED BY <3>1, <4>1 DEF Message, Event, IsFrame, ExternalEvents
    <3>3. /\ AsksOnlyFor(backend'[x], issued[x])
          /\ AsksForSome(backend'[x]) => AsksForSome(backend[x])
      BY <3>1, MessageTaken
    <3> HIDE DEF e
    <3> QED BY <3>1, <3>2, <3>3, EventPosted
  <2> QED BY <2>1, <2>2
<1>14. ASSUME NEW w \in Windows, StopRenderBackend(w) PROVE WindowOK(x)'
  <2>1. CASE x # w
    BY <1>s, <1>14, <2>1 DEF StopRenderBackend, BackendTakes, FrameData, QueueData,
       infoVars, queueVars, backendVars, frameVars, mHasShutdown, TypeOK, InfoTypeOK,
       QueueTypeOK, BackendTypeOK
  <2>2. CASE x = w
    <3>1. /\ x \in mWindowInfos /\ FrameData(x)' = FrameData(x) /\ mHasShutdown' = mHasShutdown
          /\ backend[x] # <<>> /\ backend'[x] = Tail(backend[x])
          /\ events'[x] = events[x]
          /\ mPendingWrNotifierEvents'[x] = mPendingWrNotifierEvents[x]
      BY <1>14, <2>2 DEF StopRenderBackend, BackendTakes, FrameData, infoVars, queueVars,
         backendVars, frameVars, mHasShutdown, TypeOK, InfoTypeOK, QueueTypeOK,
         BackendTypeOK
    <3> QED BY <3>1, MessageTaken, QueuesChange DEF WindowOK, InOrder
  <2> QED BY <2>1, <2>2
<1>15. ASSUME NEW w \in Windows, WakeUp(w) PROVE WindowOK(x)'
  <2>1. CASE x # w
    BY <1>s, <1>15, <2>1 DEF WakeUp, PostWrNotifierEvent, FrameData, QueueData, infoVars,
       queueVars, backendVars, frameVars, mHasShutdown, TypeOK, InfoTypeOK, QueueTypeOK,
       BackendTypeOK
  <2>2. CASE x = w
    <3>1. /\ x \in mWindowInfos /\ FrameData(x)' = FrameData(x) /\ mHasShutdown' = mHasShutdown
          /\ backend'[x] = backend[x]
          /\ events'[x] = events[x]
          /\ mPendingWrNotifierEvents'[x] = Append(mPendingWrNotifierEvents[x], WakeUpEvent)
      BY <1>15, <2>2 DEF WakeUp, PostWrNotifierEvent, FrameData, infoVars, queueVars,
         backendVars, frameVars, mHasShutdown, TypeOK, InfoTypeOK, QueueTypeOK,
         BackendTypeOK
    <3>2. WakeUpEvent \in Event /\ ~IsFrame(WakeUpEvent)
      BY EventTypes DEF WakeUpEvent, IsFrame
    <3> QED BY <3>1, <3>2, EventPosted DEF WindowOK, InBackend
  <2> QED BY <2>1, <2>2
<1>16. ASSUME NEW w \in Windows, NewRenderer(w) PROVE WindowOK(x)'
  <2>1. CASE x \in mWindowInfos
    BY <1>s, <1>16, <2>1 DEF NewRenderer, FrameData, QueueData, backendVars, frameVars,
       mHasShutdown
  <2>2. CASE x \notin mWindowInfos
    BY <1>16, <2>2, WindowAdded DEF NewRenderer, AddRenderer
  <2> QED BY <2>1, <2>2
<1>17. ASSUME NEW w \in Windows, RunSetClearColor(w) PROVE WindowOK(x)'
  BY <1>s, <1>17 DEF RunSetClearColor, FrameData, QueueData, infoVars, queueVars,
     backendVars, frameVars, mHasShutdown
<1>18. ASSUME NEW w \in Windows, EraseQueue(w) PROVE WindowOK(x)'
  <2>1. x # w
    <3>1. Queued("EraseQueue", w)
      <4>1. mThread \in Seq(Runnable) /\ mThread # <<>> /\ Head(mThread) = Run("EraseQueue", w)
        BY <1>18 DEF EraseQueue, RunnableTaken, TypeOK, ThreadTypeOK
      <4>2. 1 \in 1..Len(mThread) /\ mThread[1] = Run("EraseQueue", w)
        BY <4>1, TailElements
      <4> QED BY <4>2 DEF Queued
    <3>2. x \in mWindowInfos
      BY <1>18 DEF EraseQueue, infoVars
    <3> QED BY <3>1, <3>2 DEF IInv, AddedOnce
  <2> QED BY <1>s, <1>18, <2>1 DEF EraseQueue, FrameData, QueueData, infoVars, queueVars,
     backendVars, frameVars, mHasShutdown, TypeOK, InfoTypeOK, QueueTypeOK, BackendTypeOK
<1>19. ASSUME NEW w \in Windows, HandleWrNotifierEvents(w) PROVE WindowOK(x)'
  <2>1. CASE x # w
    BY <1>s, <1>19, <2>1 DEF HandleWrNotifierEvents, TakePendingEvents, FrameData,
       QueueData, infoVars, queueVars, backendVars, frameVars, mHasShutdown, TypeOK,
       InfoTypeOK, QueueTypeOK, BackendTypeOK
  <2>2. CASE x = w
    BY <1>19, <2>2, BatchTaken DEF HandleWrNotifierEvents
  <2> QED BY <2>1, <2>2
<1>20. CASE ShutDownTask
  BY <1>s, <1>20 DEF ShutDownTask, FrameData, QueueData, infoVars, queueVars, backendVars,
     frameVars, mHasShutdown
<1>21. CASE RunExternalEvent
  <2>1. CASE x # cur
    BY <1>s, <1>21, <2>1 DEF RunExternalEvent, AtEvent, PopEvent, FrameData, QueueData,
       infoVars, queueVars, backendVars, frameVars, mHasShutdown, TypeOK, InfoTypeOK,
       QueueTypeOK, BackendTypeOK
  <2>2. CASE x = cur
    <3>1. /\ x \in mWindowInfos /\ FrameData(x)' = FrameData(x) /\ mHasShutdown' = mHasShutdown
          /\ backend'[x] = backend[x] /\ events[x] # <<>>
          /\ ~IsFrame(Head(events[x])) 
          /\ events'[x] = Tail(events[x])
          /\ mPendingWrNotifierEvents'[x] = mPendingWrNotifierEvents[x]
      BY <1>21, <2>2 DEF RunExternalEvent, AtEvent, PopEvent, IsFrame, FrameData, infoVars,
         queueVars, backendVars, frameVars, mHasShutdown, TypeOK, InfoTypeOK, QueueTypeOK,
         BackendTypeOK
    <3> QED BY <3>1, EventPopped
  <2> QED BY <2>1, <2>2
<1>22. CASE RunRemoveRenderer
  <2>1. CASE x # cur
    BY <1>s, <1>22, <2>1 DEF RunRemoveRenderer, RemoveRenderer, EraseWindowInfo, PopEvent,
       FrameData, QueueData, infoVars, queueVars, backendVars, frameVars, mHasShutdown,
       TypeOK, InfoTypeOK, QueueTypeOK, BackendTypeOK
  <2>2. CASE x = cur
    <3>1. mHasShutdown
      BY <1>22, <2>2 DEF RunRemoveRenderer, RemoveRenderer, EraseWindowInfo
    <3>2. /\ x \in mWindowInfos /\ FrameData(x)' = FrameData(x) /\ mHasShutdown' = mHasShutdown
          /\ backend'[x] = backend[x] /\ events[x] # <<>>
          /\ events'[x] = Tail(events[x])
          /\ mPendingWrNotifierEvents'[x] = mPendingWrNotifierEvents[x]
      BY <1>22, <2>2, <3>1 DEF RunRemoveRenderer, RemoveRenderer, AtEvent, PopEvent,
         FrameData, infoVars, queueVars, backendVars, frameVars, mHasShutdown, TypeOK,
         InfoTypeOK, QueueTypeOK, BackendTypeOK
    <3> QED BY <3>1, <3>2, EventPopped
  <2> QED BY <2>1, <2>2
<1>23. CASE HandleFrameOneDoc
  <2>1. CASE x # cur \/ ~mHasShutdown
    BY <1>s, <1>23, <2>1 DEF HandleFrameOneDoc, AtEvent, PopEvent, FrameData, QueueData,
       infoVars, queueVars, backendVars, frameVars, mHasShutdown, TypeOK, InfoTypeOK,
       QueueTypeOK, BackendTypeOK
  <2>2. CASE x = cur /\ mHasShutdown
    <3>1. /\ x \in mWindowInfos /\ FrameData(x)' = FrameData(x) /\ mHasShutdown' = mHasShutdown
          /\ backend'[x] = backend[x] /\ events[x] # <<>>
          /\ events'[x] = Tail(events[x])
          /\ mPendingWrNotifierEvents'[x] = mPendingWrNotifierEvents[x]
      BY <1>23, <2>2 DEF HandleFrameOneDoc, AtEvent, PopEvent, FrameData, infoVars,
         queueVars, backendVars, frameVars, mHasShutdown, TypeOK, InfoTypeOK, QueueTypeOK,
         BackendTypeOK
    <3> QED BY <2>2, <3>1, EventPopped
  <2> QED BY <2>1, <2>2
<1>24. CASE StartRender
  BY <1>s, <1>24 DEF StartRender, FrameData, QueueData, infoVars, queueVars, backendVars,
     frameVars, mHasShutdown
<1>25. CASE FinishRender
  BY <1>s, <1>25 DEF FinishRender, FrameData, QueueData, infoVars, queueVars, backendVars,
     frameVars, mHasShutdown
<1>26. CASE FrameHandled
  <2>1. CASE x # cur
    BY <1>s, <1>26, <2>1 DEF FrameHandled, DecPendingFrameCount, PopEvent, FrameData,
       QueueData, infoVars, queueVars, backendVars, frameVars, mHasShutdown, TypeOK,
       InfoTypeOK, QueueTypeOK, BackendTypeOK
  <2>2. CASE x = cur /\ IsFrame(Head(events[cur]))
    <3>1. cur \in mWindowInfos
      BY <1>26, <2>2 DEF FrameHandled
    <3> QED BY <1>26, <2>2, <3>1, FramePopped
  <2>3. CASE x = cur /\ ~IsFrame(Head(events[cur]))
    <3>1. /\ x \in mWindowInfos /\ FrameData(x)' = FrameData(x) /\ mHasShutdown' = mHasShutdown
          /\ backend'[x] = backend[x] /\ events[x] # <<>>
          /\ events'[x] = Tail(events[x])
          /\ mPendingWrNotifierEvents'[x] = mPendingWrNotifierEvents[x]
      BY <1>26, <2>3 DEF FrameHandled, PopEvent, IInv, Handling, FrameData, infoVars,
         queueVars, backendVars, frameVars, mHasShutdown, TypeOK, InfoTypeOK, QueueTypeOK,
         BackendTypeOK
    <3> QED BY <2>3, <3>1, EventPopped
  <2> QED BY <2>1, <2>2, <2>3
<1>27. CASE HandlerReturns
  BY <1>s, <1>27 DEF HandlerReturns, FrameData, QueueData, infoVars, queueVars,
     backendVars, frameVars, mHasShutdown
<1>28. CASE ShutDown
  BY <1>s, <1>28 DEF ShutDown, FrameData, QueueData, infoVars, queueVars, backendVars,
     frameVars, mHasShutdown
<1>29. CASE PostShutDownTask
  BY <1>s, <1>29 DEF PostShutDownTask, FrameData, QueueData, infoVars, queueVars,
     backendVars, frameVars, mHasShutdown
<1>30. CASE ThreadJoined
  BY <1>s, <1>30 DEF ThreadJoined, FrameData, QueueData, infoVars, queueVars, backendVars,
     frameVars, mHasShutdown
<1>31. CASE UNCHANGED vars
  BY <1>s, <1>31 DEF vars, FrameData, QueueData, infoVars, queueVars, backendVars,
     frameVars, mHasShutdown
<1> QED
  BY <1>1, <1>2, <1>3, <1>4, <1>5, <1>6, <1>7, <1>8, <1>9, <1>10, <1>11, <1>12, <1>13,
     <1>14, <1>15, <1>16, <1>17, <1>18, <1>19, <1>20, <1>21, <1>22, <1>23, <1>24, <1>25,
     <1>26, <1>27, <1>28, <1>29, <1>30, <1>31 DEF Next, CompositorStep, BackendStep,
     RunnableStep, RenderThreadStep, MainStep

-----------------------------------------------------------------------------
(* AddedOnce: the queue of runnables. *)
QueueKept(x) ==
  /\ Queued("NewRenderer", x)' => Queued("NewRenderer", x)
  /\ QueuedOnce("NewRenderer", x)'
  /\ Queued("EraseQueue", x)' => Queued("EraseQueue", x)

(* A step that posts and takes nothing. *)
LEMMA QueueSame ==
  ASSUME NEW x \in Windows, AddedOnce(x), mThread' = mThread
  PROVE  QueueKept(x)
  BY DEF QueueKept, Queued, QueuedOnce, AddedOnce

(* Posting another runnable. *)
LEMMA QueuePosted ==
  ASSUME mThread \in Seq(Runnable), NEW tag, NEW x, NEW r \in Runnable,
         r # Run(tag, x), mThread' = Append(mThread, r)
  PROVE  /\ Queued(tag, x)' => Queued(tag, x)
         /\ QueuedOnce(tag, x) => QueuedOnce(tag, x)'
<1> DEFINE q == mThread'
<1>1. /\ Len(q) = Len(mThread) + 1 /\ Len(mThread) \in Nat
      /\ \A i \in 1..Len(mThread) : q[i] = mThread[i]
      /\ q[Len(mThread) + 1] = r
  BY AppendElements
<1>2. \A i \in 1..Len(q) : q[i] = Run(tag, x) => i \in 1..Len(mThread) /\ mThread[i] = q[i]
  <2>1. \A i \in 1..Len(q) : i = Len(mThread) + 1 \/ i \in 1..Len(mThread)
    BY <1>1
  <2> QED BY <1>1, <2>1
<1> QED BY <1>2 DEF Queued, QueuedOnce

(* Taking the first runnable. *)
LEMMA QueueTaken ==
  ASSUME mThread \in Seq(Runnable), mThread # <<>>, mThread' = Tail(mThread), NEW tag, NEW x
  PROVE  /\ Queued(tag, x)' => Queued(tag, x)
         /\ QueuedOnce(tag, x) => QueuedOnce(tag, x)'
         /\ Head(mThread) = Run(tag, x) => Queued(tag, x)
         /\ Head(mThread) = Run(tag, x) /\ QueuedOnce(tag, x) => ~Queued(tag, x)'
<1> DEFINE q == mThread'
<1>1. /\ Len(mThread) \in Nat /\ Len(mThread) >= 1 /\ Len(q) = Len(mThread) - 1
      /\ \A i \in 1..Len(q) : q[i] = mThread[i + 1]
      /\ Head(mThread) = mThread[1]
  BY TailElements
<1>2. \A i \in 1..Len(q) : i + 1 \in 1..Len(mThread) /\ i + 1 # 1
  BY <1>1
<1>3. 1 \in 1..Len(mThread)
  BY <1>1
<1>4. Queued(tag, x)' => Queued(tag, x)
  BY <1>1, <1>2 DEF Queued
<1>5. QueuedOnce(tag, x) => QueuedOnce(tag, x)'
  BY <1>1, <1>2 DEF QueuedOnce
<1>6. Head(mThread) = Run(tag, x) => Queued(tag, x)
  BY <1>1, <1>3 DEF Queued
<1>7. Head(mThread) = Run(tag, x) /\ QueuedOnce(tag, x) => ~Queued(tag, x)'
  BY <1>1, <1>2, <1>3 DEF Queued, QueuedOnce
<1> QED BY <1>4, <1>5, <1>6, <1>7

(* A handler, SetClearColor or ShutDownTask runnable is no NewRenderer and  *)
(* no EraseQueue.                                                           *)
LEMMA KeptWhenPosted ==
  ASSUME TypeOK, NEW x \in Windows, AddedOnce(x), NEW w \in Windows \cup {NoWindow},
         NEW tag \in {"HandleWrNotifierEvents", "SetClearColor", "ShutDownTask"},
         PostRunnable(tag, w)
  PROVE  QueueKept(x)
<1>1. /\ mThread \in Seq(Runnable) /\ Run(tag, w) \in Runnable
      /\ Run(tag, w) # Run("NewRenderer", x) /\ Run(tag, w) # Run("EraseQueue", x)
  BY DEF TypeOK, ThreadTypeOK, Run, Runnable
<1> QED BY <1>1, QueuePosted DEF PostRunnable, AddedOnce, QueueKept

(* Taking a runnable adds none. *)
LEMMA KeptWhenTaken ==
  ASSUME TypeOK, NEW x \in Windows, AddedOnce(x), NEW tag, NEW w,
         RunnableTaken(tag, w), mThread' = Tail(mThread)
  PROVE  QueueKept(x)
<1>1. mThread \in Seq(Runnable) /\ mThread # <<>>
  BY DEF TypeOK, ThreadTypeOK, RunnableTaken
<1> QED BY <1>1, QueueTaken DEF AddedOnce, QueueKept

(* PostWrNotifierEvents posts at most a handler. *)
LEMMA KeptWhenHandlerPosted ==
  ASSUME TypeOK, NEW x \in Windows, AddedOnce(x), NEW w \in Windows,
         PostWrNotifierEvents(w) \/ UNCHANGED mThread
  PROVE  QueueKept(x)
  BY QueueSame, KeptWhenPosted DEF PostWrNotifierEvents

(* What a step must show of a window to keep AddedOnce. *)
LEMMA AddedKept ==
  ASSUME NEW x \in Windows, AddedOnce(x), QueueKept(x),
         Fresh(x) => Fresh(x)',
         life'[x] = "unused" => life[x] = "unused",
         x \in docHandle => x \in docHandle',
         x \in mWindowInfos' => x \in mWindowInfos,
         x \notin mWindowInfos' => mPendingFrames'[x] = <<>> /\ mPendingFrameBuild'[x] = 0
  PROVE  AddedOnce(x)'
  BY DEF AddedOnce, QueueKept

(* Every step keeps AddedOnce: no renderer is added a second time. *)
LEMMA StepAddedOnce ==
  ASSUME IInv, [Next]_vars, NEW x \in Windows
  PROVE  AddedOnce(x)'
<1> TypeOK /\ AddedOnce(x) /\ Accepted /\ Handling
  BY DEF IInv
<1> DEFINE Kept == /\ Fresh(x) => Fresh(x)'
                   /\ life'[x] = "unused" => life[x] = "unused"
                   /\ x \in docHandle => x \in docHandle'
                   /\ x \in mWindowInfos' => x \in mWindowInfos
                   /\ x \notin mWindowInfos' => mPendingFrames'[x] = <<>> /\ mPendingFrameBuild'[x] = 0
<1>k. ASSUME QueueKept(x), Kept PROVE AddedOnce(x)'
  BY <1>k, AddedKept
<1>1. ASSUME NEW w \in Windows, Create(w) PROVE AddedOnce(x)'
  <2>1. CASE x # w
    <3>1. mThread \in Seq(Runnable) /\ Run("NewRenderer", w) \in Runnable
      BY <1>1 DEF TypeOK, ThreadTypeOK, Run, Runnable
    <3>2. Run("NewRenderer", w) # Run("NewRenderer", x) /\ Run("NewRenderer", w) # Run("EraseQueue", x)
      BY <2>1 DEF Run
    <3>3. QueueKept(x)
      BY <1>1, <3>1, <3>2, QueuePosted DEF Create, PostRunnable, AddedOnce, QueueKept
    <3>4. Kept
      BY <1>1, <2>1 DEF Create, Fresh, AddedOnce, infoVars, queueVars, compVars,
         backendVars, frameVars, TypeOK, InfoTypeOK, QueueTypeOK, CompTypeOK,
         BackendTypeOK
    <3> QED BY <1>k, <3>3, <3>4
  <2>2. CASE x = w
    <3>1. mThread \in Seq(Runnable) /\ Run("NewRenderer", x) \in Runnable
      BY DEF TypeOK, ThreadTypeOK, Run, Runnable
    <3>2. Fresh(x) /\ ~Queued("NewRenderer", x)
      BY <1>1, <2>2 DEF Create, AddedOnce
    <3>3. Fresh(x)' /\ life'[x] # "unused"
      BY <1>1, <2>2, <3>2 DEF Create, Fresh, infoVars, queueVars, compVars, backendVars,
         frameVars, TypeOK, InfoTypeOK, QueueTypeOK, CompTypeOK, BackendTypeOK
    <3>4. QueuedOnce("NewRenderer", x)'
      <4> DEFINE q == mThread'
      <4>1. /\ Len(q) = Len(mThread) + 1 /\ Len(mThread) \in Nat
            /\ \A i \in 1..Len(mThread) : q[i] = mThread[i]
        BY <1>1, <2>2, <3>1, AppendElements DEF Create, PostRunnable
      <4>2. \A i \in 1..Len(q) : i = Len(mThread) + 1 \/ i \in 1..Len(mThread)
        BY <4>1
      <4>3. \A i \in 1..Len(q) : q[i] = Run("NewRenderer", x) => i = Len(mThread) + 1
        BY <3>2, <4>1, <4>2 DEF Queued
      <4> QED BY <4>3 DEF QueuedOnce
    <3>5. Queued("EraseQueue", x)' => Queued("EraseQueue", x)
      <4> Run("NewRenderer", x) # Run("EraseQueue", x)
        BY DEF Run
      <4> QED BY <1>1, <2>2, <3>1, QueuePosted DEF Create, PostRunnable
    <3>6. mPendingFrames'[x] = <<>> /\ mPendingFrameBuild'[x] = 0
      BY <1>1, <3>2 DEF Create, AddedOnce, Fresh, infoVars
    <3> QED BY <3>2, <3>3, <3>4, <3>5, <3>6 DEF AddedOnce, Fresh
  <2> QED BY <2>1, <2>2
<1>2. CASE TaskReturns
  <2>1. QueueKept(x)
    BY <1>2, QueueSame DEF TaskReturns
  <2>2. Kept
    BY <1>2 DEF TaskReturns, Fresh, AddedOnce, infoVars, queueVars, compVars, backendVars,
       frameVars, TypeOK, InfoTypeOK, QueueTypeOK, CompTypeOK, BackendTypeOK
  <2> QED BY <1>k, <2>1, <2>2
<1>3. ASSUME NEW w \in Windows, Composite(w) PROVE AddedOnce(x)'
  <2>1. QueueKept(x)
    BY <1>3, QueueSame DEF Composite
  <2>2. Kept
    BY <1>3 DEF Composite, Fresh, AddedOnce, infoVars, queueVars, compVars, backendVars,
       frameVars, TypeOK, InfoTypeOK, QueueTypeOK, CompTypeOK, BackendTypeOK
  <2> QED BY <1>k, <2>1, <2>2
<1>4. ASSUME NEW w \in Windows, RetrySkippedComposite(w) PROVE AddedOnce(x)'
  <2>1. QueueKept(x)
    BY <1>4, QueueSame DEF RetrySkippedComposite
  <2>2. Kept
    BY <1>4 DEF RetrySkippedComposite, Fresh, AddedOnce, infoVars, queueVars, compVars,
       backendVars, frameVars, TypeOK, InfoTypeOK, QueueTypeOK, CompTypeOK, BackendTypeOK
  <2> QED BY <1>k, <2>1, <2>2
<1>5. ASSUME NEW w \in Windows, GenerateFrame(w) PROVE AddedOnce(x)'
  <2>1. QueueKept(x)
    BY <1>5, QueueSame DEF GenerateFrame
  <2>2. Kept
    <3>1. ~Fresh(w)
      BY <1>5 DEF GenerateFrame, Accepted, Fresh
    <3>2. /\ mWindowInfos' = mWindowInfos /\ docHandle' = docHandle /\ life' = life
          /\ mPendingWrNotifierEvents' = mPendingWrNotifierEvents /\ events' = events
          /\ busy' = busy /\ built' = built
      BY <1>5 DEF GenerateFrame, queueVars
    <3>3. x # w => backend'[x] = backend[x] /\ issued'[x] = issued[x]
      BY <1>5 DEF GenerateFrame, SendToBackend, TypeOK, BackendTypeOK
    <3>4. x \notin mWindowInfos => /\ mPendingFrames'[x] = mPendingFrames[x]
                                  /\ mPendingFrameBuild'[x] = mPendingFrameBuild[x]
      BY <1>5 DEF GenerateFrame, IncPendingFrameCount, TypeOK, InfoTypeOK
    <3> QED BY <3>1, <3>2, <3>3, <3>4 DEF Fresh, AddedOnce
  <2> QED BY <1>k, <2>1, <2>2
<1>6. ASSUME NEW w \in Windows, SetFrameStartTime(w) PROVE AddedOnce(x)'
  <2>1. QueueKept(x)
    BY <1>6, QueueSame DEF SetFrameStartTime
  <2>2. Kept
    BY <1>6 DEF SetFrameStartTime, SendToBackend, Fresh, AddedOnce, infoVars, queueVars,
       compVars, backendVars, frameVars, TypeOK, InfoTypeOK, QueueTypeOK, CompTypeOK,
       BackendTypeOK
  <2> QED BY <1>k, <2>1, <2>2
<1>7. ASSUME NEW w \in Windows, SetClearColor(w) PROVE AddedOnce(x)'
  <2>1. QueueKept(x)
    BY <1>7, KeptWhenPosted DEF SetClearColor
  <2>2. Kept
    BY <1>7 DEF SetClearColor, Fresh, AddedOnce, infoVars, queueVars, compVars,
       backendVars, frameVars, TypeOK, InfoTypeOK, QueueTypeOK, CompTypeOK, BackendTypeOK
  <2> QED BY <1>k, <2>1, <2>2
<1>8. ASSUME NEW w \in Windows, WaitFlushed(w) PROVE AddedOnce(x)'
  <2>1. QueueKept(x)
    BY <1>8, QueueSame DEF WaitFlushed
  <2>2. Kept
    BY <1>8 DEF WaitFlushed, SendToBackend, Fresh, AddedOnce, infoVars, queueVars,
       compVars, backendVars, frameVars, TypeOK, InfoTypeOK, QueueTypeOK, CompTypeOK,
       BackendTypeOK
  <2> QED BY <1>k, <2>1, <2>2
<1>9. ASSUME NEW w \in Windows, DestroyRenderer(w) PROVE AddedOnce(x)'
  <2>1. QueueKept(x)
    BY <1>9, QueueSame DEF DestroyRenderer
  <2>2. Kept
    <3>1. ~Fresh(w) /\ life[w] = "live" /\ life'[w] = "destroying"
      BY <1>9 DEF DestroyRenderer, Fresh, TypeOK, CompTypeOK
    <3>2. CASE x = w
      BY <1>9, <3>1, <3>2 DEF DestroyRenderer, AddedOnce
    <3>3. CASE x # w
      <4>1. backend'[x] = backend[x] /\ life'[x] = life[x]
        BY <1>9, <3>3 DEF DestroyRenderer, TypeOK, CompTypeOK, BackendTypeOK
      <4>2. /\ mWindowInfos' = mWindowInfos /\ docHandle' = docHandle
            /\ mPendingFrames' = mPendingFrames /\ mPendingFrameBuild' = mPendingFrameBuild
            /\ mPendingWrNotifierEvents' = mPendingWrNotifierEvents
            /\ events' = events /\ busy' = busy /\ issued' = issued /\ built' = built
        BY <1>9 DEF DestroyRenderer, queueVars, frameVars
      <4> QED BY <4>1, <4>2 DEF Fresh, AddedOnce
    <3> QED BY <3>2, <3>3
  <2> QED BY <1>k, <2>1, <2>2
<1>10. CASE SessionsRebuilt
  <2>1. QueueKept(x)
    BY <1>10, QueueSame DEF SessionsRebuilt
  <2>2. Kept
    BY <1>10 DEF SessionsRebuilt, Fresh, AddedOnce, infoVars, queueVars, compVars,
       backendVars, frameVars, TypeOK, InfoTypeOK, QueueTypeOK, CompTypeOK, BackendTypeOK
  <2> QED BY <1>k, <2>1, <2>2
<1>11. ASSUME NEW w \in Windows, FrameBuilt(w) PROVE AddedOnce(x)'
  <2>1. QueueKept(x)
    BY <1>11, QueueSame DEF FrameBuilt
  <2>2. Kept
    <3>1. ~Fresh(w)
      BY <1>11 DEF FrameBuilt, BackendTakes, Fresh
    <3>2. /\ mWindowInfos' = mWindowInfos /\ docHandle' = docHandle /\ life' = life
          /\ mPendingFrames' = mPendingFrames /\ events' = events
          /\ mPendingWrNotifierEvents' = mPendingWrNotifierEvents /\ issued' = issued
      BY <1>11 DEF FrameBuilt, queueVars, compVars
    <3>3. x # w => /\ backend'[x] = backend[x]
                   /\ busy'[x] = busy[x] /\ built'[x] = built[x]
      BY <1>11 DEF FrameBuilt, BackendTakes, TypeOK, BackendTypeOK
    <3>4. x \notin mWindowInfos => mPendingFrameBuild'[x] = mPendingFrameBuild[x]
      BY <1>11 DEF FrameBuilt, DecPendingFrameBuildCount, TypeOK, InfoTypeOK
    <3> QED BY <3>1, <3>2, <3>3, <3>4 DEF Fresh, AddedOnce
  <2> QED BY <1>k, <2>1, <2>2
<1>12. ASSUME NEW w \in Windows, NewFrameReady(w) PROVE AddedOnce(x)'
  <2>1. QueueKept(x)
    BY <1>12, KeptWhenHandlerPosted DEF NewFrameReady, PostWrNotifierEvent
  <2>2. Kept
    BY <1>12 DEF NewFrameReady, PostWrNotifierEvent, Fresh, AddedOnce, infoVars,
       queueVars, compVars, backendVars, frameVars, TypeOK, InfoTypeOK, QueueTypeOK,
       CompTypeOK, BackendTypeOK
  <2> QED BY <1>k, <2>1, <2>2
<1>13. ASSUME NEW w \in Windows, ForwardExternalEvent(w) PROVE AddedOnce(x)'
  <2>1. QueueKept(x)
    BY <1>13, KeptWhenHandlerPosted DEF ForwardExternalEvent, PostWrNotifierEvent
  <2>2. Kept
    BY <1>13 DEF ForwardExternalEvent, PostWrNotifierEvent, BackendTakes, Fresh,
       AddedOnce, infoVars, queueVars, compVars, backendVars, frameVars, TypeOK,
       InfoTypeOK, QueueTypeOK, CompTypeOK, BackendTypeOK
  <2> QED BY <1>k, <2>1, <2>2
<1>14. ASSUME NEW w \in Windows, StopRenderBackend(w) PROVE AddedOnce(x)'
  <2>1. QueueKept(x)
    BY <1>14, QueueSame DEF StopRenderBackend
  <2>2. Kept
    BY <1>14 DEF StopRenderBackend, BackendTakes, Fresh, AddedOnce, infoVars, queueVars,
       compVars, backendVars, frameVars, TypeOK, InfoTypeOK, QueueTypeOK, CompTypeOK,
       BackendTypeOK
  <2> QED BY <1>k, <2>1, <2>2
<1>15. ASSUME NEW w \in Windows, WakeUp(w) PROVE AddedOnce(x)'
  <2>1. QueueKept(x)
    BY <1>15, KeptWhenHandlerPosted DEF WakeUp, PostWrNotifierEvent
  <2>2. Kept
    BY <1>15 DEF WakeUp, PostWrNotifierEvent, Fresh, AddedOnce, infoVars, queueVars,
       compVars, backendVars, frameVars, TypeOK, InfoTypeOK, QueueTypeOK, CompTypeOK,
       BackendTypeOK
  <2> QED BY <1>k, <2>1, <2>2
<1>16. ASSUME NEW w \in Windows, NewRenderer(w) PROVE AddedOnce(x)'
  <2>1. mThread \in Seq(Runnable) /\ mThread # <<>> /\ Head(mThread) = Run("NewRenderer", w)
    BY <1>16 DEF NewRenderer, RunnableTaken, TypeOK, ThreadTypeOK
  <2>2. QueueKept(x)
    BY <1>16, KeptWhenTaken DEF NewRenderer
  <2>3. CASE x # w
    <3> Kept
      BY <1>16, <2>3 DEF NewRenderer, AddRenderer, Fresh, AddedOnce, backendVars,
         frameVars, TypeOK, InfoTypeOK, QueueTypeOK, CompTypeOK, BackendTypeOK
    <3> QED BY <1>k, <2>2
  <2>4. CASE x = w
    <3>1. Queued("NewRenderer", x) /\ ~Queued("NewRenderer", x)'
      BY <1>16, <2>1, <2>4, QueueTaken DEF NewRenderer, AddedOnce
    <3>2. Fresh(x) /\ life[x] # "unused" /\ ~Queued("EraseQueue", x)
      BY <3>1 DEF AddedOnce, Fresh
    <3>3. /\ life'[x] = life[x]
          /\ x \in mWindowInfos' => x \in docHandle'
          /\ mPendingFrames'[x] = <<>> /\ mPendingFrameBuild'[x] = 0
      BY <1>16, <2>4, <3>2 DEF NewRenderer, AddRenderer, AddedOnce, Fresh
    <3> QED BY <2>2, <3>1, <3>2, <3>3 DEF AddedOnce, QueueKept
  <2> QED BY <2>3, <2>4
<1>17. ASSUME NEW w \in Windows, RunSetClearColor(w) PROVE AddedOnce(x)'
  <2>1. QueueKept(x)
    BY <1>17, KeptWhenTaken DEF RunSetClearColor
  <2>2. Kept
    BY <1>17 DEF RunSetClearColor, Fresh, AddedOnce, infoVars, queueVars, compVars,
       backendVars, frameVars, TypeOK, InfoTypeOK, QueueTypeOK, CompTypeOK, BackendTypeOK
  <2> QED BY <1>k, <2>1, <2>2
<1>18. ASSUME NEW w \in Windows, EraseQueue(w) PROVE AddedOnce(x)'
  <2>1. QueueKept(x)
    BY <1>18, KeptWhenTaken DEF EraseQueue
  <2>2. Kept
    BY <1>18 DEF EraseQueue, Fresh, AddedOnce, infoVars, queueVars, compVars, backendVars,
       frameVars, TypeOK, InfoTypeOK, QueueTypeOK, CompTypeOK, BackendTypeOK
  <2> QED BY <1>k, <2>1, <2>2
<1>19. ASSUME NEW w \in Windows, HandleWrNotifierEvents(w) PROVE AddedOnce(x)'
  <2>1. QueueKept(x)
    BY <1>19, KeptWhenTaken DEF HandleWrNotifierEvents
  <2>2. Kept
    BY <1>19 DEF HandleWrNotifierEvents, TakePendingEvents, Fresh, AddedOnce, infoVars,
       queueVars, compVars, backendVars, frameVars, TypeOK, InfoTypeOK, QueueTypeOK,
       CompTypeOK, BackendTypeOK
  <2> QED BY <1>k, <2>1, <2>2
<1>20. CASE ShutDownTask
  <2>1. QueueKept(x)
    BY <1>20, KeptWhenTaken DEF ShutDownTask
  <2>2. Kept
    BY <1>20 DEF ShutDownTask, Fresh, AddedOnce, infoVars, queueVars, compVars,
       backendVars, frameVars, TypeOK, InfoTypeOK, QueueTypeOK, CompTypeOK, BackendTypeOK
  <2> QED BY <1>k, <2>1, <2>2
<1>21. CASE RunExternalEvent
  <2>1. QueueKept(x)
    BY <1>21, QueueSame DEF RunExternalEvent
  <2>2. Kept
    BY <1>21 DEF RunExternalEvent, AtEvent, PopEvent, Fresh, AddedOnce, infoVars,
       queueVars, compVars, backendVars, frameVars, TypeOK, InfoTypeOK, QueueTypeOK,
       CompTypeOK, BackendTypeOK
  <2> QED BY <1>k, <2>1, <2>2
<1>22. CASE RunRemoveRenderer
  <2>0. cur \in Windows /\ events[cur] # <<>> /\ cur \in docHandle
    BY <1>22, AtEventType DEF RunRemoveRenderer, AtEvent, Handling
  <2>1. Kept
    <3>1. Fresh(x) => x # cur
      BY <2>0 DEF Fresh
    <3>2. CASE mHasShutdown
      BY <1>22, <2>0, <3>1, <3>2 DEF RunRemoveRenderer, RemoveRenderer, PopEvent, Fresh,
         AddedOnce, infoVars, queueVars, compVars, backendVars, frameVars, TypeOK,
         InfoTypeOK, QueueTypeOK, CompTypeOK, BackendTypeOK
    <3>3. CASE ~mHasShutdown /\ x # cur
      BY <1>22, <2>0, <3>3 DEF RunRemoveRenderer, RemoveRenderer, EraseWindowInfo,
         PopEvent, Fresh, AddedOnce, infoVars, queueVars, compVars, backendVars,
         frameVars, TypeOK, InfoTypeOK, QueueTypeOK, CompTypeOK, BackendTypeOK
    <3>4. CASE ~mHasShutdown /\ x = cur
      BY <1>22, <2>0, <3>1, <3>4 DEF RunRemoveRenderer, RemoveRenderer, EraseWindowInfo,
         TypeOK, InfoTypeOK, QueueTypeOK, CompTypeOK, BackendTypeOK
    <3> QED BY <3>2, <3>3, <3>4
  <2>2. CASE mThread' = mThread
    BY <1>k, <2>1, <2>2, QueueSame
  <2>3. CASE PostRunnable("EraseQueue", cur) /\ ~mHasShutdown
    <3>1. mThread \in Seq(Runnable) /\ Run("EraseQueue", cur) \in Runnable
      BY <2>0 DEF TypeOK, ThreadTypeOK, Run, Runnable
    <3>2. Run("EraseQueue", cur) # Run("NewRenderer", x)
      BY DEF Run
    <3>3. /\ Queued("NewRenderer", x)' => Queued("NewRenderer", x)
          /\ QueuedOnce("NewRenderer", x)'
      BY <2>3, <3>1, <3>2, QueuePosted DEF PostRunnable, AddedOnce
    <3>4. CASE x # cur
      <4> Run("EraseQueue", cur) # Run("EraseQueue", x)
        BY <3>4 DEF Run
      <4> QueueKept(x)
        BY <2>3, <3>1, <3>3, QueuePosted DEF PostRunnable, QueueKept
      <4> QED BY <1>k, <2>1
    <3>5. CASE x = cur
      <4>1. x \in docHandle' /\ x \notin mWindowInfos'
        BY <1>22, <2>0, <2>3, <3>5 DEF RunRemoveRenderer, RemoveRenderer, EraseWindowInfo
      <4> QED BY <2>1, <3>3, <4>1 DEF AddedOnce
    <3> QED BY <3>4, <3>5
  <2> QED BY <1>22, <2>2, <2>3 DEF RunRemoveRenderer, RemoveRenderer
<1>23. CASE HandleFrameOneDoc
  <2>1. QueueKept(x)
    BY <1>23, QueueSame DEF HandleFrameOneDoc
  <2>2. Kept
    BY <1>23 DEF HandleFrameOneDoc, AtEvent, PopEvent, Fresh, AddedOnce, infoVars,
       queueVars, compVars, backendVars, frameVars, TypeOK, InfoTypeOK, QueueTypeOK,
       CompTypeOK, BackendTypeOK
  <2> QED BY <1>k, <2>1, <2>2
<1>24. CASE StartRender
  <2>1. QueueKept(x)
    BY <1>24, QueueSame DEF StartRender
  <2>2. Kept
    BY <1>24 DEF StartRender, Fresh, AddedOnce, infoVars, queueVars, compVars,
       backendVars, frameVars, TypeOK, InfoTypeOK, QueueTypeOK, CompTypeOK, BackendTypeOK
  <2> QED BY <1>k, <2>1, <2>2
<1>25. CASE FinishRender
  <2>1. QueueKept(x)
    BY <1>25, QueueSame DEF FinishRender
  <2>2. Kept
    BY <1>25 DEF FinishRender, Fresh, AddedOnce, infoVars, queueVars, compVars,
       backendVars, frameVars, TypeOK, InfoTypeOK, QueueTypeOK, CompTypeOK, BackendTypeOK
  <2> QED BY <1>k, <2>1, <2>2
<1>26. CASE FrameHandled
  <2>1. QueueKept(x)
    BY <1>26, QueueSame DEF FrameHandled
  <2>2. Kept
    BY <1>26 DEF FrameHandled, PopEvent, DecPendingFrameCount, Handling, Fresh, AddedOnce,
       infoVars, queueVars, compVars, backendVars, frameVars, TypeOK, InfoTypeOK,
       QueueTypeOK, CompTypeOK, BackendTypeOK
  <2> QED BY <1>k, <2>1, <2>2
<1>27. CASE HandlerReturns
  <2>0. cur \in Windows
    BY <1>27 DEF HandlerReturns, TypeOK, HandlerTypeOK
  <2>1. QueueKept(x)
    BY <1>27, <2>0, KeptWhenHandlerPosted DEF HandlerReturns, RepostIfEventsLeft
  <2>2. Kept
    BY <1>27 DEF HandlerReturns, Fresh, AddedOnce, infoVars, queueVars, compVars,
       backendVars, frameVars, TypeOK, InfoTypeOK, QueueTypeOK, CompTypeOK, BackendTypeOK
  <2> QED BY <1>k, <2>1, <2>2
<1>28. CASE ShutDown
  <2>1. QueueKept(x)
    BY <1>28, QueueSame DEF ShutDown
  <2>2. Kept
    BY <1>28 DEF ShutDown, Fresh, AddedOnce, infoVars, queueVars, compVars, backendVars,
       frameVars, TypeOK, InfoTypeOK, QueueTypeOK, CompTypeOK, BackendTypeOK
  <2> QED BY <1>k, <2>1, <2>2
<1>29. CASE PostShutDownTask
  <2>1. QueueKept(x)
    BY <1>29, KeptWhenPosted DEF PostShutDownTask
  <2>2. Kept
    BY <1>29 DEF PostShutDownTask, Fresh, AddedOnce, infoVars, queueVars, compVars,
       backendVars, frameVars, TypeOK, InfoTypeOK, QueueTypeOK, CompTypeOK, BackendTypeOK
  <2> QED BY <1>k, <2>1, <2>2
<1>30. CASE ThreadJoined
  <2>1. QueueKept(x)
    BY <1>30, QueueSame DEF ThreadJoined
  <2>2. Kept
    BY <1>30 DEF ThreadJoined, Fresh, AddedOnce, infoVars, queueVars, compVars,
       backendVars, frameVars, TypeOK, InfoTypeOK, QueueTypeOK, CompTypeOK, BackendTypeOK
  <2> QED BY <1>k, <2>1, <2>2
<1>31. CASE UNCHANGED vars
  <2>1. QueueKept(x)
    BY <1>31, QueueSame DEF vars
  <2>2. Kept
    BY <1>31 DEF vars, Fresh, AddedOnce, infoVars, queueVars, compVars, backendVars,
       frameVars
  <2> QED BY <1>k, <2>1, <2>2
<1> QED
  BY <1>1, <1>2, <1>3, <1>4, <1>5, <1>6, <1>7, <1>8, <1>9, <1>10, <1>11, <1>12, <1>13,
     <1>14, <1>15, <1>16, <1>17, <1>18, <1>19, <1>20, <1>21, <1>22, <1>23, <1>24, <1>25,
     <1>26, <1>27, <1>28, <1>29, <1>30, <1>31 DEF Next, CompositorStep, BackendStep,
     RunnableStep, RenderThreadStep, MainStep

-----------------------------------------------------------------------------
(* Every step keeps what TooManyPendingFrames found until the frame is      *)
(* counted.                                                                 *)
LEMMA StepAccepted ==
  ASSUME IInv, [Next]_vars
  PROVE  Accepted'
<1> TypeOK /\ Accepted /\ Handling /\ \A w \in Windows : AddedOnce(w)
  BY DEF IInv
<1>k. ASSUME UNCHANGED <<comp, life>>, mWindowInfos' \subseteq mWindowInfos,
             \A x \in mWindowInfos' :
               /\ mPendingFrameBuild[x] = 0 => mPendingFrameBuild'[x] = 0
               /\ Len(mPendingFrames[x]) <= 1 => Len(mPendingFrames'[x]) <= 1
      PROVE  Accepted'
  BY <1>k DEF Accepted
<1>n. ASSUME comp'.op # "accepted" PROVE Accepted'
  BY <1>n DEF Accepted
<1>1. ASSUME NEW w \in Windows, Create(w) PROVE Accepted'
  BY <1>n, <1>1 DEF Create, CompWaits, CompDoes, CompReturns
<1>2. CASE TaskReturns
  BY <1>n, <1>2 DEF TaskReturns, CompWaits, CompDoes, CompReturns
<1>3. ASSUME NEW w \in Windows, Composite(w) PROVE Accepted'
  <2>1. CASE comp'.op # "accepted"
    BY <1>n, <2>1
  <2>2. CASE comp'.op = "accepted"
    <3>1. comp' = [op |-> "accepted", window |-> w] /\ life[w] = "live" /\ ~TooManyPendingFrames(w)
      BY <1>3, <2>2 DEF Composite, TryComposite, CompDoes, CompIdle
    <3>2. w \in mWindowInfos => mPendingFrameBuild[w] = 0 /\ Len(mPendingFrames[w]) <= 1
      <4>1. mPendingFrameBuild[w] \in 0..255 /\ Len(mPendingFrames[w]) \in Nat
        BY WindowTypes
      <4>2. /\ \A a \in 0..255 : ~(a > 0) => a = 0
            /\ \A b \in Nat : ~(b > 1) => b <= 1
        OBVIOUS
      <4> QED BY <3>1, <4>1, <4>2 DEF TooManyPendingFrames, TooManyFramesPending
    <3> QED BY <1>3, <3>1, <3>2 DEF Composite, infoVars, Accepted
  <2> QED BY <2>1, <2>2
<1>4. ASSUME NEW w \in Windows, RetrySkippedComposite(w) PROVE Accepted'
  <2>1. CASE comp'.op # "accepted"
    BY <1>n, <2>1
  <2>2. CASE comp'.op = "accepted"
    <3>1. comp' = [op |-> "accepted", window |-> w] /\ life[w] = "live" /\ ~TooManyPendingFrames(w)
      BY <1>4, <2>2 DEF RetrySkippedComposite, TryComposite, CompDoes, CompIdle
    <3>2. w \in mWindowInfos => mPendingFrameBuild[w] = 0 /\ Len(mPendingFrames[w]) <= 1
      <4>1. mPendingFrameBuild[w] \in 0..255 /\ Len(mPendingFrames[w]) \in Nat
        BY WindowTypes
      <4>2. /\ \A a \in 0..255 : ~(a > 0) => a = 0
            /\ \A b \in Nat : ~(b > 1) => b <= 1
        OBVIOUS
      <4> QED BY <3>1, <4>1, <4>2 DEF TooManyPendingFrames, TooManyFramesPending
    <3> QED BY <1>4, <3>1, <3>2 DEF RetrySkippedComposite, infoVars, Accepted
  <2> QED BY <2>1, <2>2
<1>5. ASSUME NEW w \in Windows, GenerateFrame(w) PROVE Accepted'
  BY <1>n, <1>5 DEF GenerateFrame, CompWaits, CompDoes, CompReturns
<1>6. ASSUME NEW w \in Windows, SetFrameStartTime(w) PROVE Accepted'
  BY <1>k, <1>6 DEF SetFrameStartTime, compVars, infoVars
<1>7. ASSUME NEW w \in Windows, SetClearColor(w) PROVE Accepted'
  BY <1>k, <1>7 DEF SetClearColor, compVars, infoVars
<1>8. ASSUME NEW w \in Windows, WaitFlushed(w) PROVE Accepted'
  BY <1>n, <1>8 DEF WaitFlushed, CompWaits, CompDoes, CompReturns
<1>9. ASSUME NEW w \in Windows, DestroyRenderer(w) PROVE Accepted'
  BY <1>n, <1>9 DEF DestroyRenderer, CompWaits, CompDoes, CompReturns
<1>10. CASE SessionsRebuilt
  BY <1>k, <1>10 DEF SessionsRebuilt, compVars, infoVars
<1>11. ASSUME NEW w \in Windows, FrameBuilt(w) PROVE Accepted'
  <2>1. ASSUME w \in mWindowInfos PROVE mPendingFrameBuild[w] = 1
    <3>1. /\ issued[w] \in Nat /\ built[w] \in Nat /\ backend[w] \in Seq(Message)
          /\ mPendingFrameBuild[w] \in 0..255
      BY WindowTypes
    <3>2. WindowOK(w)
      BY <2>1 DEF IInv
    <3>3. issued[w] = built[w] + 1
      BY <1>11, <3>1, <3>2, AsksTail DEF FrameBuilt, BackendTakes, AsksFor, WindowOK, InBackend
    <3> QED BY <3>1, <3>2, <3>3 DEF WindowOK, Counts
  <2>2. \A x \in mWindowInfos : mPendingFrameBuild[x] = 0 => mPendingFrameBuild'[x] = 0
    BY <1>11, <2>1 DEF FrameBuilt, DecPendingFrameBuildCount, TypeOK, InfoTypeOK
  <2> QED BY <1>k, <1>11, <2>2 DEF FrameBuilt, compVars
<1>12. ASSUME NEW w \in Windows, NewFrameReady(w) PROVE Accepted'
  BY <1>k, <1>12 DEF NewFrameReady, compVars, infoVars
<1>13. ASSUME NEW w \in Windows, ForwardExternalEvent(w) PROVE Accepted'
  BY <1>k, <1>13 DEF ForwardExternalEvent, compVars, infoVars
<1>14. ASSUME NEW w \in Windows, StopRenderBackend(w) PROVE Accepted'
  BY <1>k, <1>14 DEF StopRenderBackend, compVars, infoVars
<1>15. ASSUME NEW w \in Windows, WakeUp(w) PROVE Accepted'
  BY <1>k, <1>15 DEF WakeUp, compVars, infoVars
<1>16. ASSUME NEW w \in Windows, NewRenderer(w) PROVE Accepted'
  <2>1. Fresh(w)
    <3>1. mThread \in Seq(Runnable) /\ mThread # <<>> /\ Head(mThread) = Run("NewRenderer", w)
      BY <1>16 DEF NewRenderer, RunnableTaken, TypeOK, ThreadTypeOK
    <3> QED BY <1>16, <3>1, QueueTaken DEF NewRenderer, AddedOnce
  <2>2. comp.op = "accepted" => comp.window # w
    BY <2>1 DEF Fresh, Accepted
  <2> QED BY <1>16, <2>2 DEF NewRenderer, AddRenderer, Accepted
<1>17. ASSUME NEW w \in Windows, RunSetClearColor(w) PROVE Accepted'
  BY <1>k, <1>17 DEF RunSetClearColor, compVars, infoVars
<1>18. ASSUME NEW w \in Windows, EraseQueue(w) PROVE Accepted'
  BY <1>k, <1>18 DEF EraseQueue, compVars, infoVars
<1>19. ASSUME NEW w \in Windows, HandleWrNotifierEvents(w) PROVE Accepted'
  BY <1>k, <1>19 DEF HandleWrNotifierEvents, compVars, infoVars
<1>20. CASE ShutDownTask
  BY <1>k, <1>20 DEF ShutDownTask, compVars, infoVars
<1>21. CASE RunExternalEvent
  BY <1>k, <1>21 DEF RunExternalEvent, compVars, infoVars
<1>22. CASE RunRemoveRenderer
  <2>1. cur \in Windows
    BY <1>22, AtEventType DEF RunRemoveRenderer
  <2>2. CASE mHasShutdown
    BY <1>k, <1>22, <2>2 DEF RunRemoveRenderer, RemoveRenderer, infoVars
  <2>3. CASE ~mHasShutdown
    BY <1>k, <1>22, <2>1, <2>3 DEF RunRemoveRenderer, RemoveRenderer, EraseWindowInfo, TypeOK, InfoTypeOK
  <2> QED BY <2>2, <2>3
<1>23. CASE HandleFrameOneDoc
  BY <1>k, <1>23 DEF HandleFrameOneDoc, compVars, infoVars
<1>24. CASE StartRender
  BY <1>k, <1>24 DEF StartRender, compVars, infoVars
<1>25. CASE FinishRender
  BY <1>k, <1>25 DEF FinishRender, compVars, infoVars
<1>26. CASE FrameHandled
  <2>1. ASSUME NEW x \in mWindowInfos, Len(mPendingFrames[x]) <= 1
        PROVE  Len(mPendingFrames'[x]) <= 1
    <3> x \in Windows
      BY DEF TypeOK, InfoTypeOK
    <3>1. CASE mPendingFrames'[x] = mPendingFrames[x]
      BY <2>1, <3>1
    <3>2. CASE x = cur /\ IsFrame(Head(events[cur]))
      <4>1. mPendingFrames[x] \in Seq(Nat) /\ mPendingFrames[x] # <<>>
        BY <1>26, <2>1, <3>2, WindowTypes DEF FrameHandled, Handling, HandlingFrame
      <4>2. mPendingFrames'[x] = Tail(mPendingFrames[x])
        BY <1>26, <2>1, <3>2 DEF FrameHandled, DecPendingFrameCount, TypeOK, InfoTypeOK
      <4> QED BY <2>1, <4>1, <4>2, TailElements
    <3> QED BY <1>26, <3>1, <3>2 DEF FrameHandled, DecPendingFrameCount, TypeOK, InfoTypeOK
  <2> QED BY <1>k, <1>26, <2>1 DEF FrameHandled, compVars
<1>27. CASE HandlerReturns
  BY <1>k, <1>27 DEF HandlerReturns, compVars, infoVars
<1>28. CASE ShutDown
  BY <1>k, <1>28 DEF ShutDown, compVars, infoVars
<1>29. CASE PostShutDownTask
  BY <1>k, <1>29 DEF PostShutDownTask, compVars, infoVars
<1>30. CASE ThreadJoined
  BY <1>k, <1>30 DEF ThreadJoined, compVars, infoVars
<1>31. CASE UNCHANGED vars
  BY <1>k, <1>31 DEF vars, compVars, infoVars
<1> QED
  BY <1>1, <1>2, <1>3, <1>4, <1>5, <1>6, <1>7, <1>8, <1>9, <1>10, <1>11, <1>12, <1>13,
     <1>14, <1>15, <1>16, <1>17, <1>18, <1>19, <1>20, <1>21, <1>22, <1>23, <1>24, <1>25,
     <1>26, <1>27, <1>28, <1>29, <1>30, <1>31 DEF Next, CompositorStep, BackendStep,
     RunnableStep, RenderThreadStep, MainStep

(* Every step keeps the frame being handled at the front of mPendingFrames. *)
LEMMA StepHandling ==
  ASSUME IInv, [Next]_vars
  PROVE  Handling'
<1> TypeOK /\ Handling /\ \A w \in Windows : AddedOnce(w)
  BY DEF IInv
<1>k. ASSUME UNCHANGED <<handlerVars, events, mWindowInfos>>,
             docHandle \subseteq docHandle',
             pc # "idle" /\ cur \in mWindowInfos =>
               /\ Done(cur)' = Done(cur)
               /\ Len(mPendingFrames[cur]) > 0 => Len(mPendingFrames'[cur]) > 0
      PROVE  Handling'
  <2>1. cur' = cur /\ pc' = pc /\ frame' = frame /\ events' = events /\ mWindowInfos' = mWindowInfos
    BY <1>k DEF handlerVars
  <2>2. HandlingFrame' = HandlingFrame
    BY <2>1 DEF HandlingFrame
  <2>3. pc # "idle" => cur \in docHandle'
    BY <1>k DEF Handling
  <2>4. HandlingFrame => pc # "idle" /\ cur \in mWindowInfos
    BY DEF HandlingFrame
  <2> QED BY <1>k, <2>1, <2>2, <2>3, <2>4 DEF Handling
<1>i. ASSUME pc' = "idle" PROVE Handling'
  BY <1>i DEF Handling, HandlingFrame
<1>o. ASSUME pc' \notin {"render", "rendering", "handled"},
             (pc # "idle" /\ cur' = cur) \/ cur' \in docHandle', docHandle \subseteq docHandle'
      PROVE  Handling'
  BY <1>o DEF Handling, HandlingFrame
<1>1. ASSUME NEW w \in Windows, Create(w) PROVE Handling'
  BY <1>k, <1>1 DEF Create, Done, handlerVars, queueVars, infoVars, compVars, frameVars
<1>2. CASE TaskReturns
  BY <1>k, <1>2 DEF TaskReturns, Done, handlerVars, queueVars, infoVars, compVars,
     frameVars
<1>3. ASSUME NEW w \in Windows, Composite(w) PROVE Handling'
  BY <1>k, <1>3 DEF Composite, Done, handlerVars, queueVars, infoVars, compVars, frameVars
<1>4. ASSUME NEW w \in Windows, RetrySkippedComposite(w) PROVE Handling'
  BY <1>k, <1>4 DEF RetrySkippedComposite, Done, handlerVars, queueVars, infoVars,
     compVars, frameVars
<1>5. ASSUME NEW w \in Windows, GenerateFrame(w) PROVE Handling'
  <2>1. ASSUME pc # "idle", cur \in mWindowInfos
        PROVE  /\ Done(cur)' = Done(cur)
               /\ Len(mPendingFrames[cur]) > 0 => Len(mPendingFrames'[cur]) > 0
    <3>0. cur \in Windows /\ cur' = cur /\ comp.window = w /\ comp.op = "accepted"
      BY <1>5, <2>1 DEF GenerateFrame, TypeOK, HandlerTypeOK, handlerVars
    <3>1. CASE cur # w
      <4>1. issued'[cur] = issued[cur] /\ mPendingFrames'[cur] = mPendingFrames[cur]
        BY <1>5, <3>0, <3>1 DEF GenerateFrame, IncPendingFrameCount, TypeOK, InfoTypeOK, BackendTypeOK
      <4> QED BY <3>0, <4>1 DEF Done
    <3>2. CASE cur = w
      <4>1. issued'[cur] = issued[cur] + 1 /\ issued[cur] \in Nat
        BY <1>5, <3>0, <3>2 DEF GenerateFrame, TypeOK, BackendTypeOK
      <4>2. mPendingFrames'[cur] = Append(mPendingFrames[cur], issued[cur] + 1) /\ mPendingFrames[cur] \in Seq(Nat)
        BY <1>5, <2>1, <3>0, <3>2 DEF GenerateFrame, IncPendingFrameCount, TypeOK, InfoTypeOK
      <4>3. Len(mPendingFrames'[cur]) = Len(mPendingFrames[cur]) + 1 /\ Len(mPendingFrames[cur]) \in Nat
        BY <4>1, <4>2, AppendElements
      <4>4. \A a, b \in Int : (a + 1) - (b + 1) = a - b
        OBVIOUS
      <4>5. issued'[cur] - Len(mPendingFrames'[cur]) = (issued[cur] + 1) - (Len(mPendingFrames[cur]) + 1)
        BY <4>1, <4>3
      <4>6. issued'[cur] - Len(mPendingFrames'[cur]) = issued[cur] - Len(mPendingFrames[cur])
        <5> issued[cur] \in Int /\ Len(mPendingFrames[cur]) \in Int
          BY <4>1, <4>3
        <5> QED BY <4>4, <4>5
      <4> QED BY <3>0, <4>3, <4>6 DEF Done
    <3> QED BY <2>1, <3>1, <3>2
  <2> QED BY <1>k, <1>5, <2>1 DEF GenerateFrame, queueVars
<1>6. ASSUME NEW w \in Windows, SetFrameStartTime(w) PROVE Handling'
  BY <1>k, <1>6 DEF SetFrameStartTime, Done, handlerVars, queueVars, infoVars, compVars,
     frameVars
<1>7. ASSUME NEW w \in Windows, SetClearColor(w) PROVE Handling'
  BY <1>k, <1>7 DEF SetClearColor, Done, handlerVars, queueVars, infoVars, compVars,
     frameVars
<1>8. ASSUME NEW w \in Windows, WaitFlushed(w) PROVE Handling'
  BY <1>k, <1>8 DEF WaitFlushed, Done, handlerVars, queueVars, infoVars, compVars,
     frameVars
<1>9. ASSUME NEW w \in Windows, DestroyRenderer(w) PROVE Handling'
  BY <1>k, <1>9 DEF DestroyRenderer, Done, handlerVars, queueVars, infoVars, compVars,
     frameVars
<1>10. CASE SessionsRebuilt
  BY <1>k, <1>10 DEF SessionsRebuilt, Done, handlerVars, queueVars, infoVars, compVars,
     frameVars
<1>11. ASSUME NEW w \in Windows, FrameBuilt(w) PROVE Handling'
  BY <1>k, <1>11 DEF FrameBuilt, Done, handlerVars, queueVars, infoVars, compVars,
     frameVars
<1>12. ASSUME NEW w \in Windows, NewFrameReady(w) PROVE Handling'
  BY <1>k, <1>12 DEF NewFrameReady, Done, handlerVars, queueVars, infoVars, compVars,
     frameVars
<1>13. ASSUME NEW w \in Windows, ForwardExternalEvent(w) PROVE Handling'
  BY <1>k, <1>13 DEF ForwardExternalEvent, Done, handlerVars, queueVars, infoVars,
     compVars, frameVars
<1>14. ASSUME NEW w \in Windows, StopRenderBackend(w) PROVE Handling'
  BY <1>k, <1>14 DEF StopRenderBackend, Done, handlerVars, queueVars, infoVars, compVars,
     frameVars
<1>15. ASSUME NEW w \in Windows, WakeUp(w) PROVE Handling'
  BY <1>k, <1>15 DEF WakeUp, Done, handlerVars, queueVars, infoVars, compVars, frameVars
<1>16. ASSUME NEW w \in Windows, NewRenderer(w) PROVE Handling'
  BY <1>i, <1>16 DEF NewRenderer, RunnableTaken, handlerVars
<1>17. ASSUME NEW w \in Windows, RunSetClearColor(w) PROVE Handling'
  BY <1>i, <1>17 DEF RunSetClearColor, RunnableTaken, handlerVars
<1>18. ASSUME NEW w \in Windows, EraseQueue(w) PROVE Handling'
  BY <1>i, <1>18 DEF EraseQueue, RunnableTaken, handlerVars
<1>19. ASSUME NEW w \in Windows, HandleWrNotifierEvents(w) PROVE Handling'
  <2>1. CASE pc' = "idle"
    BY <1>i, <2>1
  <2>2. CASE pc' # "idle"
    <3> pc' = "loop" /\ cur' = w /\ w \in mWindowInfos /\ docHandle' = docHandle
      BY <1>19, <2>2 DEF HandleWrNotifierEvents, RunnableTaken, compVars
    <3> QED BY <1>o DEF AddedOnce
  <2> QED BY <2>1, <2>2
<1>20. CASE ShutDownTask
  BY <1>i, <1>20 DEF ShutDownTask, RunnableTaken, handlerVars
<1>21. CASE RunExternalEvent
  BY <1>o, <1>21 DEF RunExternalEvent, AtEvent, handlerVars
<1>22. CASE RunRemoveRenderer
  BY <1>o, <1>22 DEF RunRemoveRenderer, AtEvent, handlerVars
<1>23. CASE HandleFrameOneDoc
  <2>1. CASE mHasShutdown
    BY <1>o, <1>23, <2>1 DEF HandleFrameOneDoc, AtEvent, compVars
  <2>2. CASE ~mHasShutdown
    <3>1. /\ pc = "loop" /\ pc' \in {"render", "handled"} /\ cur' = cur /\ events' = events
          /\ events[cur] # <<>> /\ cur \in docHandle'
          /\ mWindowInfos' = mWindowInfos /\ mPendingFrames' = mPendingFrames /\ issued' = issued
      BY <1>23, <2>2 DEF HandleFrameOneDoc, AtEvent, Handling, infoVars, compVars, frameVars
    <3>2. ASSUME HandlingFrame'
          PROVE  Head(events[cur]).id = Done(cur) + 1 /\ Len(mPendingFrames[cur]) > 0
      BY <2>2, <3>1, <3>2, OldestFirst DEF HandlingFrame
    <3>3. Done(cur)' = Done(cur)
      BY <3>1 DEF Done
    <3> QED BY <3>1, <3>2, <3>3 DEF Handling
  <2> QED BY <2>1, <2>2
<1>24. CASE StartRender
  <2>1. /\ pc = "render" /\ pc' = "rendering" /\ cur' = cur /\ events' = events
        /\ docHandle' = docHandle /\ mWindowInfos' = mWindowInfos
        /\ mPendingFrames' = mPendingFrames /\ issued' = issued
    BY <1>24 DEF StartRender, queueVars, infoVars, compVars, frameVars
  <2>2. Done(cur)' = Done(cur) /\ HandlingFrame' = HandlingFrame
    BY <2>1 DEF Done, HandlingFrame
  <2>3. ASSUME HandlingFrame PROVE frame' = Done(cur) + 1
    <3>1. frame' = Head(mPendingFrames[cur]) /\ cur \in mWindowInfos /\ cur \in Windows
      BY <1>24, <2>3 DEF StartRender, HandlingFrame, TypeOK, InfoTypeOK
    <3>2. mPendingFrames[cur] \in Seq(Nat) /\ Len(mPendingFrames[cur]) > 0
      BY <2>3, <3>1, WindowTypes DEF Handling
    <3>3. 1 \in 1..Len(mPendingFrames[cur]) /\ Head(mPendingFrames[cur]) = mPendingFrames[cur][1]
      BY <3>2
    <3> QED BY <3>1, <3>3 DEF IInv, WindowOK, Counts
  <2> QED BY <2>1, <2>2, <2>3 DEF Handling
<1>25. CASE FinishRender
  <2>1. /\ pc = "rendering" /\ pc' = "handled" /\ cur' = cur /\ events' = events
        /\ docHandle' = docHandle /\ mWindowInfos' = mWindowInfos
        /\ mPendingFrames' = mPendingFrames /\ issued' = issued
    BY <1>25 DEF FinishRender, queueVars, infoVars, compVars, frameVars
  <2>2. Done(cur)' = Done(cur) /\ HandlingFrame' = HandlingFrame
    BY <2>1 DEF Done, HandlingFrame
  <2> QED BY <2>1, <2>2 DEF Handling
<1>26. CASE FrameHandled
  BY <1>o, <1>26 DEF FrameHandled, compVars
<1>27. CASE HandlerReturns
  BY <1>i, <1>27 DEF HandlerReturns
<1>28. CASE ShutDown
  BY <1>k, <1>28 DEF ShutDown, Done, handlerVars, queueVars, infoVars, compVars, frameVars
<1>29. CASE PostShutDownTask
  BY <1>k, <1>29 DEF PostShutDownTask, Done, handlerVars, queueVars, infoVars, compVars,
     frameVars
<1>30. CASE ThreadJoined
  BY <1>k, <1>30 DEF ThreadJoined, Done, handlerVars, queueVars, infoVars, compVars,
     frameVars
<1>31. CASE UNCHANGED vars
  BY <1>k, <1>31 DEF vars, Done, handlerVars, queueVars, infoVars, compVars, frameVars
<1> QED
  BY <1>1, <1>2, <1>3, <1>4, <1>5, <1>6, <1>7, <1>8, <1>9, <1>10, <1>11, <1>12, <1>13,
     <1>14, <1>15, <1>16, <1>17, <1>18, <1>19, <1>20, <1>21, <1>22, <1>23, <1>24, <1>25,
     <1>26, <1>27, <1>28, <1>29, <1>30, <1>31 DEF Next, CompositorStep, BackendStep,
     RunnableStep, RenderThreadStep, MainStep

-----------------------------------------------------------------------------
(* The inductive invariant holds when the thread starts. *)
LEMMA InitIInv == Init => IInv
<1> SUFFICES ASSUME Init PROVE IInv
  OBVIOUS
<1>1. TypeOK
  BY InitTypeOK
<1>2. ASSUME NEW w \in Windows PROVE AddedOnce(w)
  BY DEF Init, AddedOnce, Fresh, Queued, QueuedOnce
<1>3. mWindowInfos = {} /\ Accepted /\ Handling
  BY DEF Init, Accepted, Handling, HandlingFrame
<1> QED BY <1>1, <1>2, <1>3 DEF IInv

(* Every step keeps the inductive invariant. *)
LEMMA StepIInv == IInv /\ [Next]_vars => IInv'
<1> SUFFICES ASSUME IInv, [Next]_vars PROVE IInv'
  OBVIOUS
<1>1. TypeOK'
  BY StepTypeOK DEF IInv
<1>2. \A w \in Windows : AddedOnce(w)'
  BY StepAddedOnce
<1>3. \A w \in mWindowInfos' : WindowOK(w)'
  BY StepWindowOK
<1>4. Accepted' /\ Handling'
  BY StepAccepted, StepHandling
<1> QED BY <1>1, <1>2, <1>3, <1>4 DEF IInv

(* The inductive invariant holds in every reachable state. *)
THEOREM Invariant == Spec => []IInv
  BY InitIInv, StepIInv, PTL DEF Spec

(* Every variable keeps its type: in particular no Head or Tail is taken of *)
(* an empty queue (mPendingFrames.front() and pop(), the events queue).     *)
THEOREM TypeCorrect == Spec => []TypeOK
<1>1. IInv => TypeOK
  BY DEF IInv
<1> QED BY <1>1, Invariant, PTL

(* The frame being handled is always the oldest pending one: front() and    *)
(* pop() find its entry, and the release assertion of                       *)
(* DecPendingFrameBuildCount holds.                                         *)
THEOREM FramesAreAccounted == Spec => []FramesAccounted
<1>1. ASSUME IInv PROVE FramesAccounted
  <2>1. ASSUME HandlingFrame
        PROVE  /\ mPendingFrames[cur] # <<>>
               /\ Head(mPendingFrames[cur]) = Head(events[cur]).id
               /\ pc = "rendering" => frame = Head(events[cur]).id
    <3>1. cur \in mWindowInfos /\ cur \in Windows /\ WindowOK(cur) /\ TypeOK /\ Handling
      BY <1>1, <2>1 DEF HandlingFrame, IInv, TypeOK, InfoTypeOK
    <3>2. mPendingFrames[cur] \in Seq(Nat) /\ Len(mPendingFrames[cur]) > 0
      BY <2>1, <3>1, WindowTypes DEF Handling
    <3>3. /\ mPendingFrames[cur] # <<>> /\ 1 \in 1..Len(mPendingFrames[cur])
          /\ Head(mPendingFrames[cur]) = mPendingFrames[cur][1]
      BY <3>2
    <3> QED BY <2>1, <3>1, <3>3 DEF Handling, WindowOK, Counts
  <2>2. ASSUME NEW w \in mWindowInfos, backend[w] # <<>>, Head(backend[w]).tag = "GenerateFrame"
        PROVE  mPendingFrameBuild[w] >= 1
    <3>1. w \in Windows /\ WindowOK(w) /\ TypeOK
      BY <1>1 DEF IInv, TypeOK, InfoTypeOK
    <3>2. issued[w] \in Nat /\ built[w] \in Nat /\ backend[w] \in Seq(Message)
      BY <3>1, WindowTypes
    <3>3. issued[w] = built[w] + 1
      BY <2>2, <3>1, <3>2, AsksTail DEF AsksFor, WindowOK, InBackend
    <3> QED BY <3>1, <3>2, <3>3 DEF WindowOK, Counts
  <2> QED BY <2>1, <2>2 DEF FramesAccounted
<1> QED BY <1>1, Invariant, PTL

(* At most two frames are pending and one is being built, although the test *)
(* and the count are two critical sections.                                 *)
THEOREM PendingFramesAreBounded == Spec => []PendingFramesBounded
<1>1. ASSUME IInv PROVE PendingFramesBounded
  <2> SUFFICES ASSUME NEW w \in Windows
               PROVE  Len(mPendingFrames[w]) <= 2 /\ mPendingFrameBuild[w] <= 1
    BY DEF PendingFramesBounded
  <2>1. CASE w \in mWindowInfos
    BY <1>1, <2>1 DEF IInv, WindowOK, Counts
  <2>2. CASE w \notin mWindowInfos
    BY <1>1, <2>2 DEF IInv, AddedOnce
  <2> QED BY <2>1, <2>2
<1> QED BY <1>1, Invariant, PTL
=============================================================================
