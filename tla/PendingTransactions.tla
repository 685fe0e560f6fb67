------------------------ MODULE PendingTransactions ------------------------
(***************************************************************************)
(* How WebRenderAPI holds transactions back until the remote textures they *)
(* use are ready (WebRenderAPI.cpp 473-653): the events of                 *)
(* mPendingWrTransactionEvents, the callbacks by which RemoteTextureMap    *)
(* wakes the compositor thread, and the flushes.                           *)
(*                                                                         *)
(* All APIs live on the compositor thread, which runs one call at a time;  *)
(* producers make textures ready on other threads between any two of its   *)
(* steps.  A transaction stands for its wr::Transaction*; the number 0     *)
(* for the fresh one that Take() leaves behind in the builder.             *)
(***************************************************************************)
EXTENDS Naturals, Sequences, SequencesExt

CONSTANTS
  Apis,      \* the WebRenderAPI objects of a window
  Root,      \* the one whose mRootApi is null
  Textures,  \* the remote textures, each used once by an API
  MaxTxns,   \* bound: transactions
  MaxOps,    \* bound: async image pipeline operations of a transaction
  MaxFlushes \* bound: flushes

ASSUME RootAssumption   == Root \in Apis
ASSUME BoundsAssumption == /\ MaxTxns \in Nat /\ MaxOps \in Nat
                           /\ MaxFlushes \in Nat

VARIABLES
  mPendingRemoteTextureInfoList,
  mPendingAsyncImagePipelineOps,
  mPendingWrTransactionEvents,
  mRendererDestroyed,
  call,              \* the HandleWrTransactionEvents that runs, if any
  runnables,         \* of each API, those dispatched to the thread
  callbacks,         \* RemoteTextureMap: of each texture, whom it wakes
  ready, suppressed, \* RemoteTextureMap: textures ready, no longer checked
  sent, applied,     \* what reached WebRender, the operations on each
  txns, uses, asked, \* history: transactions made, what was asked for them
  flushes            \* how many flushes were made

lists    == <<mPendingRemoteTextureInfoList, mPendingAsyncImagePipelineOps>>
mapVars  == <<callbacks, ready, suppressed>>
history  == <<txns, uses, asked>>
vars == <<lists, mPendingWrTransactionEvents, mRendererDestroyed, call,
          runnables, mapVars, sent, applied, history, flushes>>

-----------------------------------------------------------------------------
Txn   == 0 .. MaxTxns
NoOps == [txn |-> 0, count |-> 0]
Idle  == <<>>

TransactionEvent(t)       == [tag |-> "Transaction", txn |-> t]
RemoteTexturesEvent(list) == [tag |-> "PendingRemoteTextures", list |-> list]
OpsEvent(ops, t) ==
  [tag |-> "PendingAsyncImagePipelineOps", count |-> ops.count, txn |-> t]

(* A texture that CheckRemoteTextureReady finds ready.                      *)
Settled == ready \cup suppressed

Init ==
  /\ mPendingRemoteTextureInfoList = [a \in Apis |-> <<>>]
  /\ mPendingAsyncImagePipelineOps = [a \in Apis |-> NoOps]
  /\ mPendingWrTransactionEvents = [a \in Apis |-> <<>>]
  /\ mRendererDestroyed = FALSE
  /\ call = Idle
  /\ runnables = [a \in Apis |-> 0]
  /\ callbacks = [x \in Textures |-> [a \in Apis |-> 0]]
  /\ ready = {} /\ suppressed = {}
  /\ sent = [a \in Apis |-> <<>>] /\ applied = [t \in Txn |-> 0]
  /\ txns = 0 /\ uses = [a \in Apis |-> {}]
  /\ asked = [t \in Txn |-> [textures |-> {}, count |-> 0]]
  /\ flushes = 0

-----------------------------------------------------------------------------
(* What the compositor calls while it fills a transaction: the one it will  *)
(* send next, number txns + 1.                                              *)

MayAsk(a) == call = Idle /\ a # Root /\ txns < MaxTxns

GetPendingRemoteTextureInfoList(a, x) ==
  /\ MayAsk(a) /\ x \notin uses[a]
  /\ mPendingRemoteTextureInfoList' =
       [mPendingRemoteTextureInfoList EXCEPT ![a] = Append(@, x)]
  /\ uses' = [uses EXCEPT ![a] = @ \cup {x}]
  /\ UNCHANGED <<mPendingAsyncImagePipelineOps, mPendingWrTransactionEvents,
                 mRendererDestroyed, call, runnables, mapVars, sent, applied,
                 txns, asked, flushes>>

(* A list made for another transaction is replaced, whatever it holds.      *)
PipelineOpsFor(a, t) ==
  IF mPendingAsyncImagePipelineOps[a].txn = t
  THEN mPendingAsyncImagePipelineOps[a] ELSE [txn |-> t, count |-> 0]

(* The caller may look at the list without adding to it.                    *)
GetPendingAsyncImagePipelineOps(a, k) ==
  LET ops == PipelineOpsFor(a, txns + 1) IN
  /\ MayAsk(a) /\ ops.count + k <= MaxOps
  /\ \A b \in Apis \ {a} : mPendingAsyncImagePipelineOps[b].txn # txns + 1
  /\ mPendingAsyncImagePipelineOps' =
       [mPendingAsyncImagePipelineOps EXCEPT ![a] =
          [ops EXCEPT !.count = @ + k]]
  /\ UNCHANGED <<mPendingRemoteTextureInfoList, mPendingWrTransactionEvents,
                 mRendererDestroyed, call, runnables, mapVars, sent, applied,
                 history, flushes>>

-----------------------------------------------------------------------------
(* Mutants: whoever has no textures of its own is sent at once; the events  *)
(* are made from the builder after Take().                                  *)
MustHold_OwnLists(events, queue) == events # <<>>
RawForOps_AfterTake(t) == 0

MustHold(events, queue) == queue \o events # <<>>
RawForOps(t)            == t

(* The events SendTransaction puts before the transaction.                  *)
EventsBefore(a, t) ==
  LET list == mPendingRemoteTextureInfoList[a]
      ops  == mPendingAsyncImagePipelineOps[a]
  IN  (IF list # <<>> THEN <<RemoteTexturesEvent(list)>> ELSE <<>>)
      \o (IF ops.count # 0 THEN <<OpsEvent(ops, RawForOps(t))>> ELSE <<>>)

(* wr_api_send_transaction and the scheduler's NotifyTxn.                   *)
SendToWebRender(a, t) == sent' = [sent EXCEPT ![a] = Append(@, t)]

(* A caller fills and sends one transaction at a time, so operations asked  *)
(* for are for the one that is sent next.                                   *)
SendTransaction(a) ==
  LET t      == txns + 1
      events == EventsBefore(a, t)
      list   == mPendingRemoteTextureInfoList[a]
  IN
  /\ call = Idle /\ txns < MaxTxns /\ txns' = t
  /\ \A b \in Apis \ {a} : mPendingAsyncImagePipelineOps[b].txn # t
  /\ \/ /\ a # Root /\ mRendererDestroyed
        /\ UNCHANGED <<lists, mPendingWrTransactionEvents, call, sent, asked>>
     \/ /\ a = Root \/ ~mRendererDestroyed
        /\ asked' = [asked EXCEPT ![t] =
             [textures |-> ToSet(list),
              count    |-> mPendingAsyncImagePipelineOps[a].count]]
        /\ mPendingRemoteTextureInfoList' =
             [mPendingRemoteTextureInfoList EXCEPT ![a] = <<>>]
        /\ mPendingAsyncImagePipelineOps' =
             [mPendingAsyncImagePipelineOps EXCEPT ![a] =
                IF @.count # 0 THEN NoOps ELSE @]
        /\ IF MustHold(events, mPendingWrTransactionEvents[a])
           THEN /\ mPendingWrTransactionEvents' =
                     [mPendingWrTransactionEvents EXCEPT ![a] =
                        @ \o events \o <<TransactionEvent(t)>>]
                /\ call' = <<a, "AsyncWait">>
                /\ UNCHANGED sent
           ELSE /\ SendToWebRender(a, t)
                /\ UNCHANGED <<mPendingWrTransactionEvents, call>>
  /\ UNCHANGED <<mRendererDestroyed, runnables, mapVars, applied, uses,
                 flushes>>

(* FlushPendingWrTransactionEventsWithWait and ...WithoutWait.              *)
Flush(a, type) ==
  /\ call = Idle /\ a # Root /\ flushes < MaxFlushes
  /\ call' = <<a, type>> /\ flushes' = flushes + 1
  /\ UNCHANGED <<lists, mPendingWrTransactionEvents, mRendererDestroyed,
                 runnables, mapVars, sent, applied, history>>

DestroyRenderer ==
  /\ call = Idle /\ ~mRendererDestroyed
  /\ mRendererDestroyed' = TRUE
  /\ UNCHANGED <<lists, mPendingWrTransactionEvents, call, runnables, mapVars,
                 sent, applied, history, flushes>>

RunHandleWrTransactionEvents(a) ==
  /\ call = Idle /\ runnables[a] > 0
  /\ runnables' = [runnables EXCEPT ![a] = @ - 1]
  /\ call' = <<a, "AsyncWait">>
  /\ UNCHANGED <<lists, mPendingWrTransactionEvents, mRendererDestroyed,
                 mapVars, sent, applied, history, flushes>>

-----------------------------------------------------------------------------
(* HandleWrTransactionEvents(type) of the API a, one event or texture at a  *)
(* time: a texture may become ready between two of them.                    *)

events(a) == mPendingWrTransactionEvents[a]

HandleDone(a) ==
  /\ events(a) = <<>>
  /\ call' = Idle
  /\ UNCHANGED <<lists, mPendingWrTransactionEvents, mRendererDestroyed,
                 runnables, mapVars, sent, applied, history, flushes>>

PopEvent(a) ==
  mPendingWrTransactionEvents' =
    [mPendingWrTransactionEvents EXCEPT ![a] = Tail(@)]

HandleTransaction(a) ==
  /\ events(a) # <<>> /\ Head(events(a)).tag = "Transaction"
  /\ SendToWebRender(a, Head(events(a)).txn)
  /\ PopEvent(a)
  /\ UNCHANGED <<lists, mRendererDestroyed, call, runnables, mapVars, applied,
                 history, flushes>>

HandleAsyncImagePipelineOps(a) ==
  LET e == Head(events(a)) IN
  /\ events(a) # <<>> /\ e.tag = "PendingAsyncImagePipelineOps"
  /\ applied' = [applied EXCEPT ![e.txn] = @ + e.count]
  /\ PopEvent(a)
  /\ UNCHANGED <<lists, mRendererDestroyed, call, runnables, mapVars, sent,
                 history, flushes>>

PopTexture(a) ==
  LET e == Head(events(a))
  IN mPendingWrTransactionEvents' =
       [mPendingWrTransactionEvents EXCEPT ![a] =
          [events(a) EXCEPT ![1] = [e EXCEPT !.list = Tail(e.list)]]]

(* Mutant: no callback.                                                     *)
CheckRemoteTextureReady_NoCallback(x, a) == UNCHANGED callbacks

(* RemoteTextureMap keeps the callback of a texture that is not ready.      *)
CheckRemoteTextureReady(x, a) ==
  callbacks' = [callbacks EXCEPT ![x][a] = @ + 1]
SuppressRemoteTextureReadyCheck(x) == suppressed' = suppressed \cup {x}

HandleRemoteTexture(a, type) ==
  LET e == Head(events(a))
      x == Head(e.list)
  IN
  /\ events(a) # <<>> /\ e.tag = "PendingRemoteTextures" /\ e.list # <<>>
  /\ \/ /\ type = "AsyncWait" /\ x \notin Settled   \* CheckIsRemoteTextureReady
        /\ CheckRemoteTextureReady(x, a)
        /\ call' = Idle
        /\ UNCHANGED <<mPendingWrTransactionEvents, suppressed>>
     \/ /\ type \in {"AsyncWait", "FlushWithWait"} /\ x \in Settled
        /\ PopTexture(a)                            \* WaitRemoteTextureReady
        /\ UNCHANGED <<call, callbacks, suppressed>>
     \/ /\ type = "FlushWithoutWait"
        /\ SuppressRemoteTextureReadyCheck(x)
        /\ PopTexture(a)
        /\ UNCHANGED <<call, callbacks>>
  /\ UNCHANGED <<lists, mRendererDestroyed, runnables, ready, sent, applied,
                 history, flushes>>

RemoteTexturesDone(a) ==
  /\ events(a) # <<>> /\ Head(events(a)).tag = "PendingRemoteTextures"
  /\ Head(events(a)).list = <<>>
  /\ PopEvent(a)
  /\ UNCHANGED <<lists, mRendererDestroyed, call, runnables, mapVars, sent,
                 applied, history, flushes>>

HandleWrTransactionEvents ==
  /\ call # Idle
  /\ \/ HandleDone(call[1])
     \/ HandleTransaction(call[1])
     \/ HandleAsyncImagePipelineOps(call[1])
     \/ HandleRemoteTexture(call[1], call[2])
     \/ RemoteTexturesDone(call[1])

-----------------------------------------------------------------------------
(* A producer makes a texture ready; each callback dispatches a runnable.   *)
RemoteTextureReady(x) ==
  /\ x \notin ready
  /\ ready' = ready \cup {x}
  /\ runnables' = [a \in Apis |-> runnables[a] + callbacks[x][a]]
  /\ callbacks' = [callbacks EXCEPT ![x] = [a \in Apis |-> 0]]
  /\ UNCHANGED <<lists, mPendingWrTransactionEvents, mRendererDestroyed, call,
                 suppressed, sent, applied, history, flushes>>

Callers ==
  \/ \E a \in Apis :
       \/ SendTransaction(a)
       \/ \E x \in Textures : GetPendingRemoteTextureInfoList(a, x)
       \/ \E k \in 0 .. 1 : GetPendingAsyncImagePipelineOps(a, k)
       \/ \E type \in {"FlushWithWait", "FlushWithoutWait"} : Flush(a, type)
  \/ DestroyRenderer

Next == \/ Callers
        \/ HandleWrTransactionEvents
        \/ \E a \in Apis : RunHandleWrTransactionEvents(a)
        \/ \E x \in Textures : RemoteTextureReady(x)

Spec == Init /\ [][Next]_vars

(* The compositor thread goes on and runs what is dispatched to it, whoever *)
(* else calls; the producers deliver what they announced.                   *)
FairSpec ==
  /\ Spec
  /\ WF_vars(HandleWrTransactionEvents)
  /\ \A a \in Apis : SF_vars(RunHandleWrTransactionEvents(a))
  /\ \A x \in Textures : WF_vars(RemoteTextureReady(x))

-----------------------------------------------------------------------------
(* The first event is a list of textures whose first has the API's         *)
(* callback, or a runnable that handles the events is dispatched.           *)
WokenUp(a) ==
  \/ runnables[a] > 0
  \/ /\ Head(events(a)).tag = "PendingRemoteTextures"
     /\ Head(events(a)).list # <<>>
     /\ callbacks[Head(Head(events(a)).list)][a] > 0

(* While transactions are held and no handler runs, something will handle   *)
(* them: whatever flushes and callbacks came before (WebRenderAPI.cpp:607,  *)
(* HandleWrTransactionEvents), the queue cannot be forgotten.               *)
HeldIsWokenUp ==
  \A a \in Apis : events(a) # <<>> /\ call = Idle => WokenUp(a)

(* A transaction reaches WebRender with all async image pipeline operations *)
(* asked for it applied to it, and to no other, although the queue holds a  *)
(* raw pointer to it for them.                                              *)
OpsReachTheirTransaction ==
  \A a \in Apis : \A t \in ToSet(sent[a]) : applied[t] = asked[t].count

(* The transactions of an API are sent in order, each when its textures are *)
(* settled: ready, or given up by a flush that does not wait.               *)
TxnsOf(queue) ==
  LET upTo[n \in 0 .. Len(queue)] ==
        IF n = 0 THEN <<>>
        ELSE IF queue[n].tag = "Transaction"
             THEN Append(upTo[n - 1], queue[n].txn)
        ELSE upTo[n - 1]
  IN  upTo[Len(queue)]
HeldTxns(a) == TxnsOf(events(a))
Order == INSTANCE TransactionOrder WITH
           Txns    <- Txn,
           held    <- [a \in Apis |-> HeldTxns(a)],
           needs   <- [t \in Txn |-> asked[t].textures],
           settled <- Settled
SentInOrder == Order!Spec

(* Whatever an API holds back is sent in the end.                           *)
HeldAreSent ==
  \A a \in Apis : \A t \in 1 .. MaxTxns :
    (t \in ToSet(HeldTxns(a))) ~> (t \in ToSet(sent[a]))
=============================================================================
