--------------------- MODULE PendingTransactionsProofs ---------------------
(***************************************************************************)
(* What holds of the transactions that wait for remote textures, for any   *)
(* APIs, textures and bounds: none is forgotten, each gets its own async   *)
(* image pipeline operations before it is sent, and an API's transactions  *)
(* are sent in order, each when its textures are settled: the steps of     *)
(* SendTransaction and HandleWrTransactionEvents are those of              *)
(* TransactionOrder.                                                       *)
(***************************************************************************)
EXTENDS PendingTransactions, SequenceTheorems, WellFoundedInduction, TLAPS

-----------------------------------------------------------------------------
(* Types                                                                    *)

TransactionEvents == [tag : {"Transaction"}, txn : Txn]
TexturesEvents    == [tag : {"PendingRemoteTextures"}, list : Seq(Textures)]
OpsEvents == [tag : {"PendingAsyncImagePipelineOps"}, count : Nat, txn : Txn]
Event == TransactionEvents \cup TexturesEvents \cup OpsEvents

CallTypes == {"AsyncWait", "FlushWithWait", "FlushWithoutWait"}

(* What the builder has collected, the queue, and the calls that handle it. *)
QueueTypeOK ==
  /\ mPendingRemoteTextureInfoList \in [Apis -> Seq(Textures)]
  /\ mPendingAsyncImagePipelineOps \in [Apis -> [txn : Nat, count : Nat]]
  /\ mPendingWrTransactionEvents \in [Apis -> Seq(Event)]
  /\ call \in {Idle} \cup (Apis \X CallTypes)

(* What wakes the thread.                                                   *)
WakeTypeOK ==
  /\ runnables \in [Apis -> Nat]
  /\ callbacks \in [Textures -> [Apis -> Nat]]

(* What reached WebRender, and what the callers asked for.                  *)
SentTypeOK ==
  /\ sent \in [Apis -> Seq(Txn)] /\ applied \in [Txn -> Nat]
  /\ txns \in Txn
  /\ asked \in [Txn -> [textures : SUBSET Textures, count : Nat]]

TypeOK == QueueTypeOK /\ WakeTypeOK /\ SentTypeOK

-----------------------------------------------------------------------------
(* The inductive invariant                                                  *)

(* HeldIsWokenUp, while a handler of some API runs too.                     *)
OthersWokenUp ==
  \A a \in Apis : events(a) # <<>> =>
    (call # Idle /\ call[1] = a) \/ WokenUp(a)

(* A queue holds the transaction t, or operations for it, at place i.       *)
TxnAt(a, i, t) == /\ i \in 1 .. Len(events(a))
                  /\ events(a)[i].tag = "Transaction"
                  /\ events(a)[i].txn = t
OpsAt(a, i, t) == /\ i \in 1 .. Len(events(a))
                  /\ events(a)[i].tag = "PendingAsyncImagePipelineOps"
                  /\ events(a)[i].txn = t

(* A transaction is held in one place, and before it is sent only.          *)
HeldOnce ==
  \A a, b \in Apis, t \in Txn, i, j \in Nat :
    TxnAt(a, i, t) /\ TxnAt(b, j, t) => a = b /\ i = j
HeldIsUnsent ==
  \A a \in Apis, t \in Txn, i \in Nat : TxnAt(a, i, t) =>
    t \in 1 .. txns /\ \A b \in Apis : t \notin ToSet(sent[b])

(* The operations on a transaction are right in front of it, and complete.  *)
OpsBeforeTxn ==
  \A a \in Apis, t \in Txn, i \in Nat : OpsAt(a, i, t) =>
    TxnAt(a, i + 1, t) /\ applied[t] = 0 /\ events(a)[i].count = asked[t].count

(* If they are not, they have been applied or there were none.              *)
AppliedOrAhead ==
  \A a \in Apis, t \in Txn, i \in Nat : TxnAt(a, i, t) =>
    applied[t] = asked[t].count \/ OpsAt(a, i - 1, t)

(* Nothing is applied to a transaction that is still to be made.            *)
NewIsUntouched == \A t \in Txn : t > txns => applied[t] = 0

(* What was sent had been made, with its operations.                        *)
SentIsApplied ==
  \A a \in Apis : \A t \in ToSet(sent[a]) :
    t \in 1 .. txns /\ applied[t] = asked[t].count

OpsInv == /\ HeldOnce
          /\ HeldIsUnsent
          /\ OpsBeforeTxn
          /\ AppliedOrAhead
          /\ NewIsUntouched
          /\ SentIsApplied

(* An API's transactions, numbered as they are made, stay in this order in  *)
(* its queue and behind what it has sent.                                   *)
HeldAscend ==
  \A a \in Apis, t, u \in Txn, i, j \in Nat :
    TxnAt(a, i, t) /\ TxnAt(a, j, u) /\ i < j => t < u
SentBeforeHeld ==
  \A a \in Apis : \A s \in ToSet(sent[a]), t \in Txn, i \in Nat :
    TxnAt(a, i, t) => s < t
SentAscend ==
  \A a \in Apis : \A i, j \in 1 .. Len(sent[a]) :
    i < j => sent[a][i] < sent[a][j]

InOrder == HeldAscend /\ SentBeforeHeld /\ SentAscend

IInv == TypeOK /\ OthersWokenUp /\ OpsInv /\ InOrder

-----------------------------------------------------------------------------
(* Queues                                                                   *)

(* One event after another.                                                 *)
LEMMA TwoEvents ==
  ASSUME NEW e \in Event, NEW f \in Event
  PROVE  <<e>> \o <<f>> = <<e, f>>
<1>1. <<e>> \in Seq(Event) /\ <<f>> \in Seq(Event) /\ <<e, f>> \in Seq(Event)
  OBVIOUS
<1>2. Len(<<e>>) = 1 /\ Len(<<f>>) = 1 /\ Len(<<e, f>>) = 2
  OBVIOUS
<1>3. /\ <<e>> \o <<f>> \in Seq(Event)
      /\ Len(<<e>> \o <<f>>) = 2
      /\ (<<e>> \o <<f>>)[1] = e /\ (<<e>> \o <<f>>)[2] = f
  <2>1. /\ <<e>> \o <<f>> \in Seq(Event)
        /\ Len(<<e>> \o <<f>>) = Len(<<e>>) + Len(<<f>>)
        /\ \A i \in 1 .. Len(<<e>>) + Len(<<f>>) : (<<e>> \o <<f>>)[i] =
             IF i <= Len(<<e>>) THEN <<e>>[i] ELSE <<f>>[i - Len(<<e>>)]
    BY <1>1, ConcatProperties
  <2> QED BY <1>2, <2>1
<1>4. \A i \in 1 .. 2 : (<<e>> \o <<f>>)[i] = <<e, f>>[i]
  <2>1. <<e, f>>[1] = e /\ <<e, f>>[2] = f /\ 1 .. 2 = {1, 2}
    OBVIOUS
  <2> QED BY <1>3, <2>1
<1> HIDE DEF Event
<1> QED BY <1>1, <1>2, <1>3, <1>4, SeqEqual

(* What SendTransaction puts in front of the transaction t: nothing but a   *)
(* list of textures, then the operations if there are any.                  *)
LEMMA EventsBeforeShape ==
  ASSUME QueueTypeOK, NEW a \in Apis, NEW t \in Txn
  PROVE  LET pre == EventsBefore(a, t)
             ops == mPendingAsyncImagePipelineOps[a]
         IN /\ pre \in Seq(Event)
            /\ \A i \in 1 .. Len(pre) : pre[i].tag # "Transaction"
            /\ \A i \in 1 .. Len(pre) :
                 pre[i].tag = "PendingAsyncImagePipelineOps" =>
                   /\ i = Len(pre) /\ pre[i].txn = t
                   /\ pre[i].count = ops.count
            /\ ops.count # 0 =>
                 /\ pre # <<>>
                 /\ pre[Len(pre)].tag = "PendingAsyncImagePipelineOps"
            /\ ops.count \in Nat
<1> DEFINE list == mPendingRemoteTextureInfoList[a]
           ops  == mPendingAsyncImagePipelineOps[a]
           one  == RemoteTexturesEvent(list)
           two  == OpsEvent(ops, t)
<1>1. one \in Event /\ one.tag = "PendingRemoteTextures"
  BY DEF QueueTypeOK, Event, TexturesEvents, RemoteTexturesEvent
<1>2. /\ two \in Event /\ two.tag = "PendingAsyncImagePipelineOps"
      /\ two.txn = t /\ two.count = ops.count /\ ops.count \in Nat
  BY DEF QueueTypeOK, Event, OpsEvents, OpsEvent
<1> HIDE DEF one, two, ops, list
<1>3. EventsBefore(a, t) = (IF list # <<>> THEN <<one>> ELSE <<>>)
                           \o (IF ops.count # 0 THEN <<two>> ELSE <<>>)
  BY DEF EventsBefore, RawForOps, one, two, ops, list
<1>4. CASE list # <<>> /\ ops.count # 0
  <2>1. EventsBefore(a, t) = <<one, two>>
    BY <1>1, <1>2, <1>3, <1>4, TwoEvents
  <2> QED BY <2>1, <1>1, <1>2 DEF ops
<1>5. CASE list # <<>> /\ ops.count = 0
  <2>1. EventsBefore(a, t) = <<one>>
    BY <1>1, <1>3, <1>5
  <2> QED BY <2>1, <1>1, <1>2, <1>5 DEF ops
<1>6. CASE list = <<>> /\ ops.count # 0
  <2>1. EventsBefore(a, t) = <<two>>
    BY <1>2, <1>3, <1>6
  <2> QED BY <2>1, <1>2 DEF ops
<1>7. CASE list = <<>> /\ ops.count = 0
  <2>1. EventsBefore(a, t) = <<>>
    BY <1>3, <1>7
  <2> QED BY <2>1, <1>2, <1>7, EmptySeq DEF ops
<1> QED BY <1>4, <1>5, <1>6, <1>7

(* The queue when SendTransaction holds the transaction t back.             *)
LEMMA HoldShape ==
  ASSUME QueueTypeOK, NEW a \in Apis, NEW t \in Txn,
         NEW queue,
         queue = events(a) \o EventsBefore(a, t) \o <<TransactionEvent(t)>>
  PROVE  LET pre == EventsBefore(a, t)
             n   == Len(events(a))
             m   == Len(pre)
         IN /\ queue \in Seq(Event)
            /\ n \in Nat /\ m \in Nat /\ Len(queue) = n + m + 1
            /\ \A i \in 1 .. n : queue[i] = events(a)[i]
            /\ \A i \in 1 .. m : queue[n + i] = pre[i]
            /\ queue[n + m + 1] = TransactionEvent(t)
<1> DEFINE pre  == EventsBefore(a, t)
           last == TransactionEvent(t)
<1>1. pre \in Seq(Event) /\ events(a) \in Seq(Event)
  BY EventsBeforeShape DEF QueueTypeOK, events
<1>2. <<last>> \in Seq(Event) /\ Len(<<last>>) = 1 /\ <<last>>[1] = last
  BY DEF Event, TransactionEvents, TransactionEvent
<1> HIDE DEF pre, last
<1> DEFINE front == events(a) \o pre
           back  == <<last>>
<1>3. /\ front \in Seq(Event)
      /\ Len(front) = Len(events(a)) + Len(pre)
      /\ \A i \in 1 .. Len(events(a)) + Len(pre) : front[i] =
            IF i <= Len(events(a)) THEN events(a)[i]
            ELSE pre[i - Len(events(a))]
  BY <1>1, ConcatProperties
<1>4. queue = front \o back
  BY DEF pre, last
<1>5. back \in Seq(Event) /\ Len(back) = 1 /\ back[1] = last
  BY <1>2
<1>6. Len(pre) \in Nat /\ Len(events(a)) \in Nat
  BY <1>1, LenProperties
<1> HIDE DEF front, back
<1>7. /\ queue \in Seq(Event)
      /\ Len(queue) = Len(front) + Len(back)
      /\ \A i \in 1 .. Len(front) + Len(back) : queue[i] =
            IF i <= Len(front) THEN front[i] ELSE back[i - Len(front)]
  <2>1. front \in Seq(Event) /\ back \in Seq(Event)
    BY <1>3, <1>5
  <2> HIDE DEF Event
  <2>2. /\ front \o back \in Seq(Event)
        /\ Len(front \o back) = Len(front) + Len(back)
        /\ \A i \in 1 .. Len(front) + Len(back) : (front \o back)[i] =
             IF i <= Len(front) THEN front[i] ELSE back[i - Len(front)]
    BY <2>1, ConcatProperties
  <2> QED BY <1>4, <2>2
<1>8. /\ Len(queue) = Len(events(a)) + Len(pre) + 1
      /\ \A i \in 1 .. Len(events(a)) : queue[i] = events(a)[i]
  BY <1>3, <1>5, <1>6, <1>7
<1>9. \A i \in 1 .. Len(pre) : queue[Len(events(a)) + i] = pre[i]
  BY <1>3, <1>5, <1>6, <1>7
<1>10. queue[Len(events(a)) + Len(pre) + 1] = last
  BY <1>3, <1>5, <1>6, <1>7
<1> QED BY <1>6, <1>7, <1>8, <1>9, <1>10 DEF pre, last

(* The queue without its first event.                                       *)
LEMMA PopShape ==
  ASSUME QueueTypeOK, NEW a \in Apis, events(a) # <<>>, PopEvent(a)
  PROVE  /\ mPendingWrTransactionEvents' \in [Apis -> Seq(Event)]
         /\ Head(events(a)) = events(a)[1] /\ events(a)[1] \in Event
         /\ Len(events(a)) \in Nat \ {0}
         /\ Len(events(a)') = Len(events(a)) - 1
         /\ \A i \in 1 .. Len(events(a)) - 1 :
              events(a)'[i] = events(a)[i + 1]
         /\ \A b \in Apis \ {a} : events(b)' = events(b)
<1>1. events(a) \in Seq(Event)
  BY DEF QueueTypeOK, events
<1>2. /\ Head(events(a)) \in Event
      /\ Tail(events(a)) \in Seq(Event)
      /\ Len(Tail(events(a))) = Len(events(a)) - 1
      /\ \A i \in 1 .. Len(Tail(events(a))) :
           Tail(events(a))[i] = events(a)[i + 1]
  BY <1>1, HeadTailProperties
<1>3. events(a)' = Tail(events(a))
  BY DEF PopEvent, QueueTypeOK, events
<1>4. \A b \in Apis \ {a} : events(b)' = events(b)
  BY DEF PopEvent, QueueTypeOK, events
<1>5. Len(events(a)) \in Nat \ {0} /\ Head(events(a)) = events(a)[1]
  BY <1>1, EmptySeq
<1>6. mPendingWrTransactionEvents' \in [Apis -> Seq(Event)]
  BY <1>2 DEF PopEvent, QueueTypeOK, events
<1> QED BY <1>2, <1>3, <1>4, <1>5, <1>6

(* The texture that is looked at next.                                      *)
LEMMA HeadTexture ==
  ASSUME QueueTypeOK, NEW a \in Apis, events(a) # <<>>,
         Head(events(a)).tag = "PendingRemoteTextures",
         Head(events(a)).list # <<>>
  PROVE  Head(Head(events(a)).list) \in Textures
<1>1. Head(events(a)) \in Event
  BY HeadTailProperties DEF QueueTypeOK, events
<1>2. Head(events(a)).list \in Seq(Textures)
  BY <1>1 DEF Event, TransactionEvents, TexturesEvents, OpsEvents
<1> QED BY <1>2, HeadTailProperties

(* The queue whose first event is a list that has lost its first texture.   *)
LEMMA PopTextureShape ==
  ASSUME QueueTypeOK, NEW a \in Apis, events(a) # <<>>,
         Head(events(a)).tag = "PendingRemoteTextures",
         Head(events(a)).list # <<>>, PopTexture(a)
  PROVE  /\ mPendingWrTransactionEvents' \in [Apis -> Seq(Event)]
         /\ Len(events(a)') = Len(events(a))
         /\ \A i \in 1 .. Len(events(a)) :
              /\ events(a)'[i].tag = events(a)[i].tag
              /\ events(a)[i].tag # "PendingRemoteTextures" =>
                   events(a)'[i] = events(a)[i]
         /\ \A b \in Apis \ {a} : events(b)' = events(b)
<1> DEFINE e    == events(a)[1]
           next == [e EXCEPT !.list = Tail(@)]
<1>1. events(a) \in Seq(Event)
  BY DEF QueueTypeOK, events
<1>2. /\ Len(events(a)) \in Nat \ {0} /\ Head(events(a)) = e
      /\ e \in Event
  BY <1>1, EmptySeq
<1>3. e \in TexturesEvents
  BY <1>2 DEF Event, TransactionEvents, OpsEvents
<1>4. Tail(e.list) \in Seq(Textures)
  BY <1>2, <1>3, HeadTailProperties DEF TexturesEvents
<1>5. next \in TexturesEvents /\ next.tag = e.tag
  BY <1>3, <1>4 DEF TexturesEvents
<1>6. mPendingWrTransactionEvents' =
        [mPendingWrTransactionEvents EXCEPT ![a] =
           [events(a) EXCEPT ![1] = next]]
  BY <1>2 DEF PopTexture
<1> HIDE DEF next
<1>7. /\ [events(a) EXCEPT ![1] = next] \in Seq(Event)
      /\ Len([events(a) EXCEPT ![1] = next]) = Len(events(a))
      /\ \A j \in 1 .. Len(events(a)) : [events(a) EXCEPT ![1] = next][j] =
           IF j = 1 THEN next ELSE events(a)[j]
  BY <1>1, <1>2, <1>5, ExceptSeq DEF Event
<1>8. /\ mPendingWrTransactionEvents' \in [Apis -> Seq(Event)]
      /\ \A b \in Apis \ {a} : events(b)' = events(b)
  BY <1>6, <1>7 DEF QueueTypeOK, events
<1>9. events(a)' = [events(a) EXCEPT ![1] = next]
  BY <1>6 DEF QueueTypeOK, events
<1> QED BY <1>2, <1>3, <1>5, <1>7, <1>8, <1>9 DEF TexturesEvents

-----------------------------------------------------------------------------
(* Types are kept                                                           *)

(* What a step leaves alone keeps its type: the builder and the queue.      *)
LEMMA QueueUnchanged ==
    QueueTypeOK /\ UNCHANGED <<lists, mPendingWrTransactionEvents, call>>
      => QueueTypeOK'
  BY DEF QueueTypeOK, lists
(* Likewise the callbacks and the runnables.                                *)
LEMMA WakeUnchanged ==
    WakeTypeOK /\ UNCHANGED <<runnables, callbacks>> => WakeTypeOK'
  BY DEF WakeTypeOK
(* Likewise what was sent.                                                  *)
LEMMA SentUnchanged ==
    SentTypeOK /\ UNCHANGED <<sent, applied, txns, asked>> => SentTypeOK'
  BY DEF SentTypeOK

(* The system starts well-typed.                                            *)
LEMMA InitTypeOK == Init => TypeOK
<1> SUFFICES ASSUME Init PROVE TypeOK
  OBVIOUS
<1>1. QueueTypeOK
  BY EmptySeq DEF Init, QueueTypeOK, NoOps
<1>2. WakeTypeOK
  BY DEF Init, WakeTypeOK
<1>3. SentTypeOK
  BY EmptySeq, BoundsAssumption DEF Init, SentTypeOK, Txn
<1> QED BY <1>1, <1>2, <1>3 DEF TypeOK

(* Sending a transaction of the right type.                                 *)
LEMMA SendType ==
  ASSUME SentTypeOK, NEW a \in Apis, NEW t \in Txn, SendToWebRender(a, t)
  PROVE  sent' \in [Apis -> Seq(Txn)]
<1>1. Append(sent[a], t) \in Seq(Txn)
  BY AppendProperties DEF SentTypeOK
<1> QED BY <1>1 DEF SentTypeOK, SendToWebRender

(* SendTransaction keeps the types.                                         *)
LEMMA SendTransactionType ==
  ASSUME TypeOK, NEW a \in Apis, SendTransaction(a)
  PROVE  TypeOK'
<1> DEFINE t == txns + 1
<1>0. QueueTypeOK /\ WakeTypeOK /\ SentTypeOK
  BY DEF TypeOK
<1>1. t \in Txn /\ txns' = t
  BY <1>0, BoundsAssumption DEF SendTransaction, SentTypeOK, Txn
<1>2. WakeTypeOK'
  BY <1>0, WakeUnchanged DEF SendTransaction, mapVars
<1>3. CASE UNCHANGED <<lists, mPendingWrTransactionEvents, call, sent, asked>>
  <2>1. SentTypeOK'
    BY <1>0, <1>1, <1>3 DEF SendTransaction, SentTypeOK
  <2> QED BY <1>0, <1>2, <1>3, <2>1, QueueUnchanged DEF TypeOK
<1>4. CASE ~UNCHANGED <<lists, mPendingWrTransactionEvents, call, sent, asked>>
  <2> DEFINE ops == mPendingAsyncImagePipelineOps[a]
             new == [textures |-> ToSet(mPendingRemoteTextureInfoList[a]),
                     count |-> ops.count]
  <2>1. asked' \in [Txn -> [textures : SUBSET Textures, count : Nat]]
    <3>1. /\ ToSet(mPendingRemoteTextureInfoList[a]) \subseteq Textures
          /\ ops.count \in Nat
      BY <1>0 DEF QueueTypeOK, ToSet
    <3>2. new \in [textures : SUBSET Textures, count : Nat]
      BY <3>1
    <3>3. asked' = [asked EXCEPT ![t] = new]
      BY <1>4 DEF SendTransaction
    <3> QED BY <1>0, <1>1, <3>2, <3>3 DEF SentTypeOK
  <2>2. /\ mPendingRemoteTextureInfoList' \in [Apis -> Seq(Textures)]
        /\ mPendingAsyncImagePipelineOps'
             \in [Apis -> [txn : Nat, count : Nat]]
    <3>1. /\ mPendingRemoteTextureInfoList' =
               [mPendingRemoteTextureInfoList EXCEPT ![a] = <<>>]
          /\ mPendingAsyncImagePipelineOps' =
               [mPendingAsyncImagePipelineOps EXCEPT ![a] =
                  IF @.count # 0 THEN NoOps ELSE @]
      BY <1>4 DEF SendTransaction
    <3>2. <<>> \in Seq(Textures) /\ NoOps \in [txn : Nat, count : Nat]
      BY EmptySeq DEF NoOps
    <3> QED BY <1>0, <3>1, <3>2 DEF QueueTypeOK
  <2>3. CASE MustHold(EventsBefore(a, t), mPendingWrTransactionEvents[a])
    <3>1. /\ mPendingWrTransactionEvents' =
               [mPendingWrTransactionEvents EXCEPT ![a] =
                  events(a) \o EventsBefore(a, t) \o <<TransactionEvent(t)>>]
          /\ call' = <<a, "AsyncWait">> /\ UNCHANGED <<sent, applied>>
      BY <1>4, <2>3 DEF SendTransaction, events
    <3>2. mPendingWrTransactionEvents' \in [Apis -> Seq(Event)]
      BY <1>0, <1>1, <3>1, HoldShape DEF QueueTypeOK
    <3>3. QueueTypeOK'
      BY <2>2, <3>1, <3>2 DEF QueueTypeOK, CallTypes
    <3>4. SentTypeOK'
      BY <1>0, <1>1, <2>1, <3>1 DEF SentTypeOK
    <3> QED BY <1>2, <3>3, <3>4 DEF TypeOK
  <2>4. CASE ~MustHold(EventsBefore(a, t), mPendingWrTransactionEvents[a])
    <3>1. /\ SendToWebRender(a, t)
          /\ UNCHANGED <<mPendingWrTransactionEvents, call, applied>>
      BY <1>4, <2>4 DEF SendTransaction
    <3>2. QueueTypeOK'
      BY <1>0, <2>2, <3>1 DEF QueueTypeOK
    <3>3. SentTypeOK'
      BY <1>0, <1>1, <2>1, <3>1, SendType DEF SentTypeOK
    <3> QED BY <1>2, <3>2, <3>3 DEF TypeOK
  <2> QED BY <2>3, <2>4
<1> QED BY <1>3, <1>4

(* So does a call that collects something, and the handling of an event.    *)
LEMMA NextTypeOK == TypeOK /\ [Next]_vars => TypeOK'
<1> SUFFICES ASSUME TypeOK, [Next]_vars PROVE TypeOK'
  OBVIOUS
<1>0. QueueTypeOK /\ WakeTypeOK /\ SentTypeOK
  BY DEF TypeOK
<1>1. ASSUME NEW a \in Apis, NEW x \in Textures,
             GetPendingRemoteTextureInfoList(a, x)
      PROVE  TypeOK'
  <2>1. Append(mPendingRemoteTextureInfoList[a], x) \in Seq(Textures)
    BY <1>0, AppendProperties DEF QueueTypeOK
  <2>2. QueueTypeOK'
    BY <1>0, <1>1, <2>1 DEF GetPendingRemoteTextureInfoList, QueueTypeOK
  <2> QED BY <1>0, <1>1, <2>2, WakeUnchanged, SentUnchanged
          DEF GetPendingRemoteTextureInfoList, TypeOK, mapVars
<1>2. ASSUME NEW a \in Apis, NEW k \in 0 .. 1,
             GetPendingAsyncImagePipelineOps(a, k)
      PROVE  TypeOK'
  <2>0. PipelineOpsFor(a, txns + 1) \in [txn : Nat, count : Nat]
    BY <1>0, BoundsAssumption DEF PipelineOpsFor, QueueTypeOK, SentTypeOK, Txn
  <2>1. [PipelineOpsFor(a, txns + 1) EXCEPT !.count = @ + k]
             \in [txn : Nat, count : Nat]
    BY <2>0
  <2>2. QueueTypeOK'
    BY <1>0, <1>2, <2>1 DEF GetPendingAsyncImagePipelineOps, QueueTypeOK
  <2> QED BY <1>0, <1>2, <2>2, WakeUnchanged, SentUnchanged
          DEF GetPendingAsyncImagePipelineOps, TypeOK, mapVars, history
<1>3. ASSUME NEW a \in Apis, NEW type \in {"FlushWithWait", "FlushWithoutWait"},
             Flush(a, type)
      PROVE  TypeOK'
  <2>1. QueueTypeOK'
    BY <1>0, <1>3 DEF Flush, QueueTypeOK, CallTypes, lists
  <2> QED BY <1>0, <1>3, <2>1, WakeUnchanged, SentUnchanged
          DEF Flush, TypeOK, mapVars, history
<1>4. CASE DestroyRenderer
  BY <1>0, <1>4, QueueUnchanged, WakeUnchanged, SentUnchanged
  DEF DestroyRenderer, TypeOK, mapVars, history
<1>5. ASSUME NEW a \in Apis, RunHandleWrTransactionEvents(a)
      PROVE  TypeOK'
  <2>1. QueueTypeOK'
    BY <1>0, <1>5
    DEF RunHandleWrTransactionEvents, QueueTypeOK, CallTypes, lists
  <2>2. WakeTypeOK'
    BY <1>0, <1>5 DEF RunHandleWrTransactionEvents, WakeTypeOK, mapVars
  <2> QED BY <1>0, <1>5, <2>1, <2>2, SentUnchanged
          DEF RunHandleWrTransactionEvents, TypeOK, history
<1>6. CASE HandleWrTransactionEvents
  <2> DEFINE a == call[1]
  <2>0. a \in Apis /\ call[2] \in CallTypes
    BY <1>0, <1>6 DEF HandleWrTransactionEvents, QueueTypeOK
  <2>1. CASE HandleDone(a)
    <3>1. QueueTypeOK'
      BY <1>0, <2>1 DEF HandleDone, QueueTypeOK, lists
    <3> QED BY <1>0, <2>1, <3>1, WakeUnchanged, SentUnchanged
            DEF HandleDone, TypeOK, mapVars, history
  <2>2. CASE HandleTransaction(a)
    <3>1. events(a) # <<>> /\ PopEvent(a)
      BY <2>2 DEF HandleTransaction
    <3>2. QueueTypeOK'
      BY <1>0, <2>0, <2>2, <3>1, PopShape
      DEF HandleTransaction, QueueTypeOK, lists
    <3>3. Head(events(a)).txn \in Txn
      BY <1>0, <2>0, <2>2, <3>1, PopShape
      DEF HandleTransaction, Event, TransactionEvents, TexturesEvents, OpsEvents
    <3>4. SentTypeOK'
      BY <1>0, <2>0, <2>2, <3>3, SendType
      DEF HandleTransaction, SentTypeOK, history
    <3> QED BY <1>0, <2>2, <3>2, <3>4, WakeUnchanged
            DEF HandleTransaction, TypeOK, mapVars
  <2>3. CASE HandleAsyncImagePipelineOps(a)
    <3>1. events(a) # <<>> /\ PopEvent(a)
      BY <2>3 DEF HandleAsyncImagePipelineOps
    <3>2. QueueTypeOK'
      BY <1>0, <2>0, <2>3, <3>1, PopShape
      DEF HandleAsyncImagePipelineOps, QueueTypeOK, lists
    <3>3. Head(events(a)).txn \in Txn /\ Head(events(a)).count \in Nat
      BY <1>0, <2>0, <2>3, <3>1, PopShape DEF HandleAsyncImagePipelineOps,
         Event, TransactionEvents, TexturesEvents, OpsEvents
    <3>4. SentTypeOK'
      BY <1>0, <2>3, <3>3
      DEF HandleAsyncImagePipelineOps, SentTypeOK, history
    <3> QED BY <1>0, <2>3, <3>2, <3>4, WakeUnchanged
            DEF HandleAsyncImagePipelineOps, TypeOK, mapVars
  <2>4. CASE HandleRemoteTexture(a, call[2])
    <3>1. /\ events(a) # <<>>
          /\ Head(events(a)).tag = "PendingRemoteTextures"
          /\ Head(events(a)).list # <<>>
      BY <2>4 DEF HandleRemoteTexture
    <3>2. UNCHANGED mPendingWrTransactionEvents \/ PopTexture(a)
      BY <2>4 DEF HandleRemoteTexture
    <3>3. mPendingWrTransactionEvents' \in [Apis -> Seq(Event)]
      BY <1>0, <2>0, <3>1, <3>2, PopTextureShape DEF QueueTypeOK
    <3>4. QueueTypeOK'
      BY <1>0, <2>4, <3>3 DEF HandleRemoteTexture, QueueTypeOK, lists
    <3>5. WakeTypeOK'
      <4>1. CASE UNCHANGED callbacks
        BY <1>0, <2>4, <4>1 DEF HandleRemoteTexture, WakeTypeOK
      <4>2. CASE CheckRemoteTextureReady(Head(Head(events(a)).list), a)
        <5>0. PICK x \in Textures : CheckRemoteTextureReady(x, a)
          BY <1>0, <2>0, <3>1, <4>2, HeadTexture
        <5>1. callbacks' \in [Textures -> [Apis -> Nat]]
          BY <1>0, <2>0, <5>0 DEF CheckRemoteTextureReady, WakeTypeOK
        <5> QED BY <1>0, <2>4, <5>1 DEF HandleRemoteTexture, WakeTypeOK
      <4> QED BY <2>4, <4>1, <4>2 DEF HandleRemoteTexture
    <3> QED BY <1>0, <2>4, <3>4, <3>5, SentUnchanged
            DEF HandleRemoteTexture, TypeOK, history
  <2>5. CASE RemoteTexturesDone(a)
    <3>1. events(a) # <<>> /\ PopEvent(a)
      BY <2>5 DEF RemoteTexturesDone
    <3>2. QueueTypeOK'
      BY <1>0, <2>0, <2>5, <3>1, PopShape
      DEF RemoteTexturesDone, QueueTypeOK, lists
    <3> QED BY <1>0, <2>5, <3>2, WakeUnchanged, SentUnchanged
            DEF RemoteTexturesDone, TypeOK, mapVars, history
  <2> QED BY <1>6, <2>1, <2>2, <2>3, <2>4, <2>5 DEF HandleWrTransactionEvents
<1>7. ASSUME NEW x \in Textures, RemoteTextureReady(x)
      PROVE  TypeOK'
  <2>1. WakeTypeOK'
    BY <1>0, <1>7 DEF RemoteTextureReady, WakeTypeOK
  <2> QED BY <1>0, <1>7, <2>1, QueueUnchanged, SentUnchanged
          DEF RemoteTextureReady, TypeOK, history
<1>8. CASE UNCHANGED vars
  BY <1>0, <1>8, QueueUnchanged, WakeUnchanged, SentUnchanged
  DEF vars, TypeOK, mapVars, history
<1> QED BY <1>1, <1>2, <1>3, <1>4, <1>5, <1>6, <1>7, <1>8,
           SendTransactionType DEF Next, Callers

-----------------------------------------------------------------------------
(* No queue is forgotten                                                    *)

(* An API whose queue, runnables and callbacks are left alone is woken up   *)
(* as before.                                                               *)
LEMMA WokenUpUnchanged ==
  ASSUME NEW a \in Apis, WokenUp(a), events(a)' = events(a),
         runnables'[a] = runnables[a],
         \A x \in Textures : callbacks'[x][a] = callbacks[x][a],
         QueueTypeOK, events(a) # <<>>
  PROVE  WokenUp(a)'
<1>1. CASE runnables[a] > 0
  BY <1>1 DEF WokenUp
<1>2. CASE ~(runnables[a] > 0)
  <2>1. /\ Head(events(a)).tag = "PendingRemoteTextures"
        /\ Head(events(a)).list # <<>>
        /\ callbacks[Head(Head(events(a)).list)][a] > 0
    BY <1>2 DEF WokenUp
  <2>2. Head(Head(events(a)).list) \in Textures
    BY <2>1, HeadTexture
  <2>3. /\ Head(events(a)') = Head(events(a))
        /\ callbacks'[Head(Head(events(a)).list)][a] > 0
    BY <2>1, <2>2
  <2> QED BY <2>1, <2>3 DEF WokenUp
<1> QED BY <1>1, <1>2

(* A step that leaves alone all queues but that of the API that is handled  *)
(* afterwards, and what wakes the others.                                   *)
LEMMA OthersUnchanged ==
  ASSUME QueueTypeOK, OthersWokenUp, NEW a \in Apis,
         call = Idle \/ call[1] = a,
         call' # Idle /\ call'[1] = a,
         \A b \in Apis \ {a} :
           /\ events(b)' = events(b) /\ runnables'[b] = runnables[b]
           /\ \A x \in Textures : callbacks'[x][b] = callbacks[x][b]
  PROVE  OthersWokenUp'
<1> SUFFICES ASSUME NEW b \in Apis, events(b)' # <<>>, b # a
             PROVE  WokenUp(b)'
  BY DEF OthersWokenUp
<1>1. WokenUp(b)
  BY DEF OthersWokenUp
<1> QED BY <1>1, WokenUpUnchanged

(* A step that leaves alone every queue, and what wakes it.                 *)
LEMMA AllUnchanged ==
  ASSUME QueueTypeOK, OthersWokenUp,
         UNCHANGED <<mPendingWrTransactionEvents, call, runnables, callbacks>>
  PROVE  OthersWokenUp'
<1> SUFFICES ASSUME NEW b \in Apis, events(b)' # <<>>,
                    ~(call' # Idle /\ call'[1] = b)
             PROVE  WokenUp(b)'
  BY DEF OthersWokenUp
<1>1. WokenUp(b) /\ events(b)' = events(b)
  BY DEF OthersWokenUp, events
<1> QED BY <1>1, WokenUpUnchanged

(* SendTransaction holds the transaction back and handles the events, or    *)
(* touches no queue.                                                        *)
LEMMA SendTransactionWoken ==
  ASSUME QueueTypeOK, OthersWokenUp, NEW a \in Apis, SendTransaction(a)
  PROVE  OthersWokenUp'
<1>1. CASE UNCHANGED <<mPendingWrTransactionEvents, call>>
  BY <1>1, AllUnchanged DEF SendTransaction, mapVars
<1>2. CASE ~UNCHANGED <<mPendingWrTransactionEvents, call>>
  <2>1. /\ call = Idle /\ call' = <<a, "AsyncWait">>
        /\ UNCHANGED <<runnables, callbacks>>
    BY <1>2 DEF SendTransaction, mapVars
  <2>2. call' # Idle /\ call'[1] = a
    BY <2>1 DEF Idle
  <2>3. \A b \in Apis \ {a} : events(b)' = events(b)
    BY <1>2 DEF SendTransaction, QueueTypeOK, events
  <2> QED BY <2>1, <2>2, <2>3, OthersUnchanged
<1> QED BY <1>1, <1>2

(* Handling an event leaves the other queues alone; if it stops early, the  *)
(* texture at the front has the API's callback.                             *)
LEMMA HandleWoken ==
  ASSUME QueueTypeOK, WakeTypeOK, OthersWokenUp, HandleWrTransactionEvents
  PROVE  OthersWokenUp'
<1> DEFINE a == call[1]
<1>0. a \in Apis /\ call # Idle
  BY DEF HandleWrTransactionEvents, QueueTypeOK
<1>1. CASE HandleDone(a)
  <2> SUFFICES ASSUME NEW b \in Apis, events(b)' # <<>>
               PROVE  WokenUp(b)'
    BY DEF OthersWokenUp
  <2>1. b # a /\ events(b)' = events(b)
    BY <1>1 DEF HandleDone, events
  <2>2. WokenUp(b)
    BY <2>1 DEF OthersWokenUp
  <2> QED BY <1>1, <2>1, <2>2, WokenUpUnchanged DEF HandleDone, mapVars
<1>2. CASE \/ HandleTransaction(a) \/ HandleAsyncImagePipelineOps(a)
           \/ RemoteTexturesDone(a)
  <2>1. /\ events(a) # <<>> /\ PopEvent(a)
        /\ UNCHANGED <<call, runnables, callbacks>>
    BY <1>2 DEF HandleTransaction, HandleAsyncImagePipelineOps,
       RemoteTexturesDone, mapVars
  <2>2. \A b \in Apis \ {a} : events(b)' = events(b)
    BY <1>0, <2>1, PopShape
  <2> QED BY <1>0, <2>1, <2>2, OthersUnchanged
<1>3. CASE HandleRemoteTexture(a, call[2])
  <2> DEFINE x == Head(Head(events(a)).list)
  <2>1. /\ events(a) # <<>> /\ Head(events(a)).list # <<>>
        /\ Head(events(a)).tag = "PendingRemoteTextures"
        /\ UNCHANGED runnables
    BY <1>3 DEF HandleRemoteTexture
  <2>2. x \in Textures
    BY <1>0, <2>1, HeadTexture
  <2>3. CASE UNCHANGED <<call, callbacks>> /\ PopTexture(a)
    <3>1. \A b \in Apis \ {a} : events(b)' = events(b)
      BY <1>0, <2>1, <2>3, PopTextureShape
    <3> QED BY <1>0, <2>1, <2>3, <3>1, OthersUnchanged
  <2>4. CASE /\ UNCHANGED mPendingWrTransactionEvents /\ call' = Idle
             /\ CheckRemoteTextureReady(x, a)
    <3>1. /\ callbacks'[x][a] > 0
          /\ \A b \in Apis \ {a} : \A y \in Textures :
               callbacks'[y][b] = callbacks[y][b]
      <4> DEFINE old == callbacks[x]
      <4>1. /\ old \in [Apis -> Nat]
            /\ callbacks' = [callbacks EXCEPT ![x] = [old EXCEPT ![a] = @ + 1]]
        BY <1>0, <2>2, <2>4 DEF CheckRemoteTextureReady, WakeTypeOK
      <4>2. /\ callbacks'[x] = [old EXCEPT ![a] = @ + 1]
            /\ \A y \in Textures \ {x} : callbacks'[y] = callbacks[y]
        BY <1>0, <2>2, <4>1 DEF WakeTypeOK
      <4> HIDE DEF x
      <4> QED BY <1>0, <4>1, <4>2
    <3> SUFFICES ASSUME NEW b \in Apis, events(b)' # <<>>
                 PROVE  WokenUp(b)'
      BY DEF OthersWokenUp
    <3>2. events(b)' = events(b)
      BY <2>4 DEF events
    <3>3. CASE b = a
      BY <2>1, <3>1, <3>2, <3>3 DEF WokenUp
    <3>4. CASE b # a
      <4>1. WokenUp(b)
        BY <3>2, <3>4 DEF OthersWokenUp
      <4> QED BY <2>1, <3>1, <3>2, <3>4, <4>1, WokenUpUnchanged
    <3> QED BY <3>3, <3>4
  <2> QED BY <1>3, <2>3, <2>4 DEF HandleRemoteTexture
<1> QED BY <1>1, <1>2, <1>3 DEF HandleWrTransactionEvents

(* A texture that becomes ready turns the callbacks into runnables.         *)
LEMMA ReadyWoken ==
  ASSUME QueueTypeOK, WakeTypeOK, OthersWokenUp,
         NEW x \in Textures, RemoteTextureReady(x)
  PROVE  OthersWokenUp'
<1> SUFFICES ASSUME NEW b \in Apis, events(b)' # <<>>,
                    ~(call' # Idle /\ call'[1] = b)
             PROVE  WokenUp(b)'
  BY DEF OthersWokenUp
<1>1. WokenUp(b) /\ events(b)' = events(b)
  BY DEF OthersWokenUp, RemoteTextureReady, events
<1>2. /\ runnables'[b] = runnables[b] + callbacks[x][b]
      /\ runnables[b] \in Nat /\ callbacks[x][b] \in Nat
      /\ \A y \in Textures \ {x} : callbacks'[y] = callbacks[y]
  BY DEF RemoteTextureReady, WakeTypeOK
<1>3. CASE runnables[b] + callbacks[x][b] > 0
  BY <1>2, <1>3 DEF WokenUp
<1>4. CASE runnables[b] = 0 /\ callbacks[x][b] = 0
  <2>1. /\ Head(events(b)).tag = "PendingRemoteTextures"
        /\ Head(events(b)).list # <<>>
        /\ callbacks[Head(Head(events(b)).list)][b] > 0
    BY <1>1, <1>4 DEF WokenUp
  <2>2. Head(Head(events(b)).list) \in Textures \ {x}
    BY <1>1, <1>4, <2>1, HeadTexture
  <2> QED BY <1>1, <1>2, <2>1, <2>2 DEF WokenUp
<1> QED BY <1>2, <1>3, <1>4

(* Every step leaves each queue with something that will handle it.         *)
LEMMA NextWoken == TypeOK /\ OthersWokenUp /\ [Next]_vars => OthersWokenUp'
<1> SUFFICES ASSUME TypeOK, OthersWokenUp, [Next]_vars PROVE OthersWokenUp'
  OBVIOUS
<1>0. QueueTypeOK /\ WakeTypeOK
  BY DEF TypeOK
<1>1. ASSUME NEW a \in Apis, NEW x \in Textures,
             GetPendingRemoteTextureInfoList(a, x)
      PROVE  OthersWokenUp'
  BY <1>0, <1>1, AllUnchanged DEF GetPendingRemoteTextureInfoList, mapVars
<1>2. ASSUME NEW a \in Apis, NEW k \in 0 .. 1,
             GetPendingAsyncImagePipelineOps(a, k)
      PROVE  OthersWokenUp'
  BY <1>0, <1>2, AllUnchanged DEF GetPendingAsyncImagePipelineOps, mapVars
<1>3. ASSUME NEW a \in Apis, NEW type \in {"FlushWithWait", "FlushWithoutWait"},
             Flush(a, type)
      PROVE  OthersWokenUp'
  BY <1>0, <1>3, OthersUnchanged DEF Flush, mapVars, Idle, events
<1>4. CASE DestroyRenderer
  BY <1>0, <1>4, AllUnchanged DEF DestroyRenderer, mapVars
<1>5. ASSUME NEW a \in Apis, RunHandleWrTransactionEvents(a)
      PROVE  OthersWokenUp'
  <2>1. \A b \in Apis \ {a} : runnables'[b] = runnables[b]
    BY <1>0, <1>5 DEF RunHandleWrTransactionEvents, WakeTypeOK
  <2> QED BY <1>0, <1>5, <2>1, OthersUnchanged
          DEF RunHandleWrTransactionEvents, mapVars, Idle, events
<1>6. CASE UNCHANGED vars
  BY <1>0, <1>6, AllUnchanged DEF vars, mapVars
<1> QED BY <1>0, <1>1, <1>2, <1>3, <1>4, <1>5, <1>6, SendTransactionWoken,
           HandleWoken, ReadyWoken DEF Next, Callers

-----------------------------------------------------------------------------
(* Operations are applied before their transaction is sent                  *)

(* The places of the queues when an event is taken from one of them.        *)
LEMMA PopPlaces ==
  ASSUME QueueTypeOK, NEW a \in Apis, events(a) # <<>>, PopEvent(a),
         NEW b \in Apis, NEW t \in Txn, NEW i \in Nat
  PROVE  LET k == IF b = a THEN i + 1 ELSE i
         IN /\ TxnAt(b, i, t)' <=> TxnAt(b, k, t) /\ i # 0
            /\ OpsAt(b, i, t)' <=> OpsAt(b, k, t) /\ i # 0
            /\ OpsAt(b, i, t)' => events(b)'[i].count = events(b)[k].count
<1>1. CASE b = a
  <2>1. /\ Len(events(a)) \in Nat \ {0}
        /\ Len(events(a)') = Len(events(a)) - 1
        /\ \A j \in 1 .. Len(events(a)) - 1 :
             events(a)'[j] = events(a)[j + 1]
    BY PopShape
  <2>2. CASE i \in 1 .. Len(events(a)) - 1
    BY <1>1, <2>1, <2>2 DEF TxnAt, OpsAt
  <2>3. CASE i \notin 1 .. Len(events(a)) - 1
    BY <1>1, <2>1, <2>3 DEF TxnAt, OpsAt
  <2> QED BY <2>2, <2>3
<1>2. CASE b # a
  <2>1. events(b)' = events(b)
    BY <1>2, PopShape
  <2>2. i \in 1 .. Len(events(b)) => i # 0
    OBVIOUS
  <2> QED BY <1>2, <2>1, <2>2 DEF TxnAt, OpsAt
<1> QED BY <1>1, <1>2

(* They stay as they are when a list of textures gets shorter.              *)
LEMMA PopTexturePlaces ==
  ASSUME QueueTypeOK, NEW a \in Apis, events(a) # <<>>,
         Head(events(a)).tag = "PendingRemoteTextures",
         Head(events(a)).list # <<>>, PopTexture(a),
         NEW b \in Apis, NEW t \in Txn, NEW i \in Nat
  PROVE  /\ TxnAt(b, i, t)' <=> TxnAt(b, i, t)
         /\ OpsAt(b, i, t)' <=> OpsAt(b, i, t)
         /\ OpsAt(b, i, t)' => events(b)'[i].count = events(b)[i].count
<1>1. CASE b = a
  <2>1. /\ Len(events(a)') = Len(events(a))
        /\ \A j \in 1 .. Len(events(a)) :
             /\ events(a)'[j].tag = events(a)[j].tag
             /\ events(a)[j].tag # "PendingRemoteTextures" =>
                  events(a)'[j] = events(a)[j]
    BY PopTextureShape
  <2> QED BY <1>1, <2>1 DEF TxnAt, OpsAt
<1>2. CASE b # a
  <2>1. events(b)' = events(b)
    BY <1>2, PopTextureShape
  <2> QED BY <2>1 DEF TxnAt, OpsAt
<1> QED BY <1>1, <1>2

(* The places of the queues when a transaction is held back: it is the last *)
(* of its queue, behind its operations if there are any.                    *)
LEMMA HoldPlaces ==
  ASSUME QueueTypeOK, NEW a \in Apis, NEW t \in Txn,
         mPendingWrTransactionEvents' =
           [mPendingWrTransactionEvents EXCEPT ![a] =
              events(a) \o EventsBefore(a, t) \o <<TransactionEvent(t)>>]
  PROVE  \E last \in Nat : Len(events(a)) < last /\
           \A b \in Apis, u \in Txn, i \in Nat :
             /\ TxnAt(b, i, u)' <=>
                  TxnAt(b, i, u) \/ (b = a /\ i = last /\ u = t)
             /\ OpsAt(b, i, u)' <=>
                  OpsAt(b, i, u)
                  \/ /\ b = a /\ i + 1 = last /\ u = t
                     /\ mPendingAsyncImagePipelineOps[a].count # 0
             /\ OpsAt(b, i, u)' => events(b)'[i].count =
                  IF OpsAt(b, i, u) THEN events(b)[i].count
                  ELSE mPendingAsyncImagePipelineOps[a].count
<1> DEFINE pre  == EventsBefore(a, t)
           ops  == mPendingAsyncImagePipelineOps[a]
           n    == Len(events(a))
           m    == Len(pre)
           next == events(a)'
<1>1. /\ next = events(a) \o pre \o <<TransactionEvent(t)>>
      /\ \A b \in Apis \ {a} : events(b)' = events(b)
  BY DEF QueueTypeOK, events
<1>2. /\ n \in Nat /\ m \in Nat /\ Len(next) = n + m + 1
      /\ \A i \in 1 .. n : next[i] = events(a)[i]
      /\ \A i \in 1 .. m : next[n + i] = pre[i]
      /\ next[n + m + 1] = TransactionEvent(t)
  BY <1>1, HoldShape
<1>3. /\ \A i \in 1 .. m : pre[i].tag # "Transaction"
      /\ \A i \in 1 .. m : pre[i].tag = "PendingAsyncImagePipelineOps" =>
           i = m /\ pre[i].txn = t /\ pre[i].count = ops.count
      /\ ops.count # 0 => m # 0 /\ pre[m].tag = "PendingAsyncImagePipelineOps"
  BY EventsBeforeShape, EmptySeq
<1>4. \A i \in 1 .. m :
         pre[i].tag = "PendingAsyncImagePipelineOps" => ops.count # 0
  <2>1. CASE ops.count = 0
    BY <2>1 DEF EventsBefore, RemoteTexturesEvent
  <2> QED BY <2>1
<1>5. TransactionEvent(t).tag = "Transaction" /\ TransactionEvent(t).txn = t
  BY DEF TransactionEvent
<1> HIDE DEF pre, ops, n, m, next
<1>6. \A i \in 1 .. n + m + 1 :
        \/ i \in 1 .. n
        \/ i = n + m + 1
        \/ \E j \in 1 .. m : i = n + j
  BY <1>2
<1>7. ASSUME NEW u \in Txn, NEW i \in Nat
      PROVE  /\ TxnAt(a, i, u)' <=>
                  TxnAt(a, i, u) \/ (i = n + m + 1 /\ u = t)
             /\ OpsAt(a, i, u)' <=>
                  OpsAt(a, i, u) \/ (i = n + m /\ u = t /\ ops.count # 0)
             /\ OpsAt(a, i, u)' => next[i].count =
                  IF OpsAt(a, i, u) THEN events(a)[i].count ELSE ops.count
  <2>1. CASE i \in 1 .. n
    BY <1>2, <1>3, <2>1 DEF TxnAt, OpsAt, n, next
  <2>2. CASE i = n + m + 1
    BY <1>2, <1>5, <2>2 DEF TxnAt, OpsAt, n, next
  <2>3. CASE \E j \in 1 .. m : i = n + j
    <3>1. PICK j \in 1 .. m : i = n + j
      BY <2>3
    <3>2. next[i] = pre[j] /\ i \in 1 .. Len(next) /\ i \notin 1 .. n
      BY <1>2, <3>1
    <3> QED BY <1>2, <1>3, <1>4, <3>1, <3>2 DEF TxnAt, OpsAt, n, next
  <2>4. CASE i \notin 1 .. n + m + 1
    BY <1>2, <1>3, <2>4 DEF TxnAt, OpsAt, n, next
  <2> QED BY <1>6, <2>1, <2>2, <2>3, <2>4
<1>8. ASSUME NEW b \in Apis \ {a}, NEW u \in Txn, NEW i \in Nat
      PROVE  /\ TxnAt(b, i, u)' <=> TxnAt(b, i, u)
             /\ OpsAt(b, i, u)' <=> OpsAt(b, i, u)
             /\ events(b)'[i].count = events(b)[i].count
  BY <1>1, <1>8 DEF TxnAt, OpsAt
<1>9. n + m + 1 \in Nat /\ n < n + m + 1
  BY <1>2
<1>10. \A i \in Nat : i + 1 = n + m + 1 <=> i = n + m
  BY <1>2
<1>11. \A b \in Apis, u \in Txn, i \in Nat :
         /\ TxnAt(b, i, u)' <=>
              TxnAt(b, i, u) \/ (b = a /\ i = n + m + 1 /\ u = t)
         /\ OpsAt(b, i, u)' <=>
              OpsAt(b, i, u)
              \/ (b = a /\ i + 1 = n + m + 1 /\ u = t /\ ops.count # 0)
         /\ OpsAt(b, i, u)' => events(b)'[i].count =
              IF OpsAt(b, i, u) THEN events(b)[i].count ELSE ops.count
  <2> TAKE b \in Apis, u \in Txn, i \in Nat
  <2>1. CASE b = a
    BY <1>7, <1>10, <2>1 DEF next
  <2>2. CASE b # a
    BY <1>8, <2>2
  <2> QED BY <2>1, <2>2
<1> QED BY <1>9, <1>11 DEF ops, n

(* A step that moves no transaction and applies nothing.                    *)
LEMMA OpsUnchanged ==
  ASSUME OpsInv,
         UNCHANGED <<mPendingWrTransactionEvents, sent, applied, asked, txns>>
  PROVE  OpsInv'
  BY DEF OpsInv, HeldOnce, HeldIsUnsent, OpsBeforeTxn, AppliedOrAhead,
     NewIsUntouched, SentIsApplied, TxnAt, OpsAt, events

(* The list of a PendingRemoteTextures event gets shorter.                  *)
LEMMA PopTextureOps ==
  ASSUME QueueTypeOK, OpsInv, NEW a \in Apis, events(a) # <<>>,
         Head(events(a)).tag = "PendingRemoteTextures",
         Head(events(a)).list # <<>>, PopTexture(a),
         UNCHANGED <<sent, applied, asked, txns>>
  PROVE  OpsInv'
<1>1. \A b \in Apis, t \in Txn, i \in Nat :
        /\ TxnAt(b, i, t)' <=> TxnAt(b, i, t)
        /\ OpsAt(b, i, t)' <=> OpsAt(b, i, t)
        /\ OpsAt(b, i, t)' => events(b)'[i].count = events(b)[i].count
  BY PopTexturePlaces
<1>2. HeldOnce' /\ HeldIsUnsent'
  BY <1>1 DEF OpsInv, HeldOnce, HeldIsUnsent
<1>3. OpsBeforeTxn'
  BY <1>1 DEF OpsInv, OpsBeforeTxn
<1>4. AppliedOrAhead'
  <2> SUFFICES ASSUME NEW b \in Apis, NEW t \in Txn, NEW i \in Nat,
                      TxnAt(b, i, t)'
               PROVE  applied'[t] = asked'[t].count \/ OpsAt(b, i - 1, t)'
    BY DEF AppliedOrAhead
  <2>1. i # 0
    BY <1>1 DEF TxnAt
  <2> QED BY <1>1, <2>1 DEF OpsInv, AppliedOrAhead
<1>5. NewIsUntouched' /\ SentIsApplied'
  BY DEF OpsInv, NewIsUntouched, SentIsApplied
<1> QED BY <1>2, <1>3, <1>4, <1>5 DEF OpsInv

(* What stays true of the others when an event is taken from the queue a:   *)
(* only the one behind it may miss the operations in front of it.           *)
LEMMA PopKeeps ==
  ASSUME QueueTypeOK, OpsInv, NEW a \in Apis, events(a) # <<>>, PopEvent(a)
  PROVE  /\ HeldOnce'
         /\ \A b \in Apis, t \in Txn, i \in Nat : OpsAt(b, i, t)' =>
              /\ TxnAt(b, i + 1, t)' /\ applied[t] = 0
              /\ events(b)'[i].count = asked[t].count
              /\ \E k \in Nat : OpsAt(b, k, t) /\ ~(b = a /\ k = 1)
         /\ \A b \in Apis, t \in Txn, i \in Nat : TxnAt(b, i, t)' =>
              /\ \E k \in Nat : TxnAt(b, k, t) /\ ~(b = a /\ k = 1)
              /\ \/ applied[t] = asked[t].count
                 \/ OpsAt(b, i - 1, t)'
                 \/ OpsAt(a, 1, t)
<1>1. \A b \in Apis, t \in Txn, i \in Nat :
        LET k == IF b = a THEN i + 1 ELSE i
        IN /\ TxnAt(b, i, t)' <=> TxnAt(b, k, t) /\ i # 0
           /\ OpsAt(b, i, t)' <=> OpsAt(b, k, t) /\ i # 0
           /\ OpsAt(b, i, t)' => events(b)'[i].count = events(b)[k].count
  BY PopPlaces
<1>2. HeldOnce'
  <2> SUFFICES ASSUME NEW b \in Apis, NEW c \in Apis, NEW t \in Txn,
                      NEW i \in Nat, NEW j \in Nat,
                      TxnAt(b, i, t)', TxnAt(c, j, t)'
               PROVE  b = c /\ i = j
    BY DEF HeldOnce
  <2>1. /\ TxnAt(b, IF b = a THEN i + 1 ELSE i, t)
        /\ TxnAt(c, IF c = a THEN j + 1 ELSE j, t)
    BY <1>1
  <2> QED BY <2>1 DEF OpsInv, HeldOnce
<1>3. ASSUME NEW b \in Apis, NEW t \in Txn, NEW i \in Nat, OpsAt(b, i, t)'
      PROVE  /\ TxnAt(b, i + 1, t)' /\ applied[t] = 0
             /\ events(b)'[i].count = asked[t].count
             /\ \E k \in Nat : OpsAt(b, k, t) /\ ~(b = a /\ k = 1)
  <2> DEFINE k == IF b = a THEN i + 1 ELSE i
  <2>1. /\ k \in Nat /\ OpsAt(b, k, t) /\ ~(b = a /\ k = 1)
        /\ events(b)'[i].count = events(b)[k].count
    BY <1>1, <1>3
  <2>2. /\ TxnAt(b, k + 1, t) /\ applied[t] = 0
        /\ events(b)[k].count = asked[t].count
    BY <2>1 DEF OpsInv, OpsBeforeTxn
  <2>3. i + 1 \in Nat /\ i + 1 # 0
        /\ k + 1 = (IF b = a THEN (i + 1) + 1 ELSE i + 1)
    OBVIOUS
  <2>4. TxnAt(b, i + 1, t)'
    BY <1>1, <2>2, <2>3
  <2> QED BY <2>1, <2>2, <2>4
<1>4. ASSUME NEW b \in Apis, NEW t \in Txn, NEW i \in Nat, TxnAt(b, i, t)'
      PROVE  /\ \E k \in Nat : TxnAt(b, k, t) /\ ~(b = a /\ k = 1)
             /\ \/ applied[t] = asked[t].count
                \/ OpsAt(b, i - 1, t)'
                \/ OpsAt(a, 1, t)
  <2> DEFINE k == IF b = a THEN i + 1 ELSE i
  <2>1. /\ k \in Nat /\ TxnAt(b, k, t) /\ ~(b = a /\ k = 1)
        /\ i # 0 /\ i - 1 \in Nat
    BY <1>1, <1>4
  <2>2. CASE OpsAt(b, k - 1, t)
    <3>1. CASE b = a /\ i = 1
      <4>1. OpsAt(a, 1, t)
        BY <2>2, <3>1 DEF OpsAt
      <4> QED BY <2>1, <4>1
    <3>2. CASE ~(b = a /\ i = 1)
      <4>1. i - 1 # 0
        BY <2>1, <2>2, <3>2 DEF OpsAt
      <4>2. k - 1 = (IF b = a THEN (i - 1) + 1 ELSE i - 1)
        BY <2>1
      <4> QED BY <1>1, <2>1, <2>2, <4>1, <4>2
    <3> QED BY <3>1, <3>2
  <2> QED BY <2>1, <2>2 DEF OpsInv, AppliedOrAhead
<1> QED BY <1>2, <1>3, <1>4

(* A transaction that comes to the front of its queue is sent complete.     *)
LEMMA HandleTransactionOps ==
  ASSUME TypeOK, OpsInv, NEW a \in Apis, HandleTransaction(a)
  PROVE  OpsInv'
<1> DEFINE s == Head(events(a)).txn
<1>0. QueueTypeOK /\ SentTypeOK
  BY DEF TypeOK
<1>1. /\ events(a) # <<>> /\ PopEvent(a)
      /\ UNCHANGED <<applied, asked, txns>>
  BY DEF HandleTransaction, history
<1>2. s \in Txn /\ TxnAt(a, 1, s) /\ \A t \in Txn : ~OpsAt(a, 1, t)
  BY <1>0, <1>1, PopShape DEF HandleTransaction, Event, TransactionEvents,
     TexturesEvents, OpsEvents, TxnAt, OpsAt
<1>3. /\ s \in 1 .. txns /\ applied[s] = asked[s].count
      /\ \A b \in Apis : s \notin ToSet(sent[b])
  <2>1. ~OpsAt(a, 0, s)
    BY DEF OpsAt
  <2> QED BY <1>2, <2>1 DEF OpsInv, HeldIsUnsent, AppliedOrAhead
<1>4. \A b \in Apis : ToSet(sent'[b]) \subseteq ToSet(sent[b]) \cup {s}
  <2>1. sent' = [sent EXCEPT ![a] = Append(@, s)] /\ sent[a] \in Seq(Txn)
    BY <1>0 DEF HandleTransaction, SendToWebRender, SentTypeOK
  <2>2. ToSet(Append(sent[a], s)) \subseteq ToSet(sent[a]) \cup {s}
    BY <1>2, <2>1, AppendProperties DEF ToSet
  <2> QED BY <1>0, <2>1, <2>2 DEF SentTypeOK
<1>5. HeldOnce' /\ OpsBeforeTxn' /\ AppliedOrAhead'
  BY <1>0, <1>1, <1>2, PopKeeps DEF OpsBeforeTxn, AppliedOrAhead
<1>6. HeldIsUnsent'
  <2> SUFFICES ASSUME NEW b \in Apis, NEW t \in Txn, NEW i \in Nat,
                      TxnAt(b, i, t)'
               PROVE  t \in 1 .. txns /\ \A c \in Apis : t \notin ToSet(sent'[c])
    BY <1>1 DEF HeldIsUnsent
  <2>1. PICK k \in Nat : TxnAt(b, k, t) /\ ~(b = a /\ k = 1)
    BY <1>0, <1>1, PopKeeps
  <2>2. t # s
    BY <1>2, <2>1 DEF OpsInv, HeldOnce
  <2> QED BY <1>4, <2>1, <2>2 DEF OpsInv, HeldIsUnsent
<1>7. NewIsUntouched' /\ SentIsApplied'
  BY <1>1, <1>3, <1>4 DEF OpsInv, NewIsUntouched, SentIsApplied
<1> QED BY <1>5, <1>6, <1>7 DEF OpsInv

(* Operations that come to the front are applied to the transaction behind. *)
LEMMA HandleOpsOps ==
  ASSUME TypeOK, OpsInv, NEW a \in Apis, HandleAsyncImagePipelineOps(a)
  PROVE  OpsInv'
<1> DEFINE s == Head(events(a)).txn
<1>0. QueueTypeOK /\ SentTypeOK
  BY DEF TypeOK
<1>1. /\ events(a) # <<>> /\ PopEvent(a)
      /\ UNCHANGED <<sent, asked, txns>>
      /\ applied' = [applied EXCEPT ![s] = @ + Head(events(a)).count]
  BY DEF HandleAsyncImagePipelineOps, history
<1>2. /\ s \in Txn /\ OpsAt(a, 1, s) /\ \A t \in Txn : OpsAt(a, 1, t) => t = s
      /\ Head(events(a)) = events(a)[1]
  BY <1>0, <1>1, PopShape DEF HandleAsyncImagePipelineOps, Event,
     TransactionEvents, TexturesEvents, OpsEvents, OpsAt
<1>3. /\ TxnAt(a, 2, s) /\ applied[s] = 0
      /\ Head(events(a)).count = asked[s].count
  BY <1>2 DEF OpsInv, OpsBeforeTxn
<1>4. s \in 1 .. txns /\ \A b \in Apis : s \notin ToSet(sent[b])
  BY <1>2, <1>3 DEF OpsInv, HeldIsUnsent
<1>5. /\ asked[s].count \in Nat /\ applied'[s] = asked[s].count
      /\ \A t \in Txn \ {s} : applied'[t] = applied[t]
  BY <1>0, <1>1, <1>2, <1>3 DEF SentTypeOK
<1>6. HeldOnce'
  BY <1>0, <1>1, PopKeeps
<1>7. OpsBeforeTxn'
  <2> SUFFICES ASSUME NEW b \in Apis, NEW t \in Txn, NEW i \in Nat,
                      OpsAt(b, i, t)'
               PROVE  /\ TxnAt(b, i + 1, t)' /\ applied'[t] = 0
                      /\ events(b)'[i].count = asked[t].count
    BY <1>1 DEF OpsBeforeTxn
  <2>1. PICK k \in Nat : OpsAt(b, k, t) /\ ~(b = a /\ k = 1)
    BY <1>0, <1>1, PopKeeps
  <2>2. TxnAt(b, k + 1, t) /\ ~(b = a /\ k + 1 = 2)
    BY <2>1 DEF OpsInv, OpsBeforeTxn
  <2>3. t # s
    BY <1>2, <1>3, <2>2 DEF OpsInv, HeldOnce
  <2> QED BY <1>0, <1>1, <1>5, <2>3, PopKeeps
<1>8. AppliedOrAhead'
  BY <1>0, <1>1, <1>2, <1>5, PopKeeps DEF AppliedOrAhead
<1>9. HeldIsUnsent' /\ NewIsUntouched' /\ SentIsApplied'
  <2>1. HeldIsUnsent'
    BY <1>0, <1>1, PopKeeps DEF OpsInv, HeldIsUnsent
  <2>2. NewIsUntouched'
    BY <1>0, <1>1, <1>4, <1>5 DEF OpsInv, NewIsUntouched, SentTypeOK, Txn
  <2>3. \A b \in Apis : ToSet(sent[b]) \subseteq Txn
    BY <1>0 DEF SentTypeOK, ToSet
  <2>4. SentIsApplied'
    BY <1>1, <1>4, <1>5, <2>3 DEF OpsInv, SentIsApplied
  <2> QED BY <2>1, <2>2, <2>4
<1> QED BY <1>6, <1>7, <1>8, <1>9 DEF OpsInv

(* An empty list of textures goes.                                          *)
LEMMA RemoteTexturesDoneOps ==
  ASSUME TypeOK, OpsInv, NEW a \in Apis, RemoteTexturesDone(a)
  PROVE  OpsInv'
<1>0. QueueTypeOK
  BY DEF TypeOK
<1>1. /\ events(a) # <<>> /\ PopEvent(a)
      /\ UNCHANGED <<sent, applied, asked, txns>>
  BY DEF RemoteTexturesDone, history
<1>2. \A t \in Txn : ~OpsAt(a, 1, t)
  BY <1>0, <1>1, PopShape DEF RemoteTexturesDone, OpsAt
<1>3. HeldOnce' /\ OpsBeforeTxn' /\ AppliedOrAhead'
  BY <1>0, <1>1, <1>2, PopKeeps DEF OpsBeforeTxn, AppliedOrAhead
<1>4. HeldIsUnsent'
  BY <1>0, <1>1, PopKeeps DEF OpsInv, HeldIsUnsent
<1>5. NewIsUntouched' /\ SentIsApplied'
  BY <1>1 DEF OpsInv, NewIsUntouched, SentIsApplied
<1> QED BY <1>3, <1>4, <1>5 DEF OpsInv

(* SendTransaction: a transaction is held behind its operations, sent if it *)
(* has none, or dropped when the renderer is gone.                          *)
LEMMA SendTransactionOps ==
  ASSUME TypeOK, OpsInv, NEW a \in Apis, SendTransaction(a)
  PROVE  OpsInv'
<1> DEFINE t   == txns + 1
           ops == mPendingAsyncImagePipelineOps[a]
<1>0. QueueTypeOK /\ SentTypeOK
  BY DEF TypeOK
<1>1. /\ t \in Txn /\ txns \in Nat /\ txns' = t /\ UNCHANGED applied
      /\ applied[t] = 0
  BY <1>0, BoundsAssumption
  DEF SendTransaction, SentTypeOK, Txn, OpsInv, NewIsUntouched
<1>2. /\ \A b \in Apis, i \in Nat : ~TxnAt(b, i, t) /\ ~OpsAt(b, i, t)
      /\ \A b \in Apis : t \notin ToSet(sent[b])
  <2>1. t \notin 1 .. txns
    BY <1>1
  <2>2. \A b \in Apis, i \in Nat : ~TxnAt(b, i, t)
    BY <1>1, <2>1 DEF OpsInv, HeldIsUnsent
  <2>3. \A b \in Apis, i \in Nat : ~OpsAt(b, i, t)
    BY <1>1, <2>2 DEF OpsInv, OpsBeforeTxn
  <2> QED BY <2>1, <2>2, <2>3 DEF OpsInv, SentIsApplied
<1>3. NewIsUntouched'
  BY <1>1 DEF OpsInv, NewIsUntouched, Txn
<1>4. CASE UNCHANGED <<mPendingWrTransactionEvents, sent, asked>>
  <2>0. \A b \in Apis, u \in Txn, i \in Nat :
          /\ TxnAt(b, i, u)' <=> TxnAt(b, i, u)
          /\ OpsAt(b, i, u)' <=> OpsAt(b, i, u)
          /\ events(b)' = events(b)
    BY <1>4 DEF TxnAt, OpsAt, events
  <2>1. HeldOnce' /\ OpsBeforeTxn' /\ AppliedOrAhead'
    <3>1. HeldOnce'
      BY <2>0 DEF OpsInv, HeldOnce
    <3>2. OpsBeforeTxn'
      BY <1>1, <1>4, <2>0 DEF OpsInv, OpsBeforeTxn
    <3>3. ASSUME NEW b \in Apis, NEW u \in Txn, NEW i \in Nat, TxnAt(b, i, u)
          PROVE  applied[u] = asked[u].count \/ OpsAt(b, i - 1, u)'
      <4>1. i - 1 \in Nat
        BY <3>3 DEF TxnAt
      <4> QED BY <2>0, <3>3, <4>1 DEF OpsInv, AppliedOrAhead
    <3>4. AppliedOrAhead'
      BY <1>1, <1>4, <2>0, <3>3 DEF AppliedOrAhead
    <3> QED BY <3>1, <3>2, <3>4
  <2>2. HeldIsUnsent'
    BY <1>1, <1>4 DEF OpsInv, HeldIsUnsent, TxnAt, events
  <2>3. SentIsApplied'
    BY <1>1, <1>4 DEF OpsInv, SentIsApplied
  <2> QED BY <1>3, <2>1, <2>2, <2>3 DEF OpsInv
<1>5. CASE ~UNCHANGED <<mPendingWrTransactionEvents, sent, asked>>
  <2>1. /\ asked'[t].count = ops.count
        /\ \A u \in Txn \ {t} : asked'[u] = asked[u]
    <3>1. asked' = [asked EXCEPT ![t] =
                     [textures |-> ToSet(mPendingRemoteTextureInfoList[a]),
                      count |-> ops.count]]
      BY <1>5 DEF SendTransaction
    <3> HIDE DEF ops, t
    <3> QED BY <1>0, <1>1, <3>1 DEF SentTypeOK
  <2>2. CASE MustHold(EventsBefore(a, t), mPendingWrTransactionEvents[a])
    <3>1. /\ UNCHANGED sent
          /\ mPendingWrTransactionEvents' =
               [mPendingWrTransactionEvents EXCEPT ![a] =
                  events(a) \o EventsBefore(a, t) \o <<TransactionEvent(t)>>]
      BY <1>5, <2>2 DEF SendTransaction, events
    <3>2. PICK last \in Nat : Len(events(a)) < last /\
            \A b \in Apis, u \in Txn, i \in Nat :
              /\ TxnAt(b, i, u)' <=>
                   TxnAt(b, i, u) \/ (b = a /\ i = last /\ u = t)
              /\ OpsAt(b, i, u)' <=>
                   OpsAt(b, i, u)
                   \/ (b = a /\ i + 1 = last /\ u = t /\ ops.count # 0)
              /\ OpsAt(b, i, u)' => events(b)'[i].count =
                   IF OpsAt(b, i, u) THEN events(b)[i].count ELSE ops.count
      BY <1>0, <1>1, <3>1, HoldPlaces
    <3>3. HeldOnce'
      BY <1>2, <3>2 DEF OpsInv, HeldOnce
    <3>4. HeldIsUnsent'
      BY <1>1, <1>2, <3>1, <3>2 DEF OpsInv, HeldIsUnsent
    <3>5. OpsBeforeTxn'
      <4> SUFFICES ASSUME NEW b \in Apis, NEW u \in Txn, NEW i \in Nat,
                          OpsAt(b, i, u)'
                   PROVE  /\ TxnAt(b, i + 1, u)' /\ applied[u] = 0
                          /\ events(b)'[i].count = asked'[u].count
        BY <1>1 DEF OpsBeforeTxn
      <4>1. CASE OpsAt(b, i, u)
        <5>1. u # t
          BY <1>2, <4>1
        <5> QED BY <2>1, <3>2, <4>1, <5>1 DEF OpsInv, OpsBeforeTxn
      <4>2. CASE ~OpsAt(b, i, u)
        BY <1>1, <2>1, <3>2, <4>2
      <4> QED BY <4>1, <4>2
    <3>6. AppliedOrAhead'
      <4> SUFFICES ASSUME NEW b \in Apis, NEW u \in Txn, NEW i \in Nat,
                          TxnAt(b, i, u)'
                   PROVE  applied[u] = asked'[u].count \/ OpsAt(b, i - 1, u)'
        BY <1>1 DEF AppliedOrAhead
      <4>1. i # 0 /\ i - 1 \in Nat
        BY DEF TxnAt
      <4>2. CASE TxnAt(b, i, u)
        <5>1. u # t
          BY <1>2, <4>2
        <5> QED BY <2>1, <3>2, <4>1, <4>2, <5>1 DEF OpsInv, AppliedOrAhead
      <4>3. CASE ~TxnAt(b, i, u)
        BY <1>1, <2>1, <3>2, <4>1, <4>3
      <4> QED BY <4>2, <4>3
    <3>7. SentIsApplied'
      BY <1>0, <1>1, <1>2, <2>1, <3>1
      DEF OpsInv, SentIsApplied, SentTypeOK, ToSet
    <3> QED BY <1>3, <3>3, <3>4, <3>5, <3>6, <3>7 DEF OpsInv
  <2>3. CASE ~MustHold(EventsBefore(a, t), mPendingWrTransactionEvents[a])
    <3>1. /\ UNCHANGED mPendingWrTransactionEvents
          /\ sent' = [sent EXCEPT ![a] = Append(@, t)]
      BY <1>5, <2>3 DEF SendTransaction, SendToWebRender
    <3>2. events(a) = <<>> /\ EventsBefore(a, t) = <<>>
      <4>1. events(a) \in Seq(Event) /\ EventsBefore(a, t) \in Seq(Event)
        BY <1>0, <1>1, EventsBeforeShape DEF QueueTypeOK, events
      <4>2. events(a) \o EventsBefore(a, t) = <<>>
        BY <2>3 DEF MustHold, events
      <4> QED BY <4>1, <4>2, ConcatEqualIffEmpty
    <3>3. ops.count = 0
      BY <1>0, <1>1, <3>2, EventsBeforeShape
    <3>4. \A b \in Apis : ToSet(sent'[b]) \subseteq ToSet(sent[b]) \cup {t}
      <4>1. ToSet(Append(sent[a], t)) \subseteq ToSet(sent[a]) \cup {t}
        BY <1>0, <1>1, AppendProperties DEF ToSet, SentTypeOK
      <4> QED BY <1>0, <3>1, <4>1 DEF SentTypeOK
    <3>5. \A b \in Apis, u \in Txn, i \in Nat :
            /\ TxnAt(b, i, u)' <=> TxnAt(b, i, u)
            /\ OpsAt(b, i, u)' <=> OpsAt(b, i, u)
            /\ events(b)' = events(b)
      BY <3>1 DEF TxnAt, OpsAt, events
    <3>6. HeldOnce'
      BY <3>5 DEF OpsInv, HeldOnce
    <3>7. HeldIsUnsent'
      BY <1>1, <1>2, <3>4, <3>5 DEF OpsInv, HeldIsUnsent
    <3>8. OpsBeforeTxn'
      BY <1>1, <1>2, <2>1, <3>5 DEF OpsInv, OpsBeforeTxn
    <3>9. AppliedOrAhead'
      <4> SUFFICES ASSUME NEW b \in Apis, NEW u \in Txn, NEW i \in Nat,
                          TxnAt(b, i, u)'
                   PROVE  applied[u] = asked'[u].count \/ OpsAt(b, i - 1, u)'
        BY <1>1 DEF AppliedOrAhead
      <4>1. TxnAt(b, i, u) /\ i - 1 \in Nat /\ u # t
        BY <1>2, <3>5 DEF TxnAt
      <4> QED BY <2>1, <3>5, <4>1 DEF OpsInv, AppliedOrAhead
    <3>10. SentIsApplied'
      <4> SUFFICES ASSUME NEW b \in Apis, NEW u \in ToSet(sent'[b])
                   PROVE  u \in 1 .. txns' /\ applied[u] = asked'[u].count
        BY <1>1 DEF SentIsApplied
      <4>1. CASE u = t
        BY <1>1, <2>1, <3>3, <4>1
      <4>2. CASE u # t
        <5>1. u \in ToSet(sent[b])
          BY <3>4, <4>2
        <5>2. u \in Txn
          BY <1>0, <5>1 DEF SentTypeOK, ToSet
        <5> QED BY <1>1, <2>1, <4>2, <5>1, <5>2 DEF OpsInv, SentIsApplied
      <4> QED BY <4>1, <4>2
    <3> QED BY <1>3, <3>6, <3>7, <3>8, <3>9, <3>10 DEF OpsInv
  <2> QED BY <2>2, <2>3
<1> QED BY <1>4, <1>5

(* Every step keeps the operations with their transactions.                 *)
LEMMA NextOps == TypeOK /\ OpsInv /\ [Next]_vars => OpsInv'
<1> SUFFICES ASSUME TypeOK, OpsInv, [Next]_vars PROVE OpsInv'
  OBVIOUS
<1>0. QueueTypeOK
  BY DEF TypeOK
<1>1. ASSUME NEW a \in Apis, NEW x \in Textures,
             GetPendingRemoteTextureInfoList(a, x)
      PROVE  OpsInv'
  BY <1>1, OpsUnchanged DEF GetPendingRemoteTextureInfoList
<1>2. ASSUME NEW a \in Apis, NEW k \in 0 .. 1,
             GetPendingAsyncImagePipelineOps(a, k)
      PROVE  OpsInv'
  BY <1>2, OpsUnchanged DEF GetPendingAsyncImagePipelineOps, history
<1>3. ASSUME NEW a \in Apis, NEW type \in {"FlushWithWait", "FlushWithoutWait"},
             Flush(a, type)
      PROVE  OpsInv'
  BY <1>3, OpsUnchanged DEF Flush, history
<1>4. CASE DestroyRenderer
  BY <1>4, OpsUnchanged DEF DestroyRenderer, history
<1>5. ASSUME NEW a \in Apis, RunHandleWrTransactionEvents(a)
      PROVE  OpsInv'
  BY <1>5, OpsUnchanged DEF RunHandleWrTransactionEvents, history
<1>6. CASE HandleWrTransactionEvents
  <2> DEFINE a == call[1]
  <2>0. a \in Apis
    BY <1>0, <1>6 DEF HandleWrTransactionEvents, QueueTypeOK
  <2>1. CASE HandleDone(a)
    BY <2>1, OpsUnchanged DEF HandleDone, history
  <2>2. CASE HandleRemoteTexture(a, call[2])
    <3>1. /\ events(a) # <<>> /\ Head(events(a)).list # <<>>
          /\ Head(events(a)).tag = "PendingRemoteTextures"
          /\ UNCHANGED <<sent, applied, asked, txns>>
          /\ UNCHANGED mPendingWrTransactionEvents \/ PopTexture(a)
      BY <2>2 DEF HandleRemoteTexture, history
    <3> QED BY <1>0, <2>0, <3>1, OpsUnchanged, PopTextureOps
  <2> QED BY <1>6, <2>0, <2>1, <2>2, HandleTransactionOps, HandleOpsOps,
             RemoteTexturesDoneOps DEF HandleWrTransactionEvents
<1>7. ASSUME NEW x \in Textures, RemoteTextureReady(x)
      PROVE  OpsInv'
  BY <1>7, OpsUnchanged DEF RemoteTextureReady, history
<1>8. CASE UNCHANGED vars
  BY <1>8, OpsUnchanged DEF vars, history
<1> QED BY <1>1, <1>2, <1>3, <1>4, <1>5, <1>6, <1>7, <1>8,
           SendTransactionOps DEF Next, Callers

-----------------------------------------------------------------------------
(* Transactions stay in order                                               *)

(* A step that moves no transaction.                                        *)
LEMMA OrderUnchanged ==
  ASSUME InOrder, UNCHANGED <<mPendingWrTransactionEvents, sent>>
  PROVE  InOrder'
<1>1. \A b \in Apis, u \in Txn, i \in Nat : TxnAt(b, i, u)' <=> TxnAt(b, i, u)
  BY DEF TxnAt, events
<1> QED BY <1>1 DEF InOrder, HeldAscend, SentBeforeHeld, SentAscend

(* A list of textures gets shorter.                                         *)
LEMMA PopTextureOrder ==
  ASSUME QueueTypeOK, InOrder, NEW a \in Apis, events(a) # <<>>,
         Head(events(a)).tag = "PendingRemoteTextures",
         Head(events(a)).list # <<>>, PopTexture(a), UNCHANGED sent
  PROVE  InOrder'
<1>1. \A b \in Apis, u \in Txn, i \in Nat : TxnAt(b, i, u)' <=> TxnAt(b, i, u)
  BY PopTexturePlaces
<1> QED BY <1>1 DEF InOrder, HeldAscend, SentBeforeHeld, SentAscend

(* An event that is taken from the front leaves the others in order, and    *)
(* behind the transaction that it is.                                       *)
LEMMA PopOrder ==
  ASSUME QueueTypeOK, InOrder, NEW a \in Apis, events(a) # <<>>, PopEvent(a)
  PROVE  /\ HeldAscend'
         /\ \A b \in Apis, t \in Txn, i \in Nat : TxnAt(b, i, t)' =>
              \E k \in Nat : TxnAt(b, k, t) /\ (b = a => 1 < k)
<1>1. \A b \in Apis, t \in Txn, i \in Nat :
        TxnAt(b, i, t)' => TxnAt(b, IF b = a THEN i + 1 ELSE i, t) /\ i # 0
  BY PopPlaces
<1>2. HeldAscend'
  <2> SUFFICES ASSUME NEW b \in Apis, NEW t \in Txn, NEW u \in Txn,
                      NEW i \in Nat, NEW j \in Nat,
                      TxnAt(b, i, t)', TxnAt(b, j, u)', i < j
               PROVE  t < u
    BY DEF HeldAscend
  <2>1. /\ TxnAt(b, IF b = a THEN i + 1 ELSE i, t)
        /\ TxnAt(b, IF b = a THEN j + 1 ELSE j, u)
    BY <1>1
  <2> QED BY <2>1 DEF InOrder, HeldAscend
<1> QED BY <1>1, <1>2

(* What is sent after everything sent before and before what is held.       *)
LEMMA SendOrder ==
  ASSUME SentTypeOK, InOrder, NEW a \in Apis, NEW t \in Txn,
         SendToWebRender(a, t),
         \A s \in ToSet(sent[a]) : s < t
  PROVE  /\ SentAscend'
         /\ \A b \in Apis : \A s \in ToSet(sent'[b]) :
              s \in ToSet(sent[b]) \/ (b = a /\ s = t)
<1>1. /\ sent[a] \in Seq(Txn) /\ sent'[a] = Append(sent[a], t)
      /\ \A b \in Apis \ {a} : sent'[b] = sent[b]
  BY DEF SentTypeOK, SendToWebRender
<1>2. /\ Len(sent[a]) \in Nat /\ Len(sent'[a]) = Len(sent[a]) + 1
      /\ \A i \in 1 .. Len(sent[a]) : sent'[a][i] = sent[a][i]
      /\ sent'[a][Len(sent[a]) + 1] = t
      /\ DOMAIN sent[a] = 1 .. Len(sent[a])
      /\ DOMAIN sent'[a] = 1 .. Len(sent'[a])
  BY <1>1, AppendProperties, LenProperties
<1>3. \A i \in 1 .. Len(sent[a]) : sent[a][i] < t
  BY <1>2 DEF ToSet
<1>4. \A i, j \in 1 .. Len(sent'[a]) : i < j => sent'[a][i] < sent'[a][j]
  <2> TAKE i, j \in 1 .. Len(sent'[a])
  <2> HAVE i < j
  <2>1. i \in 1 .. Len(sent[a])
    BY <1>2
  <2>2. CASE j = Len(sent[a]) + 1
    BY <1>2, <1>3, <2>1, <2>2
  <2>3. CASE j \in 1 .. Len(sent[a])
    BY <1>2, <2>1, <2>3 DEF InOrder, SentAscend
  <2> QED BY <1>2, <2>2, <2>3
<1>5. SentAscend'
  BY <1>1, <1>4 DEF InOrder, SentAscend
<1>6. \A s \in ToSet(sent'[a]) : s \in ToSet(sent[a]) \/ s = t
  BY <1>2 DEF ToSet
<1> QED BY <1>1, <1>5, <1>6

(* The transaction that comes to the front is sent next.                    *)
LEMMA HandleTransactionOrder ==
  ASSUME TypeOK, InOrder, NEW a \in Apis, HandleTransaction(a)
  PROVE  InOrder'
<1> DEFINE s == Head(events(a)).txn
<1>0. QueueTypeOK /\ SentTypeOK
  BY DEF TypeOK
<1>1. events(a) # <<>> /\ PopEvent(a) /\ SendToWebRender(a, s)
  BY DEF HandleTransaction
<1>2. s \in Txn /\ TxnAt(a, 1, s)
  BY <1>0, <1>1, PopShape DEF HandleTransaction, Event, TransactionEvents,
     TexturesEvents, OpsEvents, TxnAt
<1>3. \A r \in ToSet(sent[a]) : r < s
  BY <1>2 DEF InOrder, SentBeforeHeld
<1>4. /\ SentAscend'
      /\ \A b \in Apis : \A r \in ToSet(sent'[b]) :
           r \in ToSet(sent[b]) \/ (b = a /\ r = s)
  BY <1>0, <1>1, <1>2, <1>3, SendOrder
<1>5. HeldAscend'
  BY <1>0, <1>1, PopOrder
<1>6. SentBeforeHeld'
  <2> SUFFICES ASSUME NEW b \in Apis, NEW r \in ToSet(sent'[b]), NEW t \in Txn,
                      NEW i \in Nat, TxnAt(b, i, t)'
               PROVE  r < t
    BY DEF SentBeforeHeld
  <2>1. PICK k \in Nat : TxnAt(b, k, t) /\ (b = a => 1 < k)
    BY <1>0, <1>1, PopOrder
  <2>2. CASE r \in ToSet(sent[b])
    BY <2>1, <2>2 DEF InOrder, SentBeforeHeld
  <2>3. CASE b = a /\ r = s
    BY <1>2, <2>1, <2>3 DEF InOrder, HeldAscend
  <2> QED BY <1>4, <2>2, <2>3
<1> QED BY <1>4, <1>5, <1>6 DEF InOrder

(* Taking another event from the front sends nothing.                       *)
LEMMA PopOnlyOrder ==
  ASSUME QueueTypeOK, InOrder, NEW a \in Apis, events(a) # <<>>, PopEvent(a),
         UNCHANGED sent
  PROVE  InOrder'
<1>1. HeldAscend'
  BY PopOrder
<1>2. SentBeforeHeld'
  BY PopOrder DEF InOrder, SentBeforeHeld
<1> QED BY <1>1, <1>2 DEF InOrder, SentAscend

(* A new transaction goes behind all others, or is sent when none is held.  *)
LEMMA SendTransactionOrder ==
  ASSUME TypeOK, OpsInv, InOrder, NEW a \in Apis, SendTransaction(a)
  PROVE  InOrder'
<1> DEFINE t == txns + 1
<1>0. QueueTypeOK /\ SentTypeOK
  BY DEF TypeOK
<1>1. t \in Txn /\ txns \in Nat
  BY <1>0, BoundsAssumption DEF SendTransaction, SentTypeOK, Txn
<1>2. /\ \A b \in Apis, u \in Txn, i \in Nat : TxnAt(b, i, u) => u < t
      /\ \A b \in Apis : \A s \in ToSet(sent[b]) : s < t
  BY <1>1 DEF OpsInv, HeldIsUnsent, SentIsApplied
<1>3. CASE UNCHANGED <<mPendingWrTransactionEvents, sent>>
  BY <1>3, OrderUnchanged
<1>4. CASE /\ UNCHANGED sent
           /\ mPendingWrTransactionEvents' =
                [mPendingWrTransactionEvents EXCEPT ![a] =
                   events(a) \o EventsBefore(a, t) \o <<TransactionEvent(t)>>]
  <2>1. PICK last \in Nat : Len(events(a)) < last /\
          \A b \in Apis, u \in Txn, i \in Nat :
            /\ TxnAt(b, i, u)' <=>
                 TxnAt(b, i, u) \/ (b = a /\ i = last /\ u = t)
            /\ OpsAt(b, i, u)' <=>
                 OpsAt(b, i, u)
                 \/ /\ b = a /\ i + 1 = last /\ u = t
                    /\ mPendingAsyncImagePipelineOps[a].count # 0
            /\ OpsAt(b, i, u)' => events(b)'[i].count =
                 IF OpsAt(b, i, u) THEN events(b)[i].count
                 ELSE mPendingAsyncImagePipelineOps[a].count
    BY <1>0, <1>1, <1>4, HoldPlaces
  <2>2. \A u \in Txn, i \in Nat : TxnAt(a, i, u) => i < last
    <3>1. Len(events(a)) \in Nat
      BY <1>0, LenProperties DEF QueueTypeOK, events
    <3> QED BY <2>1, <3>1 DEF TxnAt
  <2>3. HeldAscend'
    <3> SUFFICES ASSUME NEW b \in Apis, NEW u \in Txn, NEW v \in Txn,
                        NEW i \in Nat, NEW j \in Nat,
                        TxnAt(b, i, u)', TxnAt(b, j, v)', i < j
                 PROVE  u < v
      BY DEF HeldAscend
    <3>1. TxnAt(b, i, u) \/ (b = a /\ i = last /\ u = t)
      BY <2>1
    <3>2. TxnAt(b, j, v) \/ (b = a /\ j = last /\ v = t)
      BY <2>1
    <3>3. TxnAt(b, i, u)
      BY <2>2, <3>1, <3>2
    <3> QED BY <1>2, <3>2, <3>3 DEF InOrder, HeldAscend
  <2>4. SentBeforeHeld'
    <3> SUFFICES ASSUME NEW b \in Apis, NEW s \in ToSet(sent[b]), NEW u \in Txn,
                        NEW i \in Nat, TxnAt(b, i, u)'
                 PROVE  s < u
      BY <1>4 DEF SentBeforeHeld
    <3>1. TxnAt(b, i, u) \/ u = t
      BY <2>1
    <3> QED BY <1>2, <3>1 DEF InOrder, SentBeforeHeld
  <2> QED BY <1>4, <2>3, <2>4 DEF InOrder, SentAscend
<1>5. CASE /\ UNCHANGED mPendingWrTransactionEvents
           /\ SendToWebRender(a, t) /\ events(a) = <<>>
  <2>1. \A b \in Apis, u \in Txn, i \in Nat :
          TxnAt(b, i, u)' <=> TxnAt(b, i, u)
    BY <1>5 DEF TxnAt, events
  <2>2. HeldAscend'
    BY <2>1 DEF InOrder, HeldAscend
  <2>3. /\ SentAscend'
        /\ \A b \in Apis : \A s \in ToSet(sent'[b]) :
             s \in ToSet(sent[b]) \/ (b = a /\ s = t)
    BY <1>0, <1>1, <1>2, <1>5, SendOrder
  <2>4. \A u \in Txn, i \in Nat : ~TxnAt(a, i, u)
    BY <1>5 DEF TxnAt
  <2>5. SentBeforeHeld'
    BY <2>1, <2>3, <2>4 DEF InOrder, SentBeforeHeld
  <2> QED BY <2>2, <2>3, <2>5 DEF InOrder
<1>6. CASE MustHold(EventsBefore(a, t), mPendingWrTransactionEvents[a])
  <2>1. \/ UNCHANGED <<mPendingWrTransactionEvents, sent>>
        \/ /\ UNCHANGED sent
           /\ mPendingWrTransactionEvents' =
                [mPendingWrTransactionEvents EXCEPT ![a] =
                   events(a) \o EventsBefore(a, t) \o <<TransactionEvent(t)>>]
    BY <1>6 DEF SendTransaction, events
  <2> QED BY <1>3, <1>4, <2>1
<1>7. CASE ~MustHold(EventsBefore(a, t), mPendingWrTransactionEvents[a])
  <2>1. \/ UNCHANGED <<mPendingWrTransactionEvents, sent>>
        \/ UNCHANGED mPendingWrTransactionEvents /\ SendToWebRender(a, t)
    BY <1>7 DEF SendTransaction
  <2>2. events(a) = <<>>
    <3>1. events(a) \in Seq(Event) /\ EventsBefore(a, t) \in Seq(Event)
      BY <1>0, <1>1, EventsBeforeShape DEF QueueTypeOK, events
    <3>2. events(a) \o EventsBefore(a, t) = <<>>
      BY <1>7 DEF MustHold, events
    <3> QED BY <3>1, <3>2, ConcatEqualIffEmpty
  <2> QED BY <1>3, <1>5, <2>1, <2>2
<1> QED BY <1>6, <1>7

(* Every step keeps the transactions in order.                              *)
LEMMA NextOrder == TypeOK /\ OpsInv /\ InOrder /\ [Next]_vars => InOrder'
<1> SUFFICES ASSUME TypeOK, OpsInv, InOrder, [Next]_vars PROVE InOrder'
  OBVIOUS
<1>0. QueueTypeOK
  BY DEF TypeOK
<1>1. ASSUME NEW a \in Apis, NEW x \in Textures,
             GetPendingRemoteTextureInfoList(a, x)
      PROVE  InOrder'
  BY <1>1, OrderUnchanged DEF GetPendingRemoteTextureInfoList
<1>2. ASSUME NEW a \in Apis, NEW k \in 0 .. 1,
             GetPendingAsyncImagePipelineOps(a, k)
      PROVE  InOrder'
  BY <1>2, OrderUnchanged DEF GetPendingAsyncImagePipelineOps
<1>3. ASSUME NEW a \in Apis, NEW type \in {"FlushWithWait", "FlushWithoutWait"},
             Flush(a, type)
      PROVE  InOrder'
  BY <1>3, OrderUnchanged DEF Flush
<1>4. CASE DestroyRenderer
  BY <1>4, OrderUnchanged DEF DestroyRenderer
<1>5. ASSUME NEW a \in Apis, RunHandleWrTransactionEvents(a)
      PROVE  InOrder'
  BY <1>5, OrderUnchanged DEF RunHandleWrTransactionEvents
<1>6. CASE HandleWrTransactionEvents
  <2> DEFINE a == call[1]
  <2>0. a \in Apis
    BY <1>0, <1>6 DEF HandleWrTransactionEvents, QueueTypeOK
  <2>1. CASE HandleDone(a)
    BY <2>1, OrderUnchanged DEF HandleDone
  <2>2. CASE HandleAsyncImagePipelineOps(a) \/ RemoteTexturesDone(a)
    BY <1>0, <2>0, <2>2, PopOnlyOrder
    DEF HandleAsyncImagePipelineOps, RemoteTexturesDone
  <2>3. CASE HandleRemoteTexture(a, call[2])
    <3>1. /\ events(a) # <<>> /\ Head(events(a)).list # <<>>
          /\ Head(events(a)).tag = "PendingRemoteTextures"
          /\ UNCHANGED sent
          /\ UNCHANGED mPendingWrTransactionEvents \/ PopTexture(a)
      BY <2>3 DEF HandleRemoteTexture
    <3> QED BY <1>0, <2>0, <3>1, OrderUnchanged, PopTextureOrder
  <2> QED BY <1>6, <2>0, <2>1, <2>2, <2>3, HandleTransactionOrder
          DEF HandleWrTransactionEvents
<1>7. ASSUME NEW x \in Textures, RemoteTextureReady(x)
      PROVE  InOrder'
  BY <1>7, OrderUnchanged DEF RemoteTextureReady
<1>8. CASE UNCHANGED vars
  BY <1>8, OrderUnchanged DEF vars
<1> QED BY <1>1, <1>2, <1>3, <1>4, <1>5, <1>6, <1>7, <1>8,
           SendTransactionOrder DEF Next, Callers

-----------------------------------------------------------------------------
(* The transactions of a queue                                              *)

(* What holds of 0, and of n + 1 if it holds of n, holds of every number.   *)
LEMMA Induct ==
  ASSUME NEW S, 0 \in S, \A n \in Nat : n \in S => n + 1 \in S
  PROVE  Nat \subseteq S
<1> SUFFICES ASSUME Nat \ S # {} PROVE FALSE
  OBVIOUS
<1> DEFINE T == Nat \ S
<1>1. T \subseteq Nat /\ T # {}
  OBVIOUS
<1>2. PICK x \in T : \A y \in T : ~(<<y, x>> \in OpToRel(<, Nat))
  BY <1>1, NatLessThanWellFounded, WFMin
<1>3. \A y \in T : ~(y < x)
  BY <1>1, <1>2 DEF OpToRel
<1>4. x \in Nat /\ x # 0 /\ x \notin S
  OBVIOUS
<1>5. x - 1 \in Nat /\ x - 1 < x /\ (x - 1) + 1 = x
  BY <1>4
<1>6. x - 1 \in S
  BY <1>3, <1>5
<1> QED BY <1>4, <1>5, <1>6

(* The transactions among the first n events of a queue, as TxnsOf computes *)
(* them one after another.                                                  *)
NextTxns(queue, txnsBefore, n) ==
  IF queue[n].tag = "Transaction"
  THEN Append(txnsBefore, queue[n].txn) ELSE txnsBefore
IsUpTo(queue, upTo, m) ==
  upTo = [n \in 0 .. m |->
            IF n = 0 THEN <<>> ELSE NextTxns(queue, upTo[n - 1], n)]

(* The recursion defines a function.                                        *)
LEMMA UpToExists ==
  ASSUME NEW queue, NEW m \in Nat
  PROVE  \E upTo : IsUpTo(queue, upTo, m)
<1> DEFINE S == {k \in Nat : \E upTo : IsUpTo(queue, upTo, k)}
<1>1. 0 \in S
  <2> DEFINE f == [n \in 0 .. 0 |-> <<>>]
  <2>1. f = [n \in 0 .. 0 |->
               IF n = 0 THEN <<>> ELSE NextTxns(queue, f[n - 1], n)]
    OBVIOUS
  <2> QED BY <2>1 DEF IsUpTo
<1>2. ASSUME NEW k \in Nat, k \in S PROVE k + 1 \in S
  <2>1. PICK f : IsUpTo(queue, f, k)
    BY <1>2
  <2>2. /\ f = [n \in 0 .. k |-> f[n]]
        /\ f[0] = <<>>
        /\ \A n \in 1 .. k : f[n] = NextTxns(queue, f[n - 1], n)
    BY <2>1 DEF IsUpTo
  <2> DEFINE g == [n \in 0 .. k + 1 |->
                     IF n = k + 1 THEN NextTxns(queue, f[k], k + 1) ELSE f[n]]
  <2>3. /\ \A n \in 0 .. k : g[n] = f[n]
        /\ g[k + 1] = NextTxns(queue, f[k], k + 1)
    OBVIOUS
  <2>4. g = [n \in 0 .. k + 1 |-> g[n]]
    OBVIOUS
  <2> HIDE DEF g
  <2>5. \A n \in 0 .. k + 1 :
          g[n] = IF n = 0 THEN <<>> ELSE NextTxns(queue, g[n - 1], n)
    <3> TAKE n \in 0 .. k + 1
    <3>1. CASE n = 0
      BY <2>2, <2>3, <3>1
    <3>2. CASE n \in 1 .. k
      <4>1. n - 1 \in 0 .. k /\ n \in 0 .. k /\ n # 0
        BY <3>2
      <4> QED BY <2>2, <2>3, <3>2, <4>1
    <3>3. CASE n = k + 1
      <4>1. n - 1 = k /\ k \in 0 .. k /\ n # 0
        BY <3>3
      <4> QED BY <2>3, <3>3, <4>1
    <3> QED BY <3>1, <3>2, <3>3
  <2>6. IsUpTo(queue, g, k + 1)
    BY <2>4, <2>5 DEF IsUpTo
  <2> QED BY <2>6
<1>3. \A k \in Nat : k \in S => k + 1 \in S
  BY <1>2
<1> HIDE DEF S
<1>4. m \in S
  BY <1>1, <1>3, Induct
<1> QED BY <1>4 DEF S

(* The function upTo adds the events of the queue behind the first d of     *)
(* them, one after another.                                                 *)
Computes(queue, upTo, d, m) ==
  \A n \in 1 .. m : upTo[d + n] = NextTxns(queue, upTo[d + n - 1], d + n)

(* TxnsOf is what the function says of the whole queue.                     *)
LEMMA TxnsOfUpTo ==
  ASSUME NEW queue, Len(queue) \in Nat
  PROVE  \E upTo : /\ upTo[0] = <<>> /\ Computes(queue, upTo, 0, Len(queue))
                   /\ TxnsOf(queue) = upTo[Len(queue)]
<1> DEFINE upTo == CHOOSE f : IsUpTo(queue, f, Len(queue))
<1>1. TxnsOf(queue) = upTo[Len(queue)]
  BY Zenon DEF TxnsOf, IsUpTo, NextTxns
<1>2. IsUpTo(queue, upTo, Len(queue))
  BY UpToExists
<1> HIDE DEF upTo
<1>3. upTo[0] = <<>>
  BY <1>2 DEF IsUpTo
<1>4. Computes(queue, upTo, 0, Len(queue))
  <2> SUFFICES ASSUME NEW n \in 1 .. Len(queue)
               PROVE  upTo[0 + n] = NextTxns(queue, upTo[0 + n - 1], 0 + n)
    BY DEF Computes
  <2>1. 0 + n = n /\ n \in 0 .. Len(queue) /\ n # 0
    OBVIOUS
  <2>2. upTo[n] = NextTxns(queue, upTo[n - 1], n)
    BY <1>2, <2>1 DEF IsUpTo
  <2> QED BY <2>1, <2>2
<1> QED BY <1>1, <1>3, <1>4

(* One more at the end of two sequences.                                    *)
LEMMA AppendToBoth ==
  ASSUME NEW s \in Seq(Txn), NEW u \in Seq(Txn), NEW t \in Txn
  PROVE  Append(s \o u, t) = s \o Append(u, t)
<1>1. <<t>> \in Seq(Txn)
  OBVIOUS
<1>2. s \o u \in Seq(Txn)
  BY ConcatProperties
<1>3. Append(s \o u, t) = (s \o u) \o <<t>>
  BY <1>2, AppendIsConcat
<1>4. Append(u, t) = u \o <<t>>
  BY AppendIsConcat
<1> DEFINE one == <<t>>
<1>5. one \in Seq(Txn)
  BY <1>1
<1> HIDE DEF one
<1>6. (s \o u) \o one = s \o (u \o one)
  BY <1>5, ConcatAssociative
<1> QED BY <1>3, <1>4, <1>6 DEF one

(* The events of two queues are d places apart, as far as they are          *)
(* transactions.                                                            *)
SameEvents(q, r, d, m) ==
  \A n \in 1 .. m : /\ q[d + n].tag = r[n].tag
                    /\ r[n].tag = "Transaction" =>
                         q[d + n].txn = r[n].txn /\ r[n].txn \in Txn

(* Two queues whose events, d places apart, hold the same transactions: the *)
(* first has them behind those before these places.                         *)
Continues(q, r, first, d, m, f, g) ==
  /\ first \in Seq(Txn) /\ d \in Nat /\ m \in Nat
  /\ f[d] = first /\ g[0] = <<>>
  /\ Computes(q, f, d, m) /\ Computes(r, g, 0, m) /\ SameEvents(q, r, d, m)

(* So it has those of the second behind its own first ones.                 *)
LEMMA SameTxns ==
  ASSUME NEW q, NEW r, NEW first, NEW d, NEW m, NEW f, NEW g,
         Continues(q, r, first, d, m, f, g)
  PROVE  g[m] \in Seq(Txn) /\ f[d + m] = first \o g[m]
<1>0. /\ first \in Seq(Txn) /\ d \in Nat /\ m \in Nat
      /\ f[d] = first /\ g[0] = <<>>
      /\ Computes(q, f, d, m) /\ Computes(r, g, 0, m) /\ SameEvents(q, r, d, m)
  BY DEF Continues
<1> DEFINE S == {k \in Nat :
                   k <= m => g[k] \in Seq(Txn) /\ f[d + k] = first \o g[k]}
<1>1. 0 \in S
  <2>1. d + 0 = d
    BY <1>0
  <2> QED BY <1>0, <2>1, EmptySeq, ConcatEmptySeq
<1>2. ASSUME NEW k \in Nat, k \in S PROVE k + 1 \in S
  <2> SUFFICES ASSUME k + 1 <= m
               PROVE  /\ g[k + 1] \in Seq(Txn)
                      /\ f[d + (k + 1)] = first \o g[k + 1]
    OBVIOUS
  <2> DEFINE t == r[k + 1].txn
  <2>1. g[k] \in Seq(Txn) /\ f[d + k] = first \o g[k]
    BY <1>0, <1>2
  <2>2. /\ k + 1 \in 1 .. m /\ (d + (k + 1)) - 1 = d + k
        /\ 0 + (k + 1) = k + 1 /\ (0 + (k + 1)) - 1 = k
    BY <1>0
  <2>3. /\ g[k + 1] = NextTxns(r, g[k], k + 1)
        /\ f[d + (k + 1)] = NextTxns(q, f[d + k], d + (k + 1))
    <3>1. g[k + 1] = NextTxns(r, g[k], k + 1)
      <4>1. g[0 + (k + 1)] = NextTxns(r, g[0 + (k + 1) - 1], 0 + (k + 1))
        BY <1>0, <2>2 DEF Computes
      <4> QED BY <2>2, <4>1
    <3>2. f[d + (k + 1)] = NextTxns(q, f[d + k], d + (k + 1))
      <4>1. f[d + (k + 1)] = NextTxns(q, f[d + (k + 1) - 1], d + (k + 1))
        BY <1>0, <2>2 DEF Computes
      <4> QED BY <2>2, <4>1
    <3> QED BY <3>1, <3>2
  <2>4. CASE r[k + 1].tag = "Transaction"
    <3>1. t \in Txn /\ q[d + (k + 1)].txn = t
          /\ q[d + (k + 1)].tag = "Transaction"
      BY <1>0, <2>2, <2>4 DEF SameEvents
    <3>2. g[k + 1] = Append(g[k], t) /\ f[d + (k + 1)] = Append(f[d + k], t)
      BY <2>3, <2>4, <3>1 DEF NextTxns
    <3> HIDE DEF t
    <3>3. Append(g[k], t) \in Seq(Txn)
      BY <2>1, <3>1, AppendProperties
    <3>4. Append(first \o g[k], t) = first \o Append(g[k], t)
      BY <1>0, <2>1, <3>1, AppendToBoth
    <3> QED BY <2>1, <3>2, <3>3, <3>4
  <2>5. CASE r[k + 1].tag # "Transaction"
    <3>1. q[d + (k + 1)].tag # "Transaction"
      BY <1>0, <2>2, <2>5 DEF SameEvents
    <3> QED BY <2>1, <2>3, <2>5, <3>1 DEF NextTxns
  <2> QED BY <2>4, <2>5
<1>3. \A k \in Nat : k \in S => k + 1 \in S
  BY <1>2
<1> HIDE DEF S
<1>4. m \in S
  BY <1>0, <1>1, <1>3, Induct
<1> QED BY <1>0, <1>4 DEF S

(* The transaction of an event is one.                                      *)
LEMMA EventTxn ==
  ASSUME NEW queue \in Seq(Event)
  PROVE  /\ Len(queue) \in Nat
         /\ \A n \in 1 .. Len(queue) :
              queue[n].tag = "Transaction" => queue[n].txn \in Txn
<1>1. Len(queue) \in Nat
  BY LenProperties
<1>2. \A n \in 1 .. Len(queue) : queue[n] \in Event
  BY ElementOfSeq
<1> QED BY <1>1, <1>2
        DEF Event, TransactionEvents, TexturesEvents, OpsEvents

(* Queues with the same transactions in the same places.                    *)
LEMMA TxnsOfSame ==
  ASSUME NEW q \in Seq(Event), NEW r \in Seq(Event), Len(q) = Len(r),
         \A n \in 1 .. Len(r) :
           /\ q[n].tag = r[n].tag
           /\ r[n].tag = "Transaction" => q[n].txn = r[n].txn
  PROVE  TxnsOf(r) \in Seq(Txn) /\ TxnsOf(q) = TxnsOf(r)
<1> DEFINE m == Len(r)
<1>1. /\ m \in Nat /\ <<>> \in Seq(Txn) /\ Len(q) = m
      /\ \A n \in 1 .. m : r[n].tag = "Transaction" => r[n].txn \in Txn
  BY EventTxn, EmptySeq
<1>2. SameEvents(q, r, 0, m)
  BY <1>1 DEF SameEvents
<1> HIDE DEF m
<1>3. PICK f : f[0] = <<>> /\ Computes(q, f, 0, m) /\ TxnsOf(q) = f[m]
  BY <1>1, TxnsOfUpTo
<1>4. PICK g : g[0] = <<>> /\ Computes(r, g, 0, m) /\ TxnsOf(r) = g[m]
  BY <1>1, TxnsOfUpTo DEF m
<1>5. g[m] \in Seq(Txn) /\ f[0 + m] = <<>> \o g[m]
  <2> DEFINE none == <<>>
  <2>1. none \in Seq(Txn) /\ f[0] = none
    BY <1>1, <1>3
  <2> HIDE DEF none
  <2>2. Continues(q, r, none, 0, m, f, g)
    BY <1>1, <1>2, <1>3, <1>4, <2>1 DEF Continues
  <2>3. g[m] \in Seq(Txn) /\ f[0 + m] = none \o g[m]
    BY <2>2, SameTxns
  <2> QED BY <2>3 DEF none
<1>6. <<>> \o g[m] = g[m] /\ 0 + m = m
  BY <1>1, <1>5, ConcatEmptySeq
<1> QED BY <1>3, <1>4, <1>5, <1>6

(* Taking the first event takes the first transaction, if it is one.        *)
LEMMA TxnsOfTail ==
  ASSUME NEW q \in Seq(Event), q # <<>>
  PROVE  TxnsOf(q) = IF q[1].tag = "Transaction"
                     THEN <<q[1].txn>> \o TxnsOf(Tail(q)) ELSE TxnsOf(Tail(q))
<1> DEFINE r == Tail(q)
           m == Len(r)
<1>1. /\ r \in Seq(Event) /\ m = Len(q) - 1 /\ Len(q) \in Nat \ {0}
      /\ \A n \in 1 .. m : r[n] = q[n + 1]
  BY HeadTailProperties, EmptySeq
<1>2. /\ m \in Nat
      /\ \A n \in 1 .. m : r[n].tag = "Transaction" => r[n].txn \in Txn
  BY <1>1, EventTxn
<1>3. q[1].tag = "Transaction" => q[1].txn \in Txn
  BY <1>1, EventTxn
<1>4. PICK f : /\ f[0] = <<>> /\ Computes(q, f, 0, Len(q))
               /\ TxnsOf(q) = f[Len(q)]
  BY EventTxn, TxnsOfUpTo
<1>5. PICK g : g[0] = <<>> /\ Computes(r, g, 0, m) /\ TxnsOf(r) = g[m]
  BY <1>2, TxnsOfUpTo
<1> HIDE DEF r, m
<1> DEFINE first == IF q[1].tag = "Transaction" THEN <<q[1].txn>> ELSE <<>>
<1>6. first \in Seq(Txn)
  BY <1>3, EmptySeq
<1>7. f[1] = first
  <2>1. f[1] = NextTxns(q, f[0], 1)
    <3>1. 1 \in 1 .. Len(q) /\ 0 + 1 = 1 /\ 0 + 1 - 1 = 0
      BY <1>1
    <3> QED BY <1>4, <3>1 DEF Computes
  <2>2. q[1].tag = "Transaction" => Append(<<>>, q[1].txn) = <<q[1].txn>>
    OBVIOUS
  <2> QED BY <1>4, <2>1, <2>2 DEF NextTxns
<1> HIDE DEF first
<1>8. Computes(q, f, 1, m)
  <2> SUFFICES ASSUME NEW n \in 1 .. m
               PROVE  f[1 + n] = NextTxns(q, f[1 + n - 1], 1 + n)
    BY DEF Computes
  <2>1. 1 + n \in 1 .. Len(q) /\ 0 + (1 + n) = 1 + n
    BY <1>1, <1>2
  <2> QED BY <1>4, <2>1 DEF Computes
<1>9. SameEvents(q, r, 1, m)
  <2>1. \A n \in 1 .. m : 1 + n = n + 1
    BY <1>2
  <2> QED BY <1>1, <1>2, <2>1 DEF SameEvents
<1>10. g[m] \in Seq(Txn) /\ f[1 + m] = first \o g[m]
  <2>1. Continues(q, r, first, 1, m, f, g)
    BY <1>2, <1>5, <1>6, <1>7, <1>8, <1>9 DEF Continues
  <2> QED BY <2>1, SameTxns
<1>11. 1 + m = Len(q)
  BY <1>1
<1>12. TxnsOf(q) = first \o TxnsOf(r) /\ TxnsOf(r) \in Seq(Txn)
  BY <1>4, <1>5, <1>10, <1>11
<1> QED BY <1>12, ConcatEmptySeq DEF first, r

(* A transaction behind a queue and events that are none comes last.        *)
LEMMA TxnsOfHold ==
  ASSUME NEW q \in Seq(Event), NEW r \in Seq(Event), NEW m \in Nat,
         NEW t \in Txn, Len(r) = Len(q) + m + 1,
         \A i \in 1 .. Len(q) : r[i] = q[i],
         \A i \in 1 .. m : r[Len(q) + i].tag # "Transaction",
         r[Len(q) + m + 1] = TransactionEvent(t)
  PROVE  TxnsOf(q) \in Seq(Txn) /\ TxnsOf(r) = Append(TxnsOf(q), t)
<1> DEFINE n == Len(q)
           last == n + m + 1
<1>1. /\ n \in Nat
      /\ \A i \in 1 .. n : q[i].tag = "Transaction" => q[i].txn \in Txn
  BY EventTxn
<1>2. PICK g : g[0] = <<>> /\ Computes(q, g, 0, n) /\ TxnsOf(q) = g[n]
  BY <1>1, TxnsOfUpTo
<1>3. PICK f : f[0] = <<>> /\ Computes(r, f, 0, last) /\ TxnsOf(r) = f[last]
  BY <1>1, TxnsOfUpTo
<1>4. last \in Nat
  BY <1>1
<1>5. /\ \A i \in 1 .. n : r[i] = q[i]
      /\ \A i \in 1 .. m : r[n + i].tag # "Transaction"
      /\ r[last] = TransactionEvent(t)
  OBVIOUS
<1> HIDE DEF n
<1>6. \A i \in 1 .. last : f[i] = NextTxns(r, f[i - 1], i)
  <2> TAKE i \in 1 .. last
  <2>1. 0 + i = i
    BY <1>4
  <2>2. f[0 + i] = NextTxns(r, f[0 + i - 1], 0 + i)
    BY <1>3 DEF Computes
  <2> QED BY <2>1, <2>2
<1>7. g[n] \in Seq(Txn) /\ f[n] = g[n]
  <2> DEFINE none == <<>>
  <2>1. none \in Seq(Txn) /\ f[0] = none
    BY <1>3
  <2> HIDE DEF none
  <2>2. Computes(r, f, 0, n)
    <3> SUFFICES ASSUME NEW i \in 1 .. n
                 PROVE  f[0 + i] = NextTxns(r, f[0 + i - 1], 0 + i)
      BY DEF Computes
    <3>1. 0 + i = i /\ i \in 1 .. last
      BY <1>1
    <3>2. f[i] = NextTxns(r, f[i - 1], i)
      BY <1>6, <3>1
    <3> QED BY <3>1, <3>2
  <2>3. SameEvents(r, q, 0, n)
    <3>1. \A i \in 1 .. n : 0 + i = i
      BY <1>1
    <3> QED BY <1>1, <1>5, <3>1 DEF SameEvents
  <2>4. Continues(r, q, none, 0, n, f, g)
    BY <1>1, <1>2, <2>1, <2>2, <2>3 DEF Continues
  <2>5. g[n] \in Seq(Txn) /\ f[0 + n] = none \o g[n]
    BY <2>4, SameTxns
  <2>6. none \o g[n] = g[n] /\ 0 + n = n
    BY <1>1, <2>5, ConcatEmptySeq DEF none
  <2> QED BY <2>5, <2>6
<1>8. f[n + m] = f[n]
  <2> DEFINE S == {k \in Nat : k <= m => f[n + k] = f[n]}
  <2>1. 0 \in S
    BY <1>1
  <2>2. ASSUME NEW k \in Nat, k \in S PROVE k + 1 \in S
    <3> SUFFICES ASSUME k + 1 <= m PROVE f[n + (k + 1)] = f[n]
      OBVIOUS
    <3>1. /\ f[n + k] = f[n] /\ k + 1 \in 1 .. m
          /\ n + (k + 1) \in 1 .. last /\ n + (k + 1) - 1 = n + k
      BY <1>1, <2>2
    <3>2. f[n + (k + 1)] = NextTxns(r, f[n + k], n + (k + 1))
      <4> DEFINE j == n + (k + 1)
      <4>1. j \in 1 .. last /\ j - 1 = n + k
        BY <1>1, <3>1
      <4> HIDE DEF j, last
      <4>2. f[j] = NextTxns(r, f[j - 1], j)
        BY <1>6, <4>1
      <4> QED BY <4>1, <4>2 DEF j
    <3>3. r[n + (k + 1)].tag # "Transaction"
      BY <1>5, <3>1
    <3> QED BY <3>1, <3>2, <3>3 DEF NextTxns
  <2>3. \A k \in Nat : k \in S => k + 1 \in S
    BY <2>2
  <2> HIDE DEF S
  <2>4. m \in S
    BY <2>1, <2>3, Induct
  <2> QED BY <2>4 DEF S
<1>9. f[last] = Append(f[n + m], t)
  <2>1. last \in 1 .. last /\ last - 1 = n + m
    BY <1>1
  <2>2. r[last].tag = "Transaction" /\ r[last].txn = t
    BY <1>5 DEF TransactionEvent
  <2>3. f[last] = NextTxns(r, f[last - 1], last)
    BY <1>6, <2>1
  <2> HIDE DEF last
  <2> QED BY <2>1, <2>2, <2>3 DEF NextTxns
<1> QED BY <1>2, <1>3, <1>7, <1>8, <1>9

(* An empty queue holds none.                                               *)
LEMMA NoTxns == TxnsOf(<<>>) = <<>>
<1> DEFINE q == <<>>
<1>1. Len(q) = 0
  OBVIOUS
<1> HIDE DEF q
<1>2. PICK f : f[0] = <<>> /\ TxnsOf(q) = f[Len(q)]
  BY <1>1, TxnsOfUpTo
<1> QED BY <1>1, <1>2 DEF q

(* What an API holds back are transactions.                                 *)
LEMMA HeldType ==
  ASSUME QueueTypeOK, NEW a \in Apis
  PROVE  HeldTxns(a) \in Seq(Txn)
<1>1. events(a) \in Seq(Event)
  BY DEF QueueTypeOK, events
<1> QED BY <1>1, TxnsOfSame DEF HeldTxns

(* SendTransaction puts one behind the others of its API.                   *)
LEMMA HoldTxns ==
  ASSUME QueueTypeOK, NEW a \in Apis, NEW t \in Txn,
         mPendingWrTransactionEvents' =
           [mPendingWrTransactionEvents EXCEPT ![a] =
              events(a) \o EventsBefore(a, t) \o <<TransactionEvent(t)>>]
  PROVE  /\ HeldTxns(a)' = Append(HeldTxns(a), t)
         /\ \A b \in Apis \ {a} : HeldTxns(b)' = HeldTxns(b)
<1> DEFINE pre  == EventsBefore(a, t)
           next == events(a)'
<1>1. /\ next = events(a) \o pre \o <<TransactionEvent(t)>>
      /\ \A b \in Apis \ {a} : events(b)' = events(b)
      /\ events(a) \in Seq(Event)
  BY DEF QueueTypeOK, events
<1>2. /\ Len(pre) \in Nat /\ Len(next) = Len(events(a)) + Len(pre) + 1
      /\ next \in Seq(Event)
      /\ \A i \in 1 .. Len(events(a)) : next[i] = events(a)[i]
      /\ \A i \in 1 .. Len(pre) : next[Len(events(a)) + i] = pre[i]
      /\ next[Len(events(a)) + Len(pre) + 1] = TransactionEvent(t)
  <2>1. next \in Seq(Event) /\ Len(pre) \in Nat
    BY <1>1, HoldShape
  <2>2. Len(next) = Len(events(a)) + Len(pre) + 1
    BY <1>1, HoldShape
  <2>3. \A i \in 1 .. Len(events(a)) : next[i] = events(a)[i]
    BY <1>1, HoldShape
  <2>4. \A i \in 1 .. Len(pre) : next[Len(events(a)) + i] = pre[i]
    BY <1>1, HoldShape
  <2>5. next[Len(events(a)) + Len(pre) + 1] = TransactionEvent(t)
    BY <1>1, HoldShape
  <2> QED BY <2>1, <2>2, <2>3, <2>4, <2>5
<1>3. \A i \in 1 .. Len(pre) : pre[i].tag # "Transaction"
  BY EventsBeforeShape
<1> DEFINE m == Len(pre)
<1>4. /\ m \in Nat /\ Len(next) = Len(events(a)) + m + 1
      /\ \A i \in 1 .. m : next[Len(events(a)) + i].tag # "Transaction"
      /\ next[Len(events(a)) + m + 1] = TransactionEvent(t)
  BY <1>2, <1>3
<1> HIDE DEF m, pre, next
<1>5. TxnsOf(next) = Append(TxnsOf(events(a)), t)
  BY <1>1, <1>2, <1>4, TxnsOfHold
<1> QED BY <1>1, <1>5 DEF HeldTxns, next

(* A texture that goes from a list leaves them alone.                       *)
LEMMA PopTextureTxns ==
  ASSUME QueueTypeOK, NEW a \in Apis, events(a) # <<>>,
         Head(events(a)).tag = "PendingRemoteTextures",
         Head(events(a)).list # <<>>, PopTexture(a)
  PROVE  \A b \in Apis : HeldTxns(b)' = HeldTxns(b)
<1>1. /\ events(a)' \in Seq(Event) /\ events(a) \in Seq(Event)
      /\ Len(events(a)') = Len(events(a))
      /\ \A i \in 1 .. Len(events(a)) :
           /\ events(a)'[i].tag = events(a)[i].tag
           /\ events(a)[i].tag # "PendingRemoteTextures" =>
                events(a)'[i] = events(a)[i]
      /\ \A b \in Apis \ {a} : events(b)' = events(b)
  BY PopTextureShape DEF QueueTypeOK, events
<1>2. \A i \in 1 .. Len(events(a)) :
        /\ events(a)'[i].tag = events(a)[i].tag
        /\ events(a)[i].tag = "Transaction" =>
             events(a)'[i].txn = events(a)[i].txn
  BY <1>1
<1>3. TxnsOf(events(a)') = TxnsOf(events(a))
  BY <1>1, <1>2, TxnsOfSame
<1> QED BY <1>1, <1>3 DEF HeldTxns

(* An event that is taken from the front takes its transaction with it, if  *)
(* it is one.                                                               *)
LEMMA PopTxns ==
  ASSUME QueueTypeOK, NEW a \in Apis, events(a) # <<>>, PopEvent(a)
  PROVE  /\ HeldTxns(a) = IF Head(events(a)).tag = "Transaction"
                          THEN <<Head(events(a)).txn>> \o HeldTxns(a)'
                          ELSE HeldTxns(a)'
         /\ HeldTxns(a)' \in Seq(Txn)
         /\ \A b \in Apis \ {a} : HeldTxns(b)' = HeldTxns(b)
<1>1. events(a) \in Seq(Event) /\ events(a)' = Tail(events(a))
  BY DEF PopEvent, QueueTypeOK, events
<1>2. /\ Head(events(a)) = events(a)[1]
      /\ \A b \in Apis \ {a} : events(b)' = events(b)
  BY PopShape
<1>3. Tail(events(a)) \in Seq(Event)
  BY <1>1, HeadTailProperties
<1>4. TxnsOf(Tail(events(a))) \in Seq(Txn)
  BY <1>3, TxnsOfSame
<1>5. TxnsOf(events(a)) = IF events(a)[1].tag = "Transaction"
         THEN <<events(a)[1].txn>> \o TxnsOf(Tail(events(a)))
         ELSE TxnsOf(Tail(events(a)))
  BY <1>1, TxnsOfTail
<1> QED BY <1>1, <1>2, <1>4, <1>5 DEF HeldTxns

-----------------------------------------------------------------------------
(* The textures of a transaction that waits are settled or still in front   *)
(* of it.                                                                   *)
TextureAt(a, i, x) == /\ i \in 1 .. Len(events(a))
                      /\ events(a)[i].tag = "PendingRemoteTextures"
                      /\ x \in ToSet(events(a)[i].list)

TexturesAhead ==
  \A a \in Apis, t \in Txn, i \in Nat : TxnAt(a, i, t) =>
    \A x \in asked[t].textures :
      x \in Settled \/ \E j \in Nat : j < i /\ TextureAt(a, j, x)

(* With the types this relies on.                                           *)
TexturesInv == /\ ready \subseteq Textures /\ suppressed \subseteq Textures
               /\ TexturesAhead

(* A step that moves no event may settle textures.                          *)
LEMMA TexturesUnchanged ==
  ASSUME TexturesInv, UNCHANGED <<mPendingWrTransactionEvents, asked>>,
         Settled \subseteq Settled',
         ready' \subseteq Textures, suppressed' \subseteq Textures
  PROVE  TexturesInv'
<1>1. \A b \in Apis, u \in Txn, i \in Nat, x \in Textures :
        /\ TxnAt(b, i, u)' <=> TxnAt(b, i, u)
        /\ \A y : TextureAt(b, i, y)' <=> TextureAt(b, i, y)
  BY DEF TxnAt, TextureAt, events
<1>2. TexturesAhead'
  <2> SUFFICES ASSUME NEW a \in Apis, NEW t \in Txn, NEW i \in Nat,
                      TxnAt(a, i, t)', NEW x \in asked[t].textures
               PROVE  \/ x \in Settled'
                      \/ \E j \in Nat : j < i /\ TextureAt(a, j, x)'
    BY DEF TexturesAhead
  <2>1. TxnAt(a, i, t)
    BY DEF TxnAt, events
  <2>2. x \in Settled \/ \E j \in Nat : j < i /\ TextureAt(a, j, x)
    BY <2>1 DEF TexturesInv, TexturesAhead
  <2>3. \A j \in Nat : TextureAt(a, j, x) => TextureAt(a, j, x)'
    BY DEF TextureAt, events
  <2> QED BY <2>2, <2>3
<1> QED BY <1>2 DEF TexturesInv

(* An event that holds no texture is taken from the front.                  *)
LEMMA PopTextures ==
  ASSUME QueueTypeOK, TexturesInv, NEW a \in Apis, events(a) # <<>>,
         PopEvent(a), UNCHANGED <<asked, ready, suppressed>>,
         \A x : ~TextureAt(a, 1, x)
  PROVE  TexturesInv'
<1>1. TexturesAhead'
  <2> SUFFICES ASSUME NEW b \in Apis, NEW t \in Txn, NEW i \in Nat,
                      TxnAt(b, i, t)', NEW x \in asked[t].textures
               PROVE  \/ x \in Settled
                      \/ \E j \in Nat : j < i /\ TextureAt(b, j, x)'
    BY DEF TexturesAhead, Settled
  <2> DEFINE k == IF b = a THEN i + 1 ELSE i
  <2>1. k \in Nat /\ TxnAt(b, k, t) /\ i # 0
    BY PopPlaces
  <2>2. CASE x \in Settled
    BY <2>2
  <2>3. CASE \E j \in Nat : j < k /\ TextureAt(b, j, x)
    <3>1. PICK j \in Nat : j < k /\ TextureAt(b, j, x)
      BY <2>3
    <3>2. CASE b = a
      <4>1. /\ Len(events(a)) \in Nat \ {0}
            /\ Len(events(a)') = Len(events(a)) - 1
            /\ \A n \in 1 .. Len(events(a)) - 1 :
                 events(a)'[n] = events(a)[n + 1]
        BY PopShape
      <4>2. j # 1 /\ j \in 1 .. Len(events(a))
        BY <3>1, <3>2 DEF TextureAt
      <4>3. /\ j - 1 \in 1 .. Len(events(a)) - 1 /\ (j - 1) + 1 = j
            /\ j - 1 \in Nat /\ j - 1 < i
        BY <3>1, <3>2, <4>1, <4>2
      <4>4. events(a)'[j - 1] = events(a)[j]
        BY <4>1, <4>3
      <4>5. TextureAt(a, j - 1, x)'
        BY <3>1, <3>2, <4>1, <4>3, <4>4 DEF TextureAt
      <4> QED BY <3>2, <4>3, <4>5
    <3>3. CASE b # a
      <4>1. events(b)' = events(b)
        BY <3>3, PopShape
      <4> QED BY <3>1, <3>3, <4>1 DEF TextureAt
    <3> QED BY <3>2, <3>3
  <2> QED BY <2>1, <2>2, <2>3 DEF TexturesInv, TexturesAhead
<1> QED BY <1>1 DEF TexturesInv

(* The texture that goes from a list is settled.                            *)
LEMMA PopTextureTextures ==
  ASSUME QueueTypeOK, TexturesInv, NEW a \in Apis, events(a) # <<>>,
         Head(events(a)).tag = "PendingRemoteTextures",
         Head(events(a)).list # <<>>, PopTexture(a), UNCHANGED <<asked, ready>>,
         suppressed' = suppressed \/
           suppressed' = suppressed \cup {Head(Head(events(a)).list)},
         Head(Head(events(a)).list) \in Settled'
  PROVE  TexturesInv'
<1> DEFINE e == Head(events(a))
           y == Head(e.list)
<1>1. /\ events(a) \in Seq(Event) /\ e = events(a)[1] /\ e \in Event
      /\ Len(events(a)) \in Nat \ {0}
  BY EmptySeq, HeadTailProperties DEF QueueTypeOK, events
<1>2. /\ e \in TexturesEvents /\ e.list \in Seq(Textures)
  BY <1>1 DEF Event, TransactionEvents, TexturesEvents, OpsEvents
<1>3. y \in Textures /\ ToSet(e.list) \subseteq {y} \cup ToSet(Tail(e.list))
  <2>1. /\ y \in Textures /\ Len(e.list) \in Nat \ {0}
        /\ Tail(e.list) \in Seq(Textures) /\ Len(Tail(e.list)) = Len(e.list) - 1
        /\ \A i \in 1 .. Len(Tail(e.list)) : Tail(e.list)[i] = e.list[i + 1]
    BY <1>2, HeadTailProperties, EmptySeq
  <2>2. /\ DOMAIN e.list = 1 .. Len(e.list)
        /\ DOMAIN Tail(e.list) = 1 .. Len(e.list) - 1
        /\ y = e.list[1]
    BY <1>2, <2>1, LenProperties
  <2>3. ASSUME NEW i \in 1 .. Len(e.list)
        PROVE  e.list[i] = y \/ e.list[i] \in ToSet(Tail(e.list))
    <3>1. CASE i = 1
      BY <2>2, <3>1
    <3>2. CASE i # 1
      <4>1. i - 1 \in DOMAIN Tail(e.list) /\ Tail(e.list)[i - 1] = e.list[i]
        BY <2>1, <2>2, <3>2
      <4> QED BY <4>1 DEF ToSet
    <3> QED BY <3>1, <3>2
  <2>4. \A v \in ToSet(e.list) : \E i \in 1 .. Len(e.list) : v = e.list[i]
    BY <2>2 DEF ToSet
  <2> QED BY <2>1, <2>3, <2>4
<1>4. events(a)' = [events(a) EXCEPT ![1] = [e EXCEPT !.list = Tail(e.list)]]
  BY DEF PopTexture, QueueTypeOK, events
<1>5. /\ Len(events(a)') = Len(events(a))
      /\ events(a)'[1].tag = "PendingRemoteTextures"
      /\ events(a)'[1].list = Tail(e.list)
      /\ \A i \in 2 .. Len(events(a)) : events(a)'[i] = events(a)[i]
  <2> DEFINE next == [e EXCEPT !.list = Tail(e.list)]
  <2>1. /\ next \in TexturesEvents /\ next.list = Tail(e.list)
        /\ next.tag = "PendingRemoteTextures"
    BY <1>2, HeadTailProperties DEF TexturesEvents
  <2> HIDE DEF next
  <2>2. next \in Event /\ 1 \in 1 .. Len(events(a))
    BY <1>1, <2>1 DEF Event
  <2>3. /\ Len([events(a) EXCEPT ![1] = next]) = Len(events(a))
        /\ \A j \in 1 .. Len(events(a)) : [events(a) EXCEPT ![1] = next][j] =
             IF j = 1 THEN next ELSE events(a)[j]
    BY <1>1, <2>2, ExceptSeq
  <2>4. events(a)' = [events(a) EXCEPT ![1] = next]
    BY <1>4 DEF next
  <2> QED BY <1>1, <2>1, <2>3, <2>4
<1>6. \A b \in Apis \ {a} : events(b)' = events(b)
  BY PopTextureShape
<1>7. Settled \subseteq Settled'
  BY DEF Settled
<1>8. TexturesAhead'
  <2> SUFFICES ASSUME NEW b \in Apis, NEW t \in Txn, NEW i \in Nat,
                      TxnAt(b, i, t)', NEW x \in asked[t].textures
               PROVE  \/ x \in Settled'
                      \/ \E j \in Nat : j < i /\ TextureAt(b, j, x)'
    BY DEF TexturesAhead
  <2>1. x \in Settled \/ \E j \in Nat : j < i /\ TextureAt(b, j, x)
    BY PopTexturePlaces DEF TexturesInv, TexturesAhead
  <2>2. ASSUME NEW j \in Nat, TextureAt(b, j, x), x \notin Settled'
        PROVE  TextureAt(b, j, x)'
    <3>1. CASE b = a /\ j = 1
      <4>1. x # y /\ x \in ToSet(e.list)
        BY <1>1, <2>2, <3>1 DEF TextureAt
      <4>2. x \in ToSet(Tail(e.list))
        BY <1>3, <4>1
      <4> QED BY <1>1, <1>5, <3>1, <4>2 DEF TextureAt
    <3>2. CASE b = a /\ j # 1
      <4>1. j \in 2 .. Len(events(a))
        BY <2>2, <3>2 DEF TextureAt
      <4> QED BY <1>5, <2>2, <3>2, <4>1 DEF TextureAt
    <3>3. CASE b # a
      BY <1>6, <2>2, <3>3 DEF TextureAt
    <3> QED BY <3>1, <3>2, <3>3
  <2> QED BY <1>7, <2>1, <2>2
<1>9. ready' \subseteq Textures /\ suppressed' \subseteq Textures
  BY <1>3 DEF TexturesInv
<1> QED BY <1>8, <1>9 DEF TexturesInv

(* A transaction goes behind the list of the textures asked for it.         *)
LEMMA HoldTextures ==
  ASSUME QueueTypeOK, NEW a \in Apis, NEW t \in Txn,
         mPendingWrTransactionEvents' =
           [mPendingWrTransactionEvents EXCEPT ![a] =
              events(a) \o EventsBefore(a, t) \o <<TransactionEvent(t)>>]
  PROVE  /\ \A b \in Apis, j \in Nat : \A x :
              TextureAt(b, j, x) => TextureAt(b, j, x)'
         /\ \A u \in Txn, i \in Nat : TxnAt(a, i, u)' /\ ~TxnAt(a, i, u) =>
              \A x \in ToSet(mPendingRemoteTextureInfoList[a]) :
                \E j \in Nat : j < i /\ TextureAt(a, j, x)'
<1> DEFINE pre  == EventsBefore(a, t)
           list == mPendingRemoteTextureInfoList[a]
           n    == Len(events(a))
           m    == Len(pre)
           next == events(a)'
<1>1. /\ next = events(a) \o pre \o <<TransactionEvent(t)>>
      /\ \A b \in Apis \ {a} : events(b)' = events(b)
  BY DEF QueueTypeOK, events
<1>2. /\ n \in Nat /\ m \in Nat /\ Len(next) = n + m + 1
      /\ \A i \in 1 .. n : next[i] = events(a)[i]
      /\ \A i \in 1 .. m : next[n + i] = pre[i]
  BY <1>1, HoldShape
<1>3. ASSUME NEW x \in ToSet(list)
      PROVE  /\ m \in Nat \ {0} /\ pre[1].tag = "PendingRemoteTextures"
             /\ x \in ToSet(pre[1].list)
  <2> DEFINE one == RemoteTexturesEvent(list)
             ops == mPendingAsyncImagePipelineOps[a]
             two == OpsEvent(ops, t)
  <2>1. list # <<>>
    BY <1>3 DEF ToSet
  <2>2. /\ one \in Event /\ one.tag = "PendingRemoteTextures"
        /\ one.list = list
    BY DEF QueueTypeOK, Event, TexturesEvents, RemoteTexturesEvent
  <2>3. two \in Event
    BY DEF QueueTypeOK, Event, OpsEvents, OpsEvent
  <2> HIDE DEF one, two, ops, list
  <2>4. pre = <<one>> \o (IF ops.count # 0 THEN <<two>> ELSE <<>>)
    BY <2>1 DEF EventsBefore, RawForOps, one, two, ops, list
  <2>5. CASE ops.count # 0
    <3>1. pre = <<one, two>>
      BY <2>2, <2>3, <2>4, <2>5, TwoEvents
    <3> QED BY <1>3, <2>2, <3>1
  <2>6. CASE ops.count = 0
    <3>1. pre = <<one>>
      BY <2>2, <2>4, <2>6
    <3> QED BY <1>3, <2>2, <3>1
  <2> QED BY <2>5, <2>6
<1>4. \A i \in 1 .. m : pre[i].tag # "Transaction"
  BY EventsBeforeShape
<1> HIDE DEF pre, list, n, m, next
<1>5. ASSUME NEW b \in Apis, NEW j \in Nat, NEW x, TextureAt(b, j, x)
      PROVE  TextureAt(b, j, x)'
  <2>1. CASE b = a
    <3>1. j \in 1 .. n /\ j \in 1 .. n + m + 1
      BY <1>2, <1>5, <2>1 DEF TextureAt, n
    <3> QED BY <1>2, <1>5, <2>1, <3>1 DEF TextureAt, n, next
  <2>2. CASE b # a
    BY <1>1, <1>5, <2>2 DEF TextureAt
  <2> QED BY <2>1, <2>2
<1>6. ASSUME NEW u \in Txn, NEW i \in Nat, TxnAt(a, i, u)', ~TxnAt(a, i, u),
             NEW x \in ToSet(list)
      PROVE  \E j \in Nat : j < i /\ TextureAt(a, j, x)'
  <2>1. i \in 1 .. n + m + 1 /\ next[i].tag = "Transaction" /\ next[i].txn = u
    BY <1>2, <1>6 DEF TxnAt, next
  <2>2. i \notin 1 .. n
    BY <1>2, <1>6, <2>1 DEF TxnAt, n
  <2>3. n + 1 < i
    <3>1. m \in Nat \ {0} /\ next[n + 1] = pre[1]
      BY <1>2, <1>3, <1>6
    <3>2. i # n + 1
      BY <1>4, <2>1, <3>1
    <3> QED BY <1>2, <2>1, <2>2, <3>2
  <2>4. /\ n + 1 \in Nat /\ n + 1 \in 1 .. n + m + 1 /\ next[n + 1] = pre[1]
    BY <1>2, <1>3, <1>6
  <2>5. /\ next[n + 1].tag = "PendingRemoteTextures"
        /\ x \in ToSet(next[n + 1].list)
    <3>1. x \in ToSet(list)
      OBVIOUS
    <3> QED BY <1>3, <2>4, <3>1
  <2>6. PICK j \in Nat : j = n + 1 /\ j < i /\ j \in 1 .. Len(next)
    BY <1>2, <2>3, <2>4
  <2>7. TextureAt(a, j, x)'
    BY <2>5, <2>6 DEF TextureAt, next
  <2> QED BY <2>6, <2>7
<1> QED BY <1>5, <1>6 DEF list

(* SendTransaction: no transaction but the new one gets other textures to   *)
(* wait for.                                                                *)
LEMMA SendTransactionTextures ==
  ASSUME TypeOK, OpsInv, TexturesInv, NEW a \in Apis, SendTransaction(a)
  PROVE  TexturesInv'
<1> DEFINE t == txns + 1
           list == mPendingRemoteTextureInfoList[a]
<1>0. QueueTypeOK /\ SentTypeOK
  BY DEF TypeOK
<1>1. /\ t \in Txn /\ UNCHANGED <<ready, suppressed>>
      /\ Settled' = Settled
  BY <1>0, BoundsAssumption
  DEF SendTransaction, SentTypeOK, Txn, mapVars, Settled
<1>2. \A b \in Apis, i \in Nat : ~TxnAt(b, i, t)
  <2>1. txns \in Nat /\ t \notin 1 .. txns
    BY <1>0 DEF SentTypeOK, Txn
  <2> QED BY <1>1, <2>1 DEF OpsInv, HeldIsUnsent
<1>3. CASE UNCHANGED <<mPendingWrTransactionEvents, asked>>
  BY <1>1, <1>3, TexturesUnchanged DEF TexturesInv
<1>4. CASE ~UNCHANGED <<mPendingWrTransactionEvents, asked>>
  <2>1. asked' = [asked EXCEPT ![t] =
                    [textures |-> ToSet(list),
                     count |-> mPendingAsyncImagePipelineOps[a].count]]
    BY <1>4 DEF SendTransaction
  <2>2. /\ asked'[t].textures = ToSet(list)
        /\ \A u \in Txn \ {t} : asked'[u] = asked[u]
    BY <1>0, <1>1, <2>1 DEF SentTypeOK
  <2>3. CASE UNCHANGED mPendingWrTransactionEvents
    <3> SUFFICES ASSUME NEW b \in Apis, NEW u \in Txn, NEW i \in Nat,
                        TxnAt(b, i, u)', NEW x \in asked'[u].textures
                 PROVE  \/ x \in Settled
                        \/ \E j \in Nat : j < i /\ TextureAt(b, j, x)'
      BY <1>1 DEF TexturesInv, TexturesAhead
    <3>1. TxnAt(b, i, u)
      BY <2>3 DEF TxnAt, events
    <3>2. x \in asked[u].textures
      BY <1>2, <2>2, <3>1
    <3>3. \A j \in Nat : TextureAt(b, j, x) => TextureAt(b, j, x)'
      BY <2>3 DEF TextureAt, events
    <3> QED BY <3>1, <3>2, <3>3 DEF TexturesInv, TexturesAhead
  <2>4. CASE mPendingWrTransactionEvents' =
               [mPendingWrTransactionEvents EXCEPT ![a] =
                  events(a) \o EventsBefore(a, t) \o <<TransactionEvent(t)>>]
    <3>1. PICK last \in Nat : Len(events(a)) < last /\
            \A b \in Apis, u \in Txn, i \in Nat :
              /\ TxnAt(b, i, u)' <=>
                   TxnAt(b, i, u) \/ (b = a /\ i = last /\ u = t)
              /\ OpsAt(b, i, u)' <=>
                   OpsAt(b, i, u)
                   \/ /\ b = a /\ i + 1 = last /\ u = t
                      /\ mPendingAsyncImagePipelineOps[a].count # 0
              /\ OpsAt(b, i, u)' => events(b)'[i].count =
                   IF OpsAt(b, i, u) THEN events(b)[i].count
                   ELSE mPendingAsyncImagePipelineOps[a].count
      BY <1>0, <1>1, <2>4, HoldPlaces
    <3>2. /\ \A b \in Apis, j \in Nat : \A x :
               TextureAt(b, j, x) => TextureAt(b, j, x)'
          /\ \A u \in Txn, i \in Nat : TxnAt(a, i, u)' /\ ~TxnAt(a, i, u) =>
               \A x \in ToSet(list) :
                 \E j \in Nat : j < i /\ TextureAt(a, j, x)'
      BY <1>0, <1>1, <2>4, HoldTextures
    <3> SUFFICES ASSUME NEW b \in Apis, NEW u \in Txn, NEW i \in Nat,
                        TxnAt(b, i, u)', NEW x \in asked'[u].textures
                 PROVE  \/ x \in Settled
                        \/ \E j \in Nat : j < i /\ TextureAt(b, j, x)'
      BY <1>1 DEF TexturesInv, TexturesAhead
    <3>3. CASE TxnAt(b, i, u)
      <4>1. x \in asked[u].textures
        BY <1>2, <2>2, <3>3
      <4> QED BY <3>2, <3>3, <4>1 DEF TexturesInv, TexturesAhead
    <3>4. CASE ~TxnAt(b, i, u)
      <4>1. b = a /\ u = t
        BY <3>1, <3>4
      <4>2. x \in ToSet(list) /\ TxnAt(a, i, u)' /\ ~TxnAt(a, i, u)
        BY <2>2, <3>4, <4>1
      <4>3. \E j \in Nat : j < i /\ TextureAt(a, j, x)'
        BY <3>2, <4>2
      <4> QED BY <4>1, <4>3
    <3> QED BY <3>3, <3>4
  <2> QED BY <2>3, <2>4 DEF SendTransaction, events
<1> QED BY <1>3, <1>4

(* Every step keeps them so.                                                *)
LEMMA NextTextures ==
  TypeOK /\ OpsInv /\ TexturesInv /\ [Next]_vars => TexturesInv'
<1> SUFFICES ASSUME TypeOK, OpsInv, TexturesInv, [Next]_vars PROVE TexturesInv'
  OBVIOUS
<1>0. QueueTypeOK
  BY DEF TypeOK
<1>9. ASSUME UNCHANGED <<ready, suppressed>>
      PROVE  /\ Settled \subseteq Settled'
             /\ ready' \subseteq Textures /\ suppressed' \subseteq Textures
  BY <1>9 DEF Settled, TexturesInv
<1>1. ASSUME NEW a \in Apis, NEW x \in Textures,
             GetPendingRemoteTextureInfoList(a, x)
      PROVE  TexturesInv'
  BY <1>1, <1>9, TexturesUnchanged DEF GetPendingRemoteTextureInfoList, mapVars
<1>2. ASSUME NEW a \in Apis, NEW k \in 0 .. 1,
             GetPendingAsyncImagePipelineOps(a, k)
      PROVE  TexturesInv'
  BY <1>2, <1>9, TexturesUnchanged
  DEF GetPendingAsyncImagePipelineOps, mapVars, history
<1>3. ASSUME NEW a \in Apis, NEW type \in {"FlushWithWait", "FlushWithoutWait"},
             Flush(a, type)
      PROVE  TexturesInv'
  BY <1>3, <1>9, TexturesUnchanged DEF Flush, mapVars, history
<1>4. CASE DestroyRenderer
  BY <1>4, <1>9, TexturesUnchanged DEF DestroyRenderer, mapVars, history
<1>5. ASSUME NEW a \in Apis, RunHandleWrTransactionEvents(a)
      PROVE  TexturesInv'
  BY <1>5, <1>9, TexturesUnchanged
  DEF RunHandleWrTransactionEvents, mapVars, history
<1>6. CASE HandleWrTransactionEvents
  <2> DEFINE a == call[1]
             x == Head(Head(events(a)).list)
  <2>0. a \in Apis
    BY <1>0, <1>6 DEF HandleWrTransactionEvents, QueueTypeOK
  <2>1. CASE HandleDone(a)
    BY <1>9, <2>1, TexturesUnchanged DEF HandleDone, mapVars, history
  <2>2. CASE \/ HandleTransaction(a)
             \/ HandleAsyncImagePipelineOps(a)
             \/ RemoteTexturesDone(a)
    <3>1. /\ events(a) # <<>> /\ PopEvent(a)
          /\ UNCHANGED <<asked, ready, suppressed>>
          /\ Head(events(a)).tag = "PendingRemoteTextures" =>
               Head(events(a)).list = <<>>
      BY <2>2 DEF HandleTransaction, HandleAsyncImagePipelineOps,
         RemoteTexturesDone, mapVars, history
    <3>2. Head(events(a)) = events(a)[1]
      BY <1>0, <2>0, <3>1, PopShape
    <3>3. \A y : ~TextureAt(a, 1, y)
      BY <3>1, <3>2 DEF TextureAt, ToSet
    <3> QED BY <1>0, <2>0, <3>1, <3>3, PopTextures
  <2>3. CASE HandleRemoteTexture(a, call[2])
    <3>1. /\ events(a) # <<>> /\ Head(events(a)).list # <<>>
          /\ Head(events(a)).tag = "PendingRemoteTextures"
          /\ UNCHANGED <<asked, ready>>
      BY <2>3 DEF HandleRemoteTexture, history
    <3>2. \/ UNCHANGED <<mPendingWrTransactionEvents, suppressed>>
          \/ /\ PopTexture(a) /\ x \in Settled'
             /\ suppressed' = suppressed \/ suppressed' = suppressed \cup {x}
      BY <2>3 DEF HandleRemoteTexture, SuppressRemoteTextureReadyCheck, Settled
    <3> QED BY <1>0, <1>9, <2>0, <3>1, <3>2, TexturesUnchanged,
               PopTextureTextures
  <2> QED BY <1>6, <2>0, <2>1, <2>2, <2>3 DEF HandleWrTransactionEvents
<1>7. ASSUME NEW x \in Textures, RemoteTextureReady(x)
      PROVE  TexturesInv'
  <2>1. /\ UNCHANGED <<mPendingWrTransactionEvents, asked, suppressed>>
        /\ ready' = ready \cup {x}
    BY <1>7 DEF RemoteTextureReady, history
  <2>2. /\ Settled \subseteq Settled'
        /\ ready' \subseteq Textures /\ suppressed' \subseteq Textures
    BY <2>1 DEF Settled, TexturesInv
  <2> QED BY <2>1, <2>2, TexturesUnchanged
<1>8. CASE UNCHANGED vars
  BY <1>8, <1>9, TexturesUnchanged DEF vars, mapVars, history
<1> QED BY <1>1, <1>2, <1>3, <1>4, <1>5, <1>6, <1>7, <1>8,
           SendTransactionTextures DEF Next, Callers

-----------------------------------------------------------------------------
(* What a client of SendTransaction sees is TransactionOrder                *)

(* What does not change what is held or sent may settle textures.           *)
LEMMA SettleStep ==
  ASSUME \A b \in Apis : HeldTxns(b)' = HeldTxns(b),
         UNCHANGED <<asked, sent>>,
         Settled \subseteq Settled', Settled' \subseteq Textures
  PROVE  Order!Next
<1>1. Order!Settle
  BY DEF Order!Settle
<1> QED BY <1>1 DEF Order!Next

(* A transaction that must wait is held with its textures.                  *)
LEMMA HoldStep ==
  ASSUME NEW a \in Apis, NEW t \in Txn, NEW T \in SUBSET Textures,
         HeldTxns(a)' = Append(HeldTxns(a), t),
         \A b \in Apis \ {a} : HeldTxns(b)' = HeldTxns(b),
         asked'[t].textures = T,
         \A u \in Txn \ {t} : asked'[u] = asked[u],
         UNCHANGED <<sent, ready, suppressed>>
  PROVE  Order!Next
<1>1. [b \in Apis |-> HeldTxns(b)]' =
        [[b \in Apis |-> HeldTxns(b)] EXCEPT ![a] = Append(@, t)]
  OBVIOUS
<1>2. [u \in Txn |-> asked[u].textures]' =
        [[u \in Txn |-> asked[u].textures] EXCEPT ![t] = T]
  OBVIOUS
<1>3. Order!Hold(a, t, T)
  BY <1>1, <1>2 DEF Order!Hold, Settled
<1> QED BY <1>3 DEF Order!Next

(* One that need not is sent when none is held.                             *)
LEMMA SendNowStep ==
  ASSUME NEW a \in Apis, NEW t \in Txn, HeldTxns(a) = <<>>,
         \A b \in Apis : HeldTxns(b)' = HeldTxns(b),
         asked'[t].textures = {},
         \A u \in Txn \ {t} : asked'[u] = asked[u],
         SendToWebRender(a, t), UNCHANGED <<ready, suppressed>>
  PROVE  Order!Next
<1>1. [u \in Txn |-> asked[u].textures]' =
        [[u \in Txn |-> asked[u].textures] EXCEPT ![t] = {}]
  OBVIOUS
<1>2. [b \in Apis |-> HeldTxns(b)]' = [b \in Apis |-> HeldTxns(b)]
  OBVIOUS
<1>3. [b \in Apis |-> HeldTxns(b)][a] = <<>>
  OBVIOUS
<1>4. Order!SendNow(a, t)
  BY <1>1, <1>2, <1>3 DEF Order!SendNow, SendToWebRender, Settled
<1> QED BY <1>4 DEF Order!Next

(* The first that is held is sent when its textures are settled.            *)
LEMMA SendHeldStep ==
  ASSUME NEW a \in Apis, NEW t \in Txn, HeldTxns(a)' \in Seq(Txn),
         HeldTxns(a) = <<t>> \o HeldTxns(a)',
         \A b \in Apis \ {a} : HeldTxns(b)' = HeldTxns(b),
         asked[t].textures \subseteq Settled,
         SendToWebRender(a, t), UNCHANGED <<asked, ready, suppressed>>
  PROVE  Order!Next
<1>1. PICK rest \in Seq(Txn) : rest = HeldTxns(a)'
  OBVIOUS
<1>2. HeldTxns(a) # <<>> /\ Head(HeldTxns(a)) = t /\ Tail(HeldTxns(a)) = rest
  <2>1. HeldTxns(a) = <<t>> \o rest
    BY <1>1
  <2>2. /\ <<t>> \o rest # <<>> /\ Head(<<t>> \o rest) = t
        /\ Tail(<<t>> \o rest) = rest
    OBVIOUS
  <2> QED BY <2>1, <2>2
<1>3. [b \in Apis |-> HeldTxns(b)]' =
        [[b \in Apis |-> HeldTxns(b)] EXCEPT ![a] = Tail(@)]
  BY <1>1, <1>2
<1>4. /\ [b \in Apis |-> HeldTxns(b)][a] = HeldTxns(a)
      /\ [u \in Txn |-> asked[u].textures][t] = asked[t].textures
  OBVIOUS
<1>5. Order!SendHeld(a)
  BY <1>2, <1>3, <1>4 DEF Order!SendHeld, SendToWebRender, Settled
<1> QED BY <1>5 DEF Order!Next

(* SendTransaction holds, sends at once, or drops the transaction.          *)
LEMMA SendTransactionStep ==
  ASSUME TypeOK, TexturesInv, NEW a \in Apis, SendTransaction(a)
  PROVE  Order!Next
<1> DEFINE list == mPendingRemoteTextureInfoList[a]
<1>0. QueueTypeOK /\ SentTypeOK
  BY DEF TypeOK
<1>1. PICK t \in Txn : t = txns + 1
  BY <1>0, BoundsAssumption DEF SendTransaction, SentTypeOK, Txn
<1>2. UNCHANGED <<ready, suppressed>>
  BY DEF SendTransaction, mapVars
<1>3. CASE UNCHANGED <<mPendingWrTransactionEvents, sent, asked>>
  <2>1. \A b \in Apis : HeldTxns(b)' = HeldTxns(b)
    BY <1>3 DEF HeldTxns, events
  <2> QED BY <1>2, <1>3, <2>1, SettleStep DEF TexturesInv, Settled
<1>4. CASE ~UNCHANGED <<mPendingWrTransactionEvents, sent, asked>>
  <2>1. asked' = [asked EXCEPT ![t] =
                    [textures |-> ToSet(list),
                     count |-> mPendingAsyncImagePipelineOps[a].count]]
    BY <1>1, <1>4 DEF SendTransaction
  <2>2. /\ asked'[t].textures = ToSet(list)
        /\ \A u \in Txn \ {t} : asked'[u] = asked[u]
    BY <1>0, <1>1, <2>1 DEF SentTypeOK
  <2>3. list \in Seq(Textures) /\ ToSet(list) \in SUBSET Textures
    BY <1>0 DEF QueueTypeOK, ToSet
  <2>4. CASE MustHold(EventsBefore(a, t), mPendingWrTransactionEvents[a])
    <3>1. /\ UNCHANGED sent
          /\ mPendingWrTransactionEvents' =
               [mPendingWrTransactionEvents EXCEPT ![a] =
                  events(a) \o EventsBefore(a, t) \o <<TransactionEvent(t)>>]
      BY <1>1, <1>4, <2>4 DEF SendTransaction, events
    <3>2. /\ HeldTxns(a)' = Append(HeldTxns(a), t)
          /\ \A b \in Apis \ {a} : HeldTxns(b)' = HeldTxns(b)
      BY <1>0, <3>1, HoldTxns
    <3> QED BY <1>2, <2>2, <2>3, <3>1, <3>2, HoldStep
  <2>5. CASE ~MustHold(EventsBefore(a, t), mPendingWrTransactionEvents[a])
    <3>1. UNCHANGED mPendingWrTransactionEvents /\ SendToWebRender(a, t)
      BY <1>1, <1>4, <2>5 DEF SendTransaction
    <3>2. events(a) = <<>> /\ EventsBefore(a, t) = <<>>
      <4>1. events(a) \in Seq(Event) /\ EventsBefore(a, t) \in Seq(Event)
        BY <1>0, <1>1, EventsBeforeShape DEF QueueTypeOK, events
      <4>2. events(a) \o EventsBefore(a, t) = <<>>
        BY <2>5 DEF MustHold, events
      <4> QED BY <4>1, <4>2, ConcatEqualIffEmpty
    <3>3. list = <<>>
      <4> SUFFICES ASSUME list # <<>> PROVE FALSE
        OBVIOUS
      <4> DEFINE one == RemoteTexturesEvent(list)
                 ops == mPendingAsyncImagePipelineOps[a]
                 two == OpsEvent(ops, t)
      <4>1. one \in Event /\ two \in Event
        BY <1>0 DEF QueueTypeOK, Event, TexturesEvents, RemoteTexturesEvent,
           OpsEvents, OpsEvent
      <4> HIDE DEF one, two, ops
      <4>2. EventsBefore(a, t) =
              <<one>> \o (IF ops.count # 0 THEN <<two>> ELSE <<>>)
        BY DEF EventsBefore, RawForOps, one, two, ops
      <4> QED BY <3>2, <4>1, <4>2, TwoEvents
    <3>4. ToSet(list) = {}
      BY <3>3 DEF ToSet
    <3>5. HeldTxns(a) = <<>> /\ \A b \in Apis : HeldTxns(b)' = HeldTxns(b)
      <4>1. TxnsOf(<<>>) = <<>>
        BY NoTxns
      <4> QED BY <3>1, <3>2, <4>1 DEF HeldTxns, events
    <3> QED BY <1>2, <2>2, <3>1, <3>4, <3>5, SendNowStep
  <2> QED BY <2>4, <2>5
<1> QED BY <1>3, <1>4

(* A transaction at the front has all its textures settled.                 *)
LEMMA HandleTransactionStep ==
  ASSUME TypeOK, TexturesInv, NEW a \in Apis, HandleTransaction(a)
  PROVE  Order!Next
<1>0. QueueTypeOK
  BY DEF TypeOK
<1>1. /\ events(a) # <<>> /\ PopEvent(a)
      /\ Head(events(a)).tag = "Transaction"
      /\ SendToWebRender(a, Head(events(a)).txn)
      /\ UNCHANGED <<asked, ready, suppressed>>
  BY DEF HandleTransaction, mapVars, history
<1>2. Head(events(a)).txn \in Txn /\ TxnAt(a, 1, Head(events(a)).txn)
  BY <1>0, <1>1, PopShape
  DEF Event, TransactionEvents, TexturesEvents, OpsEvents, TxnAt
<1>3. PICK t \in Txn : t = Head(events(a)).txn
  BY <1>2
<1>4. /\ HeldTxns(a) = <<t>> \o HeldTxns(a)' /\ HeldTxns(a)' \in Seq(Txn)
      /\ \A b \in Apis \ {a} : HeldTxns(b)' = HeldTxns(b)
  BY <1>0, <1>1, <1>3, PopTxns
<1>5. asked[t].textures \subseteq Settled
  <2>1. \A j \in Nat : j < 1 => \A x : ~TextureAt(a, j, x)
    BY DEF TextureAt
  <2> QED BY <1>2, <1>3, <2>1 DEF TexturesInv, TexturesAhead
<1> QED BY <1>1, <1>3, <1>4, <1>5, SendHeldStep

(* Every step is a step of TransactionOrder, or none.                       *)
LEMMA NextStep ==
  TypeOK /\ TexturesInv /\ TexturesInv' /\ [Next]_vars
    => [Order!Next]_(Order!vars)
<1> SUFFICES ASSUME TypeOK, TexturesInv, TexturesInv', [Next]_vars
             PROVE  [Order!Next]_(Order!vars)
  OBVIOUS
<1>0. QueueTypeOK
  BY DEF TypeOK
<1>9. Settled' \subseteq Textures
  BY DEF TexturesInv, Settled
<1>10. ASSUME UNCHANGED <<mPendingWrTransactionEvents, sent, asked>>,
             Settled \subseteq Settled'
      PROVE  Order!Next
  <2>1. \A b \in Apis : HeldTxns(b)' = HeldTxns(b)
    BY <1>10 DEF HeldTxns, events
  <2> QED BY <1>10, <1>9, <2>1, SettleStep
<1>11. ASSUME UNCHANGED <<ready, suppressed>> PROVE Settled \subseteq Settled'
  BY <1>11 DEF Settled
<1>1. ASSUME NEW a \in Apis, NEW x \in Textures,
             GetPendingRemoteTextureInfoList(a, x)
      PROVE  Order!Next
  BY <1>1, <1>10, <1>11 DEF GetPendingRemoteTextureInfoList, mapVars
<1>2. ASSUME NEW a \in Apis, NEW k \in 0 .. 1,
             GetPendingAsyncImagePipelineOps(a, k)
      PROVE  Order!Next
  BY <1>2, <1>10, <1>11 DEF GetPendingAsyncImagePipelineOps, mapVars, history
<1>3. ASSUME NEW a \in Apis, NEW type \in {"FlushWithWait", "FlushWithoutWait"},
             Flush(a, type)
      PROVE  Order!Next
  BY <1>3, <1>10, <1>11 DEF Flush, mapVars, history
<1>4. CASE DestroyRenderer
  BY <1>4, <1>10, <1>11 DEF DestroyRenderer, mapVars, history
<1>5. ASSUME NEW a \in Apis, RunHandleWrTransactionEvents(a)
      PROVE  Order!Next
  BY <1>5, <1>10, <1>11 DEF RunHandleWrTransactionEvents, mapVars, history
<1>6. CASE HandleWrTransactionEvents
  <2> DEFINE a == call[1]
  <2>0. a \in Apis
    BY <1>0, <1>6 DEF HandleWrTransactionEvents, QueueTypeOK
  <2>1. CASE HandleDone(a)
    BY <1>10, <1>11, <2>1 DEF HandleDone, mapVars, history
  <2>2. CASE HandleAsyncImagePipelineOps(a) \/ RemoteTexturesDone(a)
    <3>1. /\ events(a) # <<>> /\ PopEvent(a)
          /\ UNCHANGED <<sent, asked, ready, suppressed>>
          /\ Head(events(a)).tag # "Transaction"
      BY <2>2 DEF HandleAsyncImagePipelineOps, RemoteTexturesDone, mapVars,
         history
    <3>2. PICK b \in Apis : b = a
      BY <2>0
    <3>3. HeldTxns(b) = HeldTxns(b)' /\
          \A c \in Apis \ {b} : HeldTxns(c)' = HeldTxns(c)
      BY <1>0, <3>1, <3>2, PopTxns
    <3>4. \A c \in Apis : HeldTxns(c)' = HeldTxns(c)
      BY <3>3
    <3> QED BY <1>9, <1>11, <3>1, <3>4, SettleStep
  <2>3. CASE HandleRemoteTexture(a, call[2])
    <3>1. PICK b \in Apis : b = a
      BY <2>0
    <3>2. /\ events(b) # <<>> /\ Head(events(b)).list # <<>>
          /\ Head(events(b)).tag = "PendingRemoteTextures"
          /\ UNCHANGED <<sent, asked>>
          /\ UNCHANGED mPendingWrTransactionEvents \/ PopTexture(b)
          /\ Settled \subseteq Settled'
      BY <2>3, <3>1 DEF HandleRemoteTexture, SuppressRemoteTextureReadyCheck,
         history, Settled
    <3>3. CASE UNCHANGED mPendingWrTransactionEvents
      BY <1>10, <3>2, <3>3
    <3>4. CASE PopTexture(b)
      <4>1. \A c \in Apis : HeldTxns(c)' = HeldTxns(c)
        BY <1>0, <3>2, <3>4, PopTextureTxns
      <4> QED BY <1>9, <3>2, <4>1, SettleStep
    <3> QED BY <3>2, <3>3, <3>4
  <2>4. CASE HandleTransaction(a)
    <3>1. PICK b \in Apis : b = a
      BY <2>0
    <3> QED BY <2>4, <3>1, HandleTransactionStep
  <2> QED BY <1>6, <2>1, <2>2, <2>3, <2>4 DEF HandleWrTransactionEvents
<1>7. ASSUME NEW x \in Textures, RemoteTextureReady(x)
      PROVE  Order!Next
  <2>1. /\ UNCHANGED <<mPendingWrTransactionEvents, sent, asked>>
        /\ Settled \subseteq Settled'
    BY <1>7 DEF RemoteTextureReady, history, Settled
  <2> QED BY <2>1, <1>10
<1>8. CASE UNCHANGED vars
  BY <1>8, <1>10, <1>11 DEF vars, mapVars, history
<1> QED BY <1>1, <1>2, <1>3, <1>4, <1>5, <1>6, <1>7, <1>8,
           SendTransactionStep DEF Next, Callers

(* Nothing is held or sent at the start.                                    *)
LEMMA InitStep == Init => Order!Init /\ TexturesInv
<1> SUFFICES ASSUME Init PROVE Order!Init /\ TexturesInv
  OBVIOUS
<1>1. \A a \in Apis : events(a) = <<>>
  BY DEF Init, events
<1>2. \A a \in Apis : HeldTxns(a) = <<>>
  BY <1>1, NoTxns DEF HeldTxns
<1>3. \A t \in Txn : asked[t].textures = {}
  BY DEF Init
<1>4. Order!Init
  BY <1>2, <1>3 DEF Init, Order!Init, Settled
<1>5. \A a \in Apis, t \in Txn, i \in Nat : ~TxnAt(a, i, t)
  BY <1>1 DEF TxnAt
<1>6. TexturesInv
  BY <1>5 DEF Init, TexturesInv, TexturesAhead
<1> QED BY <1>4, <1>6

-----------------------------------------------------------------------------
(* Theorems                                                                 *)

(* All queues are empty and nothing is sent at the start.                   *)
LEMMA InitIInv == Init => IInv
<1> SUFFICES ASSUME Init PROVE IInv
  OBVIOUS
<1>1. \A a \in Apis : events(a) = <<>> /\ sent[a] = <<>>
  BY DEF Init, events
<1>2. OthersWokenUp
  BY <1>1 DEF OthersWokenUp
<1>3. \A a \in Apis, i \in Nat, t \in Txn : ~TxnAt(a, i, t) /\ ~OpsAt(a, i, t)
  BY <1>1 DEF TxnAt, OpsAt
<1>4. \A a \in Apis : ToSet(sent[a]) = {}
  BY <1>1 DEF ToSet
<1>5. \A t \in Txn : applied[t] = 0
  BY DEF Init
<1>6. OpsInv
  BY <1>3, <1>4, <1>5 DEF OpsInv, HeldOnce, HeldIsUnsent, OpsBeforeTxn,
     AppliedOrAhead, NewIsUntouched, SentIsApplied
<1>7. InOrder
  BY <1>1, <1>3, <1>4 DEF InOrder, HeldAscend, SentBeforeHeld, SentAscend
<1> QED BY <1>2, <1>6, <1>7, InitTypeOK DEF IInv

(* The inductive invariant holds in every reachable state.                  *)
THEOREM Invariant == Spec => []IInv
<1>1. IInv /\ [Next]_vars => IInv'
  BY NextTypeOK, NextWoken, NextOps, NextOrder DEF IInv
<1> QED BY <1>1, InitIInv, PTL DEF Spec

(* The queues hold events only, and no handler looks into an empty one.     *)
THEOREM TypeCorrect == Spec => []TypeOK
<1>1. IInv => TypeOK
  BY DEF IInv
<1> QED BY <1>1, Invariant, PTL

(* Whatever textures become ready, and whoever flushes or handles events in *)
(* between, a queue that is not empty has a callback or a runnable that     *)
(* will handle it (WebRenderAPI::HandleWrTransactionEvents).                *)
THEOREM HeldStayWokenUp == Spec => []HeldIsWokenUp
<1>1. IInv => HeldIsWokenUp
  BY DEF IInv, OthersWokenUp, HeldIsWokenUp
<1> QED BY <1>1, Invariant, PTL

(* What is sent has had exactly its own operations applied to it, although  *)
(* SendTransaction keeps a raw pointer to it in the queue.                  *)
THEOREM OpsStayWithTheirTransaction == Spec => []OpsReachTheirTransaction
<1>1. IInv => OpsReachTheirTransaction
  BY DEF IInv, OpsInv, SentIsApplied, OpsReachTheirTransaction
<1> QED BY <1>1, Invariant, PTL

(* An API's transactions reach WebRender in the order in which they were    *)
(* given to SendTransaction, with or without textures to wait for.          *)
THEOREM SentInGivenOrder == Spec => []SentAscend
<1>1. IInv => SentAscend
  BY DEF IInv, InOrder
<1> QED BY <1>1, Invariant, PTL

(* An API's transactions are sent in the order in which they were given to  *)
(* SendTransaction, each when its textures are ready or given up: it        *)
(* implements TransactionOrder.                                             *)
THEOREM SendsInOrder == Spec => SentInOrder
<1>1. IInv /\ TexturesInv /\ [Next]_vars => TexturesInv'
  BY NextTextures DEF IInv
<1>2. IInv /\ TexturesInv /\ TexturesInv' /\ [Next]_vars
        => [Order!Next]_(Order!vars)
  BY NextStep DEF IInv
<1> QED BY <1>1, <1>2, InitStep, Invariant, PTL
        DEF Spec, SentInOrder, Order!Spec
=============================================================================
