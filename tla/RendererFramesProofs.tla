------------------------ MODULE RendererFramesProofs ------------------------
(***************************************************************************)
(* What holds of a window's frames for any number of frames, display lists *)
(* and sizes: no image is given back that the GPU may still read, no       *)
(* window presented in parts shows a pixel that was not drawn, and what is *)
(* waited for, handed over and reported is that of the right frame.        *)
(***************************************************************************)
EXTENDS RendererFrames, SequenceTheorems, FiniteSetTheorems,
        WellFoundedInduction, TLAPS

-----------------------------------------------------------------------------
(* The inductive invariant                                                  *)

Ids     == [id : Nat, query : Nat]
Updates == [id : Nat, epoch : Nat]

TypeOK ==
  /\ mLatestRenderFrameId \in Nat /\ mLastCompletedFrameId \in Nat
  /\ gpuDone \in Nat
  /\ mWaitForPresentQueries \in Seq(Ids) /\ mRecycledQuery \in Nat
  /\ sent \in Nat /\ applied \in Nat /\ flushed \in Nat
  /\ mLastPipelineInfo \in Nat /\ released \in Nat
  /\ reads \in [1 .. MaxEpochs -> Nat]
  /\ updates \in Seq(Updates)

(* A display list is taken into use after it was sent, and told and given   *)
(* back after that.                                                         *)
EpochsInOrder ==
  /\ applied <= sent /\ flushed <= applied
  /\ mLastPipelineInfo <= applied /\ released <= applied
  /\ \A i \in 1 .. Len(updates) : updates[i].epoch <= applied

(* WebRender has drawn the frame that still waits for its id.               *)
Drawn == framePc \in {"endAll", "endPart", "noId", "crashed"}

(* The images of a display list are read by frames that have an id, but     *)
(* those in use also by the frame that waits for one.                       *)
ReadsAreOld ==
  \A e \in 1 .. MaxEpochs :
    reads[e] <= IF Drawn /\ e >= applied THEN mLatestRenderFrameId + 1
                ELSE mLatestRenderFrameId

(* What is replaced is read by no frame after the one it was reported with. *)
UpdatesCoverReads ==
  \A i \in 1 .. Len(updates) : \A e \in 1 .. MaxEpochs :
    e < updates[i].epoch => reads[e] <= updates[i].id

(* A frame is said to be completed when the GPU has run its commands.       *)
CompletedIsDone ==
  platform = "windows" =>
    /\ mLastCompletedFrameId <= gpuDone
    /\ \A e \in 1 .. MaxEpochs : e < released => reads[e] <= gpuDone

ReleaseInv == /\ EpochsInOrder
              /\ ReadsAreOld
              /\ UpdatesCoverReads
              /\ CompletedIsDone

(* Partial present is for swap chains only.  Either each pixel was drawn,   *)
(* or the next frame is asked to be full: since it is the first, the flag   *)
(* says so, or new buffers come first.                                      *)
WholeOrFull ==
  platform = "windows" /\ mUsePartialPresent =>
    /\ ~mUseNativeCompositor
    /\ whole \/ mFullRender \/ ~drawnOnce \/ mBufferSize = 0
             \/ framePc = "endAll"
    /\ framePc \in {"render", "endAll", "endPart"} => mBufferSize # 0
    /\ framePc = "endPart" => whole

(* The others draw each frame whole.                                        *)
PartsOnWindowsOnly ==
  /\ clientSize # 0
  /\ platform # "windows" => ~mUsePartialPresent
  /\ framePc = "endPart" => mUsePartialPresent

(* A query is known by the number of the frame it was made for: one that is *)
(* made is new, and is waited for once or kept for reuse.                   *)
QueriesInv ==
  /\ mRecycledQuery <= mLatestRenderFrameId
  /\ \A i \in 1 .. Len(mWaitForPresentQueries) :
       /\ mWaitForPresentQueries[i].query \in 1 .. mLatestRenderFrameId
       /\ mWaitForPresentQueries[i].query # mRecycledQuery
       /\ \A j \in 1 .. Len(mWaitForPresentQueries) :
            mWaitForPresentQueries[i].query = mWaitForPresentQueries[j].query
              => i = j

(* The fence is that of the frame that ends, and is handed over with it.    *)
FencesInv ==
  /\ mReleaseFenceFd # 0 =>
       /\ platform # "windows" /\ framePc = "wait"
       /\ mReleaseFenceFd = mLatestRenderFrameId
  /\ fence # 0 => framePc = "report" /\ fence = mLatestRenderFrameId
  /\ framePc = "waitAll" => platform = "windows"
  /\ FencesAreFresh

(* On Android a first failure is remembered until a surface can be made.    *)
SurfacesInv ==
  /\ surfaceFailures \in 0 .. 2
  /\ surfaceFailures > 0 => platform = "linux" \/ mHandlingNewSurfaceError
  /\ SurfaceErrorsAreRaised

(* macOS: between the frames the GPU is asked for the last one drawn, and   *)
(* has run the one before.                                                  *)
DrawnInv ==
  platform = "mac" =>
    /\ lastDrawn \in Nat \X Nat
    /\ IF framePc = "wait"
       THEN /\ mPreviousFrameDoneSync = lastDrawn[1]
            /\ mThisFrameDoneSync = lastDrawn[2]
       ELSE /\ mPreviousFrameDoneSync = lastDrawn[2]
            /\ lastDrawn[1] <= gpuDone

(* Each display list that is taken into use is told at once: it is reported *)
(* or in the info that will be.                                             *)
ReportedInv ==
  /\ reported \in Nat /\ reported <= applied /\ flushed = applied
  /\ framePc \in {"idle", "render"} => reported = applied
  /\ reported = applied \/ mLastPipelineInfo = applied

IInv == /\ TypeOK /\ ReleaseInv
        /\ WholeOrFull /\ PartsOnWindowsOnly
        /\ QueriesInv /\ FencesInv /\ SurfacesInv /\ DrawnInv /\ ReportedInv

-----------------------------------------------------------------------------
(* Queries, numbers and updates                                             *)

(* A set of numbers that is not empty and has a bound has a greatest one.   *)
LEMMA Greatest ==
  ASSUME NEW n \in Nat, NEW S \in SUBSET (0 .. n), S # {}
  PROVE  \E m \in S : \A k \in S : k <= m
<1> DEFINE T == {n - k : k \in S}
<1>0. \A k \in S : k \in Nat /\ n - k \in Nat /\ n - k \in T
  OBVIOUS
<1>1. T \subseteq Nat /\ T # {}
  BY <1>0
<1>2. PICK x \in T : \A y \in T : ~(<<y, x>> \in OpToRel(<, Nat))
  BY <1>1, NatLessThanWellFounded, WFMin
<1>3. \A y \in T : ~(y < x)
  BY <1>1, <1>2 DEF OpToRel
<1>4. PICK m \in S : x = n - m
  OBVIOUS
<1>5. \A k \in S : ~(n - k < n - m)
  BY <1>0, <1>3, <1>4
<1>6. \A k \in S : k <= m
  BY <1>0, <1>5
<1> QED BY <1>6

(* A query for the end of a frame's commands.                               *)
LEMMA InsertType ==
  ASSUME TypeOK, NEW id \in Nat, NEW made,
         InsertGraphicsCommandsFinishedWaitQuery(id, made)
  PROVE  /\ mWaitForPresentQueries' \in Seq(Ids) /\ mRecycledQuery' \in Nat
         /\ mLastCompletedFrameId' = mLastCompletedFrameId
<1>1. [id |-> id, query |-> GetD3D11Query(id)] \in Ids
  BY DEF TypeOK, Ids, GetD3D11Query
<1>2. Append(mWaitForPresentQueries, [id |-> id, query |-> GetD3D11Query(id)])
        \in Seq(Ids)
  BY <1>1, AppendProperties DEF TypeOK
<1>3. CASE UNCHANGED queryVars
  BY <1>3 DEF TypeOK, queryVars
<1>4. CASE ~UNCHANGED queryVars
  <2>1. /\ mWaitForPresentQueries' =
             Append(mWaitForPresentQueries,
                    [id |-> id, query |-> GetD3D11Query(id)])
        /\ mRecycledQuery' = 0 /\ UNCHANGED mLastCompletedFrameId
    BY <1>4 DEF InsertGraphicsCommandsFinishedWaitQuery, RecycledAfterGet,
       NoQuery
  <2> QED BY <1>2, <2>1
<1> QED BY <1>3, <1>4

(* A finished query tells of a frame that the GPU has run.                  *)
LEMMA PopFinishedType ==
  ASSUME TypeOK, mWaitForPresentQueries # <<>>, FrontIsFinished, PopFinished
  PROVE  /\ mWaitForPresentQueries' \in Seq(Ids) /\ mRecycledQuery' \in Nat
         /\ mLastCompletedFrameId' \in Nat /\ mLastCompletedFrameId' <= gpuDone
<1> DEFINE front == Head(mWaitForPresentQueries)
<1>1. front \in Ids /\ Tail(mWaitForPresentQueries) \in Seq(Ids)
  BY HeadTailProperties DEF TypeOK
<1>2. front \in ToSet(mWaitForPresentQueries)
  BY EmptySeq DEF TypeOK, ToSet
<1>3. front.id <= gpuDone
  BY <1>2 DEF FrontIsFinished
<1> QED BY <1>1, <1>3 DEF PopFinished, Ids

(* NotifyPipelinesUpdated keeps a part of the updates, and gives back what  *)
(* one of those that are completed replaced.                                *)
LEMMA NotifyShape ==
  ASSUME TypeOK, EpochsInOrder, NotifyPipelinesUpdated
  PROVE  LET all == Append(updates, [id |-> mLatestRenderFrameId,
                                     epoch |-> mLastPipelineInfo])
         IN /\ all \in Seq(Updates)
            /\ \A i \in 1 .. Len(all) :
                 \/ i \in 1 .. Len(updates) /\ all[i] = updates[i]
                 \/ all[i] = [id |-> mLatestRenderFrameId,
                              epoch |-> mLastPipelineInfo]
            /\ updates' \in Seq(Updates)
            /\ \A i \in 1 .. Len(updates') :
                 \E j \in 1 .. Len(all) : updates'[i] = all[j]
            /\ \/ released' = released
               \/ \E j \in 1 .. Len(all) : /\ released' = all[j].epoch
                                          /\ all[j].id <= GetLastCompletedFrameId
<1> DEFINE new  == [id |-> mLatestRenderFrameId, epoch |-> mLastPipelineInfo]
           all  == Append(updates, new)
           C    == Completed(all)
           done == {all[i].epoch : i \in C} \cup {released}
<1>1. new \in Updates
  BY DEF TypeOK, Updates
<1>2. /\ all \in Seq(Updates) /\ Len(all) = Len(updates) + 1
      /\ Len(updates) \in Nat
      /\ \A i \in 1 .. Len(updates) : all[i] = updates[i]
      /\ all[Len(updates) + 1] = new
  BY <1>1, AppendProperties, LenProperties DEF TypeOK
<1>3. \A i \in 1 .. Len(all) :
         (i \in 1 .. Len(updates) /\ all[i] = updates[i]) \/ all[i] = new
  BY <1>2
<1> HIDE DEF new, all
<1>4. C \subseteq 1 .. Len(all) /\ \A i \in C : all[i].id <= GetLastCompletedFrameId
  BY <1>2, LenProperties DEF Completed
<1>5. Cardinality(C) \in Nat
  <2>1. Len(all) \in Nat
    BY <1>2
  <2>2. IsFiniteSet(1 .. Len(all))
    BY <2>1, FS_Interval
  <2>3. IsFiniteSet(C)
    BY <1>4, <2>2, FS_Subset
  <2> QED BY <2>3, FS_CardinalityType
<1>6. /\ updates' = SubSeq(all, Cardinality(C) + 1, Len(all))
      /\ released' = CHOOSE e \in done : \A f \in done : f <= e
  BY DEF NotifyPipelinesUpdated, all, new, Latest
<1>7. /\ updates' \in Seq(Updates)
      /\ \A i \in 1 .. Len(updates') :
           \E j \in 1 .. Len(all) : updates'[i] = all[j]
  <2> DEFINE m == Cardinality(C) + 1
             n == Len(all)
  <2>1. m \in Nat \ {0} /\ n \in Nat /\ \A i \in m .. n : all[i] \in Updates
    BY <1>2, <1>5
  <2> HIDE DEF m
  <2>2. /\ SubSeq(all, m, n) \in Seq(Updates)
        /\ Len(SubSeq(all, m, n)) = IF m <= n THEN n - m + 1 ELSE 0
        /\ \A i \in 1 .. n - m + 1 : SubSeq(all, m, n)[i] = all[m + i - 1]
    BY <2>1, SubSeqProperties
  <2>3. updates' = SubSeq(all, m, n)
    BY <1>6 DEF m
  <2>4. \A i \in 1 .. Len(updates') :
          m + i - 1 \in 1 .. n /\ updates'[i] = all[m + i - 1]
    BY <2>1, <2>2, <2>3
  <2> QED BY <2>2, <2>3, <2>4
<1>8. released' = released \/ \E j \in C : released' = all[j].epoch
  <2>1. \A i \in 1 .. Len(all) : all[i].epoch \in 0 .. applied
    <3>1. new.epoch = mLastPipelineInfo
      BY DEF new
    <3>2. \A i \in 1 .. Len(all) : all[i].epoch \in Nat
      <4>1. \A i \in 1 .. Len(all) : all[i] \in Updates
        BY <1>2, ElementOfSeq
      <4> QED BY <4>1 DEF Updates
    <3>3. \A i \in 1 .. Len(all) : all[i].epoch <= applied
      BY <1>3, <3>1 DEF EpochsInOrder
    <3> QED BY <3>2, <3>3 DEF TypeOK
  <2>2. done \subseteq 0 .. applied /\ done # {} /\ applied \in Nat
    BY <1>4, <2>1 DEF TypeOK, EpochsInOrder
  <2>3. \E e \in done : \A f \in done : f <= e
    BY <2>2, Greatest
  <2>4. released' \in done
    BY <1>6, <2>3
  <2> QED BY <2>4
<1> QED BY <1>2, <1>3, <1>4, <1>7, <1>8 DEF all, new

-----------------------------------------------------------------------------
(* Types are kept                                                           *)

(* What neither draws nor reports.                                          *)
LEMMA TypeUnchanged ==
  ASSUME TypeOK,
         UNCHANGED <<mLatestRenderFrameId, queryVars, applied, flushed,
                     mLastPipelineInfo, released, reads, updates>>,
         gpuDone' \in Nat, sent' \in Nat
  PROVE  TypeOK'
  BY DEF TypeOK, queryVars

(* The system starts well-typed.                                            *)
LEMMA InitTypeOK == Init => TypeOK
<1> SUFFICES ASSUME Init PROVE TypeOK
  OBVIOUS
<1>1. <<>> \in Seq(Ids) /\ <<>> \in Seq(Updates)
  BY EmptySeq
<1> QED BY <1>1, FramesAssumption DEF Init, TypeOK, NoQuery

(* Every step keeps the types.                                              *)
LEMMA NextTypeOK == TypeOK /\ EpochsInOrder /\ [Next]_vars => TypeOK'
<1> SUFFICES ASSUME TypeOK, EpochsInOrder, [Next]_vars PROVE TypeOK'
  OBVIOUS
<1>0. Latest + 1 \in Nat /\ sent \in Nat /\ gpuDone \in Nat
  BY DEF TypeOK, Latest
<1>1. ASSUME NEW a \in BOOLEAN, NEW b \in BOOLEAN, SkipFrame(a, b)
      PROVE  TypeOK'
  <2>1. /\ mWaitForPresentQueries' \in Seq(Ids) /\ mRecycledQuery' \in Nat
        /\ mLastCompletedFrameId' \in Nat
    BY <1>0, <1>1, InsertType DEF SkipFrame, TypeOK
  <2>2. mLatestRenderFrameId' \in Nat
    BY <1>0, <1>1 DEF SkipFrame, GetNextRenderFrameId
  <2>3. /\ sent' \in Nat /\ applied' \in Nat /\ flushed' \in Nat
        /\ mLastPipelineInfo' \in Nat /\ UNCHANGED reads
    BY <1>1 DEF SkipFrame, TypeOK, Updated, FlushPipelineInfo, wrVars
  <2> QED BY <1>1, <2>1, <2>2, <2>3
          DEF SkipFrame, TypeOK, worldVars, managerVars
<1>2. ASSUME NEW a \in BOOLEAN, NEW b \in BOOLEAN, BeginFrame(a, b)
      PROVE  TypeOK'
  BY <1>0, <1>2, TypeUnchanged DEF BeginFrame, wrVars, managerVars, worldVars
<1>3. ASSUME NEW a \in BOOLEAN, NEW b \in BOOLEAN, Draw(a, b)
      PROVE  TypeOK'
  <2>1. /\ sent' \in Nat /\ applied' \in Nat /\ flushed' \in Nat
        /\ mLastPipelineInfo' \in Nat
    BY <1>3 DEF Draw, TypeOK, Updated, FlushedByRender, FlushPipelineInfo
  <2>2. reads' \in [1 .. MaxEpochs -> Nat]
    BY <1>0, <1>3 DEF Draw, TypeOK
  <2> QED BY <1>3, <2>1, <2>2
          DEF Draw, TypeOK, worldVars, managerVars, queryVars
<1>4. ASSUME NEW a \in BOOLEAN, NEW b \in BOOLEAN, NEW c \in BOOLEAN,
             EndFrameANGLE(a, b, c)
      PROVE  TypeOK'
  <2>1. /\ mWaitForPresentQueries' \in Seq(Ids) /\ mRecycledQuery' \in Nat
        /\ mLastCompletedFrameId' \in Nat
    BY <1>0, <1>4, InsertType DEF EndFrameANGLE, TypeOK
  <2> QED BY <1>0, <1>4, <2>1 DEF EndFrameANGLE, GetNextRenderFrameId, TypeOK,
             wrVars, managerVars, worldVars
<1>5. ASSUME NEW a \in BOOLEAN, NEW b \in BOOLEAN, Resume(a, b)
      PROVE  TypeOK'
  BY <1>0, <1>5, TypeUnchanged DEF Resume, wrVars, managerVars, worldVars
<1>6. ASSUME NEW a \in BOOLEAN, EndFrameGL(a)
      PROVE  TypeOK'
  BY <1>0, <1>6 DEF EndFrameGL, GetNextRenderFrameId, TypeOK, queryVars,
     wrVars, managerVars, worldVars
<1>7. ASSUME NEW a \in BOOLEAN, UpdateFrameId(a)
      PROVE  TypeOK'
  <2>1. /\ mWaitForPresentQueries' \in Seq(Ids) /\ mRecycledQuery' \in Nat
        /\ mLastCompletedFrameId' \in Nat
    BY <1>0, <1>7, InsertType DEF UpdateFrameId, TypeOK
  <2> QED BY <1>0, <1>7, <2>1 DEF UpdateFrameId, GetNextRenderFrameId, TypeOK,
             wrVars, managerVars, worldVars
<1>8. CASE EndFrameWithoutBuffer \/ WaitOver \/ Pause \/ UNCHANGED vars
  BY <1>0, <1>8, TypeUnchanged DEF EndFrameWithoutBuffer, WaitOver, Pause,
     vars, wrVars, managerVars, worldVars
<1>9. CASE Wait
  <2>1. mWaitForPresentQueries # <<>>
    BY <1>9, EmptySeq DEF Wait, MoreToWaitFor, WaitLatency, TypeOK
  <2>2. /\ mWaitForPresentQueries' \in Seq(Ids) /\ mRecycledQuery' \in Nat
        /\ mLastCompletedFrameId' \in Nat
    <3>1. CASE FrontIsFinished /\ PopFinished
      BY <2>1, <3>1, PopFinishedType
    <3>2. CASE WaitFails
      BY <2>1, <3>2, HeadTailProperties
      DEF WaitFails, CompletedAfterFailure, TypeOK
    <3> QED BY <1>9, <3>1, <3>2 DEF Wait
  <2> QED BY <1>9, <2>2 DEF Wait, TypeOK, wrVars, managerVars, worldVars
<1>10. CASE Poll
  <2>1. /\ mWaitForPresentQueries' \in Seq(Ids) /\ mRecycledQuery' \in Nat
        /\ mLastCompletedFrameId' \in Nat
    BY <1>10, PopFinishedType DEF Poll
  <2> QED BY <1>10, <2>1 DEF Poll, TypeOK, wrVars, managerVars, worldVars
<1>11. CASE NotifyPipelinesUpdated
  <2>1. updates' \in Seq(Updates)
    BY <1>11, NotifyShape
  <2>2. released' \in Nat
    <3> DEFINE all == Append(updates, [id |-> mLatestRenderFrameId,
                                       epoch |-> mLastPipelineInfo])
    <3>1. all \in Seq(Updates)
      BY <1>11, NotifyShape
    <3>2. released' = released \/ \E j \in 1 .. Len(all) : released' = all[j].epoch
      BY <1>11, NotifyShape
    <3> HIDE DEF all
    <3>3. \A j \in 1 .. Len(all) : all[j] \in Updates
      BY <3>1, ElementOfSeq
    <3> QED BY <3>2, <3>3 DEF TypeOK, Updates
  <2> QED BY <1>11, <2>1, <2>2
          DEF NotifyPipelinesUpdated, TypeOK, queryVars, wrVars, worldVars
<1>12. CASE World
  <2>1. gpuDone' \in Nat /\ sent' \in Nat
    BY <1>0, <1>12 DEF World, GpuRuns, DeviceLost, SendEpoch, WindowResized,
       worldVars
  <2> QED BY <1>12, <2>1, TypeUnchanged DEF World, managerVars
<1> QED BY <1>1, <1>2, <1>3, <1>4, <1>5, <1>6, <1>7, <1>8, <1>9, <1>10,
           <1>11, <1>12 DEF Next

-----------------------------------------------------------------------------
(* What is given back is not read                                           *)

(* What the comparisons need of the types.                                  *)
LEMMA Numbers ==
  ASSUME TypeOK
  PROVE  /\ mLatestRenderFrameId \in Nat /\ mLastCompletedFrameId \in Nat
         /\ gpuDone \in Nat /\ sent \in Nat /\ applied \in Nat
         /\ flushed \in Nat /\ mLastPipelineInfo \in Nat /\ released \in Nat
         /\ \A e \in 1 .. MaxEpochs : e \in Nat /\ reads[e] \in Nat
         /\ \A i \in 1 .. Len(updates) :
              updates[i].id \in Nat /\ updates[i].epoch \in Nat
<1>1. \A i \in 1 .. Len(updates) : updates[i] \in Updates
  BY ElementOfSeq DEF TypeOK
<1>2. \A e \in 1 .. MaxEpochs : e \in Nat /\ reads[e] \in Nat
  BY DEF TypeOK
<1> QED BY <1>1, <1>2 DEF TypeOK, Updates

(* A step that draws nothing and gives nothing back.                        *)
LEMMA ReleaseKept ==
  ASSUME TypeOK, TypeOK', ReleaseInv,
         UNCHANGED <<platform, applied, flushed, mLastPipelineInfo, released,
                     reads, updates>>,
         sent <= sent', gpuDone <= gpuDone',
         platform = "windows" => mLastCompletedFrameId' <= gpuDone',
         \/ /\ mLatestRenderFrameId' = mLatestRenderFrameId
            /\ Drawn => Drawn'
         \/ mLatestRenderFrameId' = mLatestRenderFrameId + 1
  PROVE  ReleaseInv'
<1>1. EpochsInOrder'
  <2>1. /\ sent \in Nat /\ sent' \in Nat /\ applied \in Nat
        /\ applied <= sent
    BY DEF ReleaseInv, EpochsInOrder, TypeOK
  <2>2. applied <= sent'
    BY <2>1
  <2> QED BY <2>2 DEF ReleaseInv, EpochsInOrder
<1>2. ReadsAreOld'
  <2> SUFFICES ASSUME NEW e \in 1 .. MaxEpochs
               PROVE  reads[e] <= IF Drawn' /\ e >= applied
                                  THEN mLatestRenderFrameId' + 1
                                  ELSE mLatestRenderFrameId'
    BY DEF ReadsAreOld
  <2>1. /\ reads[e] \in Nat /\ mLatestRenderFrameId \in Nat
        /\ mLatestRenderFrameId' \in Nat
    BY DEF TypeOK
  <2>2. reads[e] <= IF Drawn /\ e >= applied THEN mLatestRenderFrameId + 1
                    ELSE mLatestRenderFrameId
    BY DEF ReleaseInv, ReadsAreOld
  <2> QED BY <2>1, <2>2
<1>3. UpdatesCoverReads'
  BY DEF ReleaseInv, UpdatesCoverReads
<1>4. CompletedIsDone'
  BY DEF ReleaseInv, CompletedIsDone, TypeOK
<1> QED BY <1>1, <1>2, <1>3, <1>4 DEF ReleaseInv

(* A window that is not drawn may still take a display list into use.       *)
LEMMA SkipRelease ==
  ASSUME TypeOK, TypeOK', ReleaseInv, NEW a \in BOOLEAN, NEW b \in BOOLEAN,
         SkipFrame(a, b)
  PROVE  ReleaseInv'
<1>1. /\ mLatestRenderFrameId' = mLatestRenderFrameId + 1
      /\ UNCHANGED <<platform, gpuDone, updates, released, reads>>
      /\ framePc = "idle" /\ framePc' = "report"
  BY DEF SkipFrame, GetNextRenderFrameId, worldVars, managerVars, wrVars,
     Latest
<1>2. mLastCompletedFrameId' = mLastCompletedFrameId
  <2>1. Latest + 1 \in Nat
    BY DEF TypeOK, Latest
  <2> QED BY <2>1, InsertType DEF SkipFrame
<1>3. CASE a
  <2>1. /\ applied' = sent /\ sent' = sent /\ flushed' = sent
        /\ mLastPipelineInfo' = sent \/ mLastPipelineInfo' = 0
    BY <1>3 DEF SkipFrame, Updated, FlushPipelineInfo
  <2>2. EpochsInOrder'
    BY <1>1, <2>1, Numbers DEF ReleaseInv, EpochsInOrder
  <2>3. ReadsAreOld'
    <3> SUFFICES ASSUME NEW e \in 1 .. MaxEpochs
                 PROVE  reads[e] <= mLatestRenderFrameId + 1
      BY <1>1 DEF ReadsAreOld, Drawn
    <3>1. reads[e] \in Nat /\ mLatestRenderFrameId \in Nat
      BY DEF TypeOK
    <3>2. \/ reads[e] <= mLatestRenderFrameId
          \/ reads[e] <= mLatestRenderFrameId + 1
      BY DEF ReleaseInv, ReadsAreOld
    <3> QED BY <3>1, <3>2
  <2>4. UpdatesCoverReads' /\ CompletedIsDone'
    BY <1>1, <1>2 DEF ReleaseInv, UpdatesCoverReads, CompletedIsDone
  <2> QED BY <2>2, <2>3, <2>4 DEF ReleaseInv
<1>4. CASE ~a
  <2>1. UNCHANGED wrVars
    BY <1>4 DEF SkipFrame
  <2>2. platform = "windows" => mLastCompletedFrameId <= gpuDone
    BY DEF ReleaseInv, CompletedIsDone
  <2> QED BY <1>1, <1>2, <2>1, <2>2, ReleaseKept DEF TypeOK, wrVars
<1> QED BY <1>3, <1>4

(* Drawing reads the images of the display list that is taken into use, and *)
(* of no older one.                                                         *)
LEMMA DrawRelease ==
  ASSUME TypeOK, TypeOK', ReleaseInv, NEW a \in BOOLEAN, NEW b \in BOOLEAN,
         Draw(a, b)
  PROVE  ReleaseInv'
<1>1. /\ UNCHANGED <<platform, gpuDone, updates, released, sent,
                    mLatestRenderFrameId, mLastCompletedFrameId>>
      /\ framePc = "render" /\ framePc' \in {"noId", "endAll", "endPart"}
      /\ applied' = sent /\ flushed' = sent
      /\ mLastPipelineInfo' = sent \/ mLastPipelineInfo' = 0
      /\ reads' = [reads EXCEPT ![sent] = mLatestRenderFrameId + 1]
  BY DEF Draw, Updated, FlushedByRender, FlushPipelineInfo, worldVars,
     managerVars, queryVars, Latest
<1>2. \A e \in 1 .. MaxEpochs : e < sent => reads'[e] = reads[e]
  BY <1>1 DEF TypeOK
<1>3. EpochsInOrder'
  BY <1>1, Numbers DEF ReleaseInv, EpochsInOrder
<1>4. ReadsAreOld'
  <2> SUFFICES ASSUME NEW e \in 1 .. MaxEpochs
               PROVE  reads'[e] <= IF e >= sent THEN mLatestRenderFrameId + 1
                                   ELSE mLatestRenderFrameId
    BY <1>1 DEF ReadsAreOld, Drawn
  <2>1. reads[e] <= mLatestRenderFrameId
    BY <1>1 DEF ReleaseInv, ReadsAreOld, Drawn
  <2>2. reads'[e] = IF e = sent THEN mLatestRenderFrameId + 1 ELSE reads[e]
    BY <1>1 DEF TypeOK
  <2> QED BY <2>1, <2>2, Numbers
<1>5. UpdatesCoverReads'
  <2> SUFFICES ASSUME NEW i \in 1 .. Len(updates), NEW e \in 1 .. MaxEpochs,
                      e < updates[i].epoch
               PROVE  reads'[e] <= updates[i].id
    BY <1>1 DEF UpdatesCoverReads
  <2>1. updates[i].epoch <= applied /\ applied <= sent
    BY DEF ReleaseInv, EpochsInOrder
  <2>2. e < sent
    BY <2>1, Numbers
  <2>3. reads[e] <= updates[i].id
    BY DEF ReleaseInv, UpdatesCoverReads
  <2> QED BY <1>2, <2>2, <2>3
<1>6. CompletedIsDone'
  <2>1. \A e \in 1 .. MaxEpochs : e < released => e < sent
    BY DEF ReleaseInv, EpochsInOrder, TypeOK
  <2> QED BY <1>1, <1>2, <2>1 DEF ReleaseInv, CompletedIsDone
<1> QED BY <1>3, <1>4, <1>5, <1>6 DEF ReleaseInv

(* The manager gives back what a completed frame was reported to replace.   *)
LEMMA NotifyRelease ==
  ASSUME TypeOK, TypeOK', ReleaseInv, NotifyPipelinesUpdated
  PROVE  ReleaseInv'
<1> DEFINE new == [id |-> mLatestRenderFrameId, epoch |-> mLastPipelineInfo]
           all == Append(updates, new)
<1>1. /\ UNCHANGED <<platform, gpuDone, sent, applied, flushed, reads,
                    mLastPipelineInfo, mLatestRenderFrameId,
                    mLastCompletedFrameId>>
      /\ framePc = "report" /\ framePc' = "idle"
  BY DEF NotifyPipelinesUpdated, worldVars, wrVars, queryVars
<1>2. /\ all \in Seq(Updates)
      /\ \A i \in 1 .. Len(all) :
           (i \in 1 .. Len(updates) /\ all[i] = updates[i]) \/ all[i] = new
      /\ \A i \in 1 .. Len(updates') :
           \E j \in 1 .. Len(all) : updates'[i] = all[j]
      /\ \/ released' = released
         \/ \E j \in 1 .. Len(all) : /\ released' = all[j].epoch
                                    /\ all[j].id <= GetLastCompletedFrameId
  BY NotifyShape DEF ReleaseInv
<1>3. new.id = mLatestRenderFrameId /\ new.epoch = mLastPipelineInfo
  OBVIOUS
<1> HIDE DEF new, all
<1>4. ASSUME NEW j \in 1 .. Len(all)
      PROVE  /\ all[j].id \in Nat /\ all[j].epoch \in Nat
             /\ all[j].epoch <= applied
             /\ \A e \in 1 .. MaxEpochs :
                  e < all[j].epoch => reads[e] <= all[j].id
  <2>1. all[j] \in Updates
    BY <1>2, ElementOfSeq
  <2>2. CASE all[j] = new
    <3>1. \A e \in 1 .. MaxEpochs : reads[e] <= mLatestRenderFrameId
      BY <1>1 DEF ReleaseInv, ReadsAreOld, Drawn
    <3> QED BY <1>3, <2>1, <2>2, <3>1 DEF ReleaseInv, EpochsInOrder, Updates
  <2>3. CASE all[j] # new
    <3>1. j \in 1 .. Len(updates) /\ all[j] = updates[j]
      BY <1>2, <2>3
    <3> QED BY <2>1, <3>1
            DEF ReleaseInv, EpochsInOrder, UpdatesCoverReads, Updates
  <2> QED BY <2>2, <2>3
<1>5. EpochsInOrder'
  BY <1>1, <1>2, <1>4 DEF ReleaseInv, EpochsInOrder
<1>6. ReadsAreOld'
  BY <1>1 DEF ReleaseInv, ReadsAreOld, Drawn
<1>7. UpdatesCoverReads'
  <2> SUFFICES ASSUME NEW i \in 1 .. Len(updates'), NEW e \in 1 .. MaxEpochs,
                      e < updates'[i].epoch
               PROVE  reads[e] <= updates'[i].id
    BY <1>1 DEF UpdatesCoverReads
  <2>1. PICK j \in 1 .. Len(all) : updates'[i] = all[j]
    BY <1>2
  <2> QED BY <1>4, <2>1
<1>8. CompletedIsDone'
  <2> SUFFICES ASSUME platform = "windows", NEW e \in 1 .. MaxEpochs,
                      e < released'
               PROVE  reads[e] <= gpuDone
    BY <1>1 DEF ReleaseInv, CompletedIsDone
  <2>1. mLastCompletedFrameId <= gpuDone
    BY DEF ReleaseInv, CompletedIsDone
  <2>2. CASE released' = released
    BY <2>2 DEF ReleaseInv, CompletedIsDone
  <2>3. CASE released' # released
    <3>1. PICK j \in 1 .. Len(all) : /\ released' = all[j].epoch
                                    /\ all[j].id <= mLastCompletedFrameId
      BY <1>2, <2>3 DEF GetLastCompletedFrameId, UsesQueries
    <3>2. reads[e] <= all[j].id /\ all[j].id \in Nat
      BY <1>4, <3>1
    <3>3. /\ reads[e] \in Nat /\ mLastCompletedFrameId \in Nat
          /\ gpuDone \in Nat
      BY Numbers
    <3> HIDE DEF all
    <3> QED BY <2>1, <3>1, <3>2, <3>3
  <2> QED BY <2>2, <2>3
<1> QED BY <1>5, <1>6, <1>7, <1>8 DEF ReleaseInv

(* Every step keeps what is read from being given back.                     *)
LEMMA NextRelease ==
  TypeOK /\ TypeOK' /\ ReleaseInv /\ [Next]_vars => ReleaseInv'
<1> SUFFICES ASSUME TypeOK, TypeOK', ReleaseInv, [Next]_vars
             PROVE  ReleaseInv'
  OBVIOUS
<1>0. /\ Latest + 1 \in Nat /\ sent <= sent /\ gpuDone <= gpuDone
      /\ platform = "windows" => mLastCompletedFrameId <= gpuDone
  BY DEF TypeOK, Latest, ReleaseInv, CompletedIsDone
<1>1. ASSUME NEW a \in BOOLEAN, NEW b \in BOOLEAN, BeginFrame(a, b)
      PROVE  ReleaseInv'
  BY <1>0, <1>1, ReleaseKept DEF BeginFrame, Drawn, wrVars, managerVars,
     worldVars, queryVars
<1>2. ASSUME NEW a \in BOOLEAN, NEW b \in BOOLEAN, NEW c \in BOOLEAN,
             EndFrameANGLE(a, b, c)
      PROVE  ReleaseInv'
  <2>1. mLastCompletedFrameId' = mLastCompletedFrameId
    BY <1>0, <1>2, InsertType DEF EndFrameANGLE
  <2> QED BY <1>0, <1>2, <2>1, ReleaseKept DEF EndFrameANGLE,
             GetNextRenderFrameId, Latest, wrVars, managerVars, worldVars
<1>3. ASSUME NEW a \in BOOLEAN, NEW b \in BOOLEAN, Resume(a, b)
      PROVE  ReleaseInv'
  BY <1>0, <1>3, ReleaseKept DEF Resume, Drawn, frameVars, wrVars,
     managerVars, worldVars, queryVars
<1>4. ASSUME NEW a \in BOOLEAN, EndFrameGL(a)
      PROVE  ReleaseInv'
  BY <1>0, <1>4, ReleaseKept DEF EndFrameGL, GetNextRenderFrameId, Latest,
     wrVars, managerVars, worldVars, queryVars
<1>5. ASSUME NEW a \in BOOLEAN, UpdateFrameId(a)
      PROVE  ReleaseInv'
  <2>1. mLastCompletedFrameId' = mLastCompletedFrameId
    BY <1>0, <1>5, InsertType DEF UpdateFrameId
  <2> QED BY <1>0, <1>5, <2>1, ReleaseKept DEF UpdateFrameId,
             GetNextRenderFrameId, Latest, wrVars, managerVars, worldVars
<1>6. CASE EndFrameWithoutBuffer \/ WaitOver \/ Pause \/ UNCHANGED vars
  BY <1>0, <1>6, ReleaseKept DEF EndFrameWithoutBuffer, WaitOver, Pause, vars,
     Drawn, frameVars, wrVars, managerVars, worldVars, queryVars
<1>7. CASE Wait
  <2>1. mWaitForPresentQueries # <<>>
    <3>1. Len(mWaitForPresentQueries) >= WaitLatency
      BY <1>7 DEF Wait, MoreToWaitFor
    <3>2. WaitLatency \in 1 .. 3
      BY DEF WaitLatency
    <3>3. Len(mWaitForPresentQueries) # 0
      BY <3>1, <3>2
    <3> QED BY <3>3, EmptySeq
  <2>2. platform = "windows" => mLastCompletedFrameId' <= gpuDone
    BY <1>0, <1>7, <2>1, PopFinishedType
    DEF Wait, WaitFails, CompletedAfterFailure
  <2> QED BY <1>0, <1>7, <2>2, ReleaseKept DEF Wait, Drawn, wrVars,
             managerVars, worldVars
<1>8. CASE Poll
  BY <1>0, <1>8, PopFinishedType, ReleaseKept DEF Poll, Drawn, frameVars,
     wrVars, managerVars, worldVars
<1>9. CASE World
  <2>1. /\ sent <= sent' /\ gpuDone <= gpuDone' /\ UNCHANGED platform
        /\ platform = "windows" => mLastCompletedFrameId <= gpuDone'
    BY <1>0, <1>9 DEF World, GpuRuns, DeviceLost, SendEpoch, WindowResized,
       worldVars, TypeOK
  <2> QED BY <1>0, <1>9, <2>1, ReleaseKept DEF World, Drawn, frameVars,
             managerVars, queryVars
<1> QED BY <1>1, <1>2, <1>3, <1>4, <1>5, <1>6, <1>7, <1>8, <1>9,
           SkipRelease, DrawRelease, NotifyRelease DEF Next

-----------------------------------------------------------------------------
(* No part is presented of what was not drawn                               *)

WholeInv == WholeOrFull /\ PartsOnWindowsOnly

(* A step outside the drawing.                                              *)
LEMMA WholeKept ==
  ASSUME WholeInv, clientSize' # 0,
         UNCHANGED <<platform, mUseNativeCompositor, mUsePartialPresent, whole,
                     mFullRender, mBufferSize, drawnOnce>>,
         \/ framePc' = framePc
         \/ /\ framePc # "endAll"
            /\ framePc' \in {"idle", "wait", "waitAll", "report", "noId"}
  PROVE  WholeInv'
  BY DEF WholeInv, WholeOrFull, PartsOnWindowsOnly

(* New buffers come with a full frame.                                      *)
LEMMA BeginWhole ==
  ASSUME WholeInv, NEW a \in BOOLEAN, NEW b \in BOOLEAN, BeginFrame(a, b)
  PROVE  WholeInv'
<1>1. /\ framePc = "idle" /\ framePc' = IF a /\ b THEN "render" ELSE "noId"
      /\ UNCHANGED <<platform, clientSize, drawnOnce>> /\ clientSize # 0
  BY DEF BeginFrame, worldVars, wrVars, WholeInv, PartsOnWindowsOnly
<1>2. UNCHANGED <<mUseNativeCompositor, mUsePartialPresent>>
  BY DEF BeginFrame, ResizeBufferIfNeeded, angleVars
<1>3. CASE platform = "windows" /\ ~mUseNativeCompositor
  <2>1. ResizeBufferIfNeeded(a)
    BY <1>3 DEF BeginFrame, UseCompositor
  <2>2. CASE NeedsResize
    <3>1. /\ mBufferSize' = IF a THEN clientSize ELSE 0
          /\ mFullRender' = IF a THEN mFullRender \/ mUsePartialPresent
                                 ELSE mFullRender
      BY <2>1, <2>2 DEF ResizeBufferIfNeeded, FullAfterResize
    <3> QED BY <1>1, <1>2, <1>3, <3>1
            DEF WholeInv, WholeOrFull, PartsOnWindowsOnly
  <2>3. CASE ~NeedsResize
    <3>1. mBufferSize = clientSize /\ UNCHANGED <<mBufferSize, mFullRender, whole>>
      BY <2>1, <2>3 DEF ResizeBufferIfNeeded, NeedsResize, angleVars
    <3> QED BY <1>1, <1>2, <3>1 DEF WholeInv, WholeOrFull, PartsOnWindowsOnly
  <2> QED BY <2>2, <2>3
<1>4. CASE ~(platform = "windows" /\ ~mUseNativeCompositor)
  <2>1. UNCHANGED <<mBufferSize, mFullRender, whole>>
    BY <1>4 DEF BeginFrame, UseCompositor, angleVars
  <2> QED BY <1>1, <1>2, <1>4, <2>1
          DEF WholeInv, WholeOrFull, PartsOnWindowsOnly
<1> QED BY <1>3, <1>4

(* A part is drawn only when no full frame is asked for.                    *)
LEMMA DrawWhole ==
  ASSUME WholeInv, NEW a \in BOOLEAN, NEW b \in BOOLEAN, Draw(a, b)
  PROVE  WholeInv'
<1>1. /\ framePc = "render" /\ UNCHANGED <<platform, clientSize>>
      /\ framePc' = IF ~a THEN "noId"
                    ELSE IF DrawsAll(b) THEN "endAll" ELSE "endPart"
      /\ drawnOnce' = (drawnOnce \/ a) /\ UNCHANGED mUsePartialPresent
  BY DEF Draw, DisableNative, worldVars, angleVars
<1>2. CASE platform = "windows" /\ mUsePartialPresent
  <2>1. ~mUseNativeCompositor
    BY <1>2 DEF WholeInv, WholeOrFull
  <2>2. UNCHANGED <<mUseNativeCompositor, mBufferSize, mFullRender, whole>>
    BY <2>1 DEF Draw, DisableNative, UseCompositor, angleVars
  <2>3. DrawsAll(b) \/ (~mFullRender /\ drawnOnce)
    BY DEF DrawsAll, RequestFullRender
  <2> QED BY <1>1, <1>2, <2>1, <2>2, <2>3
          DEF WholeInv, WholeOrFull, PartsOnWindowsOnly
<1>3. CASE ~(platform = "windows" /\ mUsePartialPresent)
  <2>1. ~mUsePartialPresent
    BY <1>3 DEF WholeInv, PartsOnWindowsOnly
  <2>2. framePc' # "endPart"
    BY <1>1, <2>1 DEF DrawsAll
  <2> QED BY <1>1, <2>1, <2>2 DEF WholeInv, WholeOrFull, PartsOnWindowsOnly
<1> QED BY <1>2, <1>3

(* A lost Present1 asks for a full frame.                                   *)
LEMMA EndWhole ==
  ASSUME WholeInv, NEW a \in BOOLEAN, NEW b \in BOOLEAN, NEW c \in BOOLEAN,
         EndFrameANGLE(a, b, c)
  PROVE  WholeInv'
<1>1. /\ framePc \in {"endAll", "endPart"} /\ framePc' \in {"wait", "waitAll"}
      /\ framePc = "endAll" => b
      /\ UNCHANGED <<platform, clientSize, drawnOnce, mUseNativeCompositor,
                    mUsePartialPresent, mBufferSize>>
  BY DEF EndFrameANGLE, worldVars, wrVars
<1>2. CASE platform = "windows" /\ mUsePartialPresent
  <2>1. ~mUseNativeCompositor /\ (framePc = "endPart" => whole)
    BY <1>2 DEF WholeInv, WholeOrFull
  <2>2. /\ mFullRender' = IF mSwapChain = "flip" THEN b /\ c ELSE mFullRender
        /\ whole' = IF mSwapChain = "flip" /\ b /\ c THEN FALSE
                    ELSE whole \/ framePc = "endAll"
    BY <1>2, <2>1 DEF EndFrameANGLE, Present, FullAfterPresent, UseCompositor
  <2> QED BY <1>1, <1>2, <2>1, <2>2
          DEF WholeInv, WholeOrFull, PartsOnWindowsOnly
<1>3. CASE ~(platform = "windows" /\ mUsePartialPresent)
  BY <1>1, <1>3 DEF WholeInv, WholeOrFull, PartsOnWindowsOnly
<1> QED BY <1>2, <1>3

(* Every step presents only what was drawn.                                 *)
LEMMA NextWhole == WholeInv /\ [Next]_vars => WholeInv'
<1> SUFFICES ASSUME WholeInv, [Next]_vars PROVE WholeInv'
  OBVIOUS
<1>0. clientSize # 0
  BY DEF WholeInv, PartsOnWindowsOnly
<1>1. ASSUME NEW a \in BOOLEAN, NEW b \in BOOLEAN, SkipFrame(a, b)
      PROVE  WholeInv'
  BY <1>0, <1>1, WholeKept DEF SkipFrame, angleVars, worldVars, wrVars
<1>2. ASSUME NEW a \in BOOLEAN, NEW b \in BOOLEAN, Resume(a, b)
      PROVE  WholeInv'
  BY <1>0, <1>2, WholeKept DEF Resume, angleVars, worldVars, wrVars, frameVars
<1>3. ASSUME NEW a \in BOOLEAN, EndFrameGL(a)
      PROVE  WholeInv'
  BY <1>0, <1>3 DEF EndFrameGL, angleVars, worldVars, wrVars, WholeInv,
     WholeOrFull, PartsOnWindowsOnly
<1>4. ASSUME NEW a \in BOOLEAN, UpdateFrameId(a)
      PROVE  WholeInv'
  BY <1>0, <1>4, WholeKept DEF UpdateFrameId, angleVars, worldVars, wrVars
<1>5. CASE EndFrameWithoutBuffer
  BY <1>0, <1>5 DEF EndFrameWithoutBuffer, angleVars, worldVars, wrVars,
     WholeInv, WholeOrFull, PartsOnWindowsOnly
<1>6. CASE Wait \/ WaitOver
  BY <1>0, <1>6, WholeKept DEF Wait, WaitOver, worldVars, wrVars
<1>7. CASE Poll \/ NotifyPipelinesUpdated \/ Pause \/ UNCHANGED vars
  BY <1>0, <1>7, WholeKept DEF Poll, NotifyPipelinesUpdated, Pause, vars,
     angleVars, worldVars, wrVars, frameVars
<1>8. CASE World
  <2>1. clientSize' # 0 /\ UNCHANGED platform
    BY <1>0, <1>8, FramesAssumption DEF World, GpuRuns, DeviceLost, SendEpoch,
       WindowResized, worldVars
  <2> QED BY <1>8, <2>1, WholeKept DEF World, angleVars, frameVars
<1> QED BY <1>1, <1>2, <1>3, <1>4, <1>5, <1>6, <1>7, <1>8, BeginWhole,
           DrawWhole, EndWhole DEF Next

-----------------------------------------------------------------------------
(* Queries, fences, surfaces and reports                                    *)

(* What leaves the queries alone, and takes no frame id back.               *)
LEMMA QueriesUnchanged ==
  ASSUME TypeOK, QueriesInv, UNCHANGED queryVars,
         mLatestRenderFrameId' \in Nat,
         mLatestRenderFrameId <= mLatestRenderFrameId'
  PROVE  QueriesInv'
<1>1. \A i \in 1 .. Len(mWaitForPresentQueries) :
        mWaitForPresentQueries[i].query \in 1 .. mLatestRenderFrameId'
  BY DEF QueriesInv, TypeOK
<1> QED BY <1>1 DEF QueriesInv, TypeOK, queryVars

(* A frame that gets its id, and its query if one can be had.               *)
LEMMA InsertQueries ==
  ASSUME TypeOK, QueriesInv, NEW made, GetNextRenderFrameId,
         InsertGraphicsCommandsFinishedWaitQuery(Latest + 1, made)
  PROVE  QueriesInv'
<1> DEFINE q   == mWaitForPresentQueries
           n   == mLatestRenderFrameId + 1
           new == [id |-> n, query |-> GetD3D11Query(n)]
<1>1. mLatestRenderFrameId' = n /\ n \in Nat /\ mLatestRenderFrameId \in Nat
  BY DEF GetNextRenderFrameId, Latest, TypeOK
<1>2. CASE UNCHANGED queryVars
  BY <1>1, <1>2, QueriesUnchanged
<1>3. CASE ~UNCHANGED queryVars
  <2>1. q' = Append(q, new) /\ mRecycledQuery' = 0
    BY <1>3 DEF InsertGraphicsCommandsFinishedWaitQuery, RecycledAfterGet,
       NoQuery, Latest
  <2>2. /\ new.query \in 1 .. n
        /\ \A i \in 1 .. Len(q) : q[i].query # new.query
    <3>1. new.query = GetD3D11Query(n)
      OBVIOUS
    <3>2. \A i \in 1 .. Len(q) :
            /\ q[i].query \in 1 .. mLatestRenderFrameId
            /\ q[i].query # mRecycledQuery
      BY DEF QueriesInv
    <3> HIDE DEF new
    <3> QED BY <1>1, <3>1, <3>2
            DEF GetD3D11Query, NoQuery, QueriesInv, TypeOK
  <2>3. /\ Len(q) \in Nat /\ Len(q') = Len(q) + 1
        /\ \A i \in 1 .. Len(q) : q'[i] = q[i]
        /\ q'[Len(q) + 1] = new
    <3>1. q \in Seq(Ids) /\ new \in Ids
      BY <1>1 DEF TypeOK, Ids, GetD3D11Query
    <3> HIDE DEF new
    <3> QED BY <2>1, <3>1, AppendProperties, LenProperties
  <2> HIDE DEF new
  <2>4. ASSUME NEW i \in 1 .. Len(q')
        PROVE  /\ q'[i].query \in 1 .. n
               /\ \A j \in 1 .. Len(q') : q'[i].query = q'[j].query => i = j
    <3>1. \A k \in 1 .. Len(q') : k = Len(q) + 1 \/ k \in 1 .. Len(q)
      BY <2>3
    <3>2. \A k \in 1 .. Len(q) :
            /\ q[k].query \in 1 .. mLatestRenderFrameId
            /\ \A j \in 1 .. Len(q) : q[k].query = q[j].query => k = j
      BY DEF QueriesInv
    <3>3. n = mLatestRenderFrameId + 1 /\ mLatestRenderFrameId \in Nat
      BY <1>1
    <3>4. CASE i = Len(q) + 1
      <4>1. q'[i] = new
        BY <2>3, <3>4
      <4>2. \A j \in 1 .. Len(q') : q'[i].query = q'[j].query => i = j
        BY <2>2, <2>3, <3>1, <3>4, <4>1
      <4> QED BY <2>2, <4>1, <4>2
    <3>5. CASE i \in 1 .. Len(q)
      <4>1. q'[i] = q[i] /\ q[i].query \in 1 .. n
        BY <2>3, <3>2, <3>3, <3>5
      <4>2. ASSUME NEW j \in 1 .. Len(q'), q'[i].query = q'[j].query
            PROVE  i = j
        <5>1. CASE j = Len(q) + 1
          <6>1. q'[j] = new
            BY <2>3, <5>1
          <6> QED BY <2>2, <3>5, <4>1, <4>2, <6>1
        <5>2. CASE j \in 1 .. Len(q)
          <6>1. q'[j] = q[j]
            BY <2>3, <5>2
          <6> QED BY <3>2, <3>5, <4>1, <4>2, <5>2, <6>1
        <5> QED BY <3>1, <5>1, <5>2
      <4> QED BY <4>1, <4>2
    <3> QED BY <3>1, <3>4, <3>5
  <2>5. \A i \in 1 .. Len(q') : q'[i].query # 0
    BY <2>4
  <2> QED BY <1>1, <2>1, <2>4, <2>5 DEF QueriesInv
<1> QED BY <1>2, <1>3

(* A query that is waited for is kept for reuse, or dropped when that fails.*)
LEMMA TakeQueries ==
  ASSUME TypeOK, QueriesInv, mWaitForPresentQueries # <<>>,
         PopFinished \/ WaitFails, UNCHANGED mLatestRenderFrameId
  PROVE  QueriesInv'
<1> DEFINE q == mWaitForPresentQueries
<1>1. q' = Tail(q)
  BY DEF PopFinished, WaitFails
<1>2. /\ Len(q) \in Nat /\ Len(q) > 0 /\ Len(q') = Len(q) - 1
      /\ \A i \in 1 .. Len(q') : i + 1 \in 1 .. Len(q) /\ q'[i] = q[i + 1]
      /\ Head(q) = q[1] /\ 1 \in 1 .. Len(q)
  BY <1>1, HeadTailProperties, EmptySeq, LenProperties DEF TypeOK
<1>3. mRecycledQuery' = q[1].query \/ mRecycledQuery' = mRecycledQuery
  BY <1>2 DEF PopFinished, WaitFails
<1>4. ASSUME NEW i \in 1 .. Len(q')
      PROVE  /\ q'[i].query \in 1 .. mLatestRenderFrameId
             /\ q'[i].query # mRecycledQuery'
             /\ \A j \in 1 .. Len(q') : q'[i].query = q'[j].query => i = j
  <2>1. \A k \in 1 .. Len(q) :
          /\ q[k].query \in 1 .. mLatestRenderFrameId
          /\ q[k].query # mRecycledQuery
          /\ \A j \in 1 .. Len(q) : q[k].query = q[j].query => k = j
    BY DEF QueriesInv
  <2>2. i + 1 # 1
    BY <1>2
  <2>3. ASSUME NEW j \in 1 .. Len(q'), q'[i].query = q'[j].query
        PROVE  i = j
    <3>1. i + 1 = j + 1
      BY <1>2, <2>1, <2>3
    <3> QED BY <1>2, <3>1
  <2>4. /\ q'[i] = q[i + 1] /\ i + 1 \in 1 .. Len(q) /\ 1 \in 1 .. Len(q)
    BY <1>2
  <2>5. /\ q'[i].query \in 1 .. mLatestRenderFrameId
        /\ q'[i].query # mRecycledQuery
    BY <2>1, <2>4
  <2>6. q'[i].query # q[1].query
    BY <2>1, <2>2, <2>4
  <2> QED BY <1>3, <2>3, <2>5, <2>6
<1>5. mRecycledQuery' <= mLatestRenderFrameId
  BY <1>2, <1>3 DEF QueriesInv, TypeOK
<1> QED BY <1>4, <1>5 DEF QueriesInv

(* Every step keeps the queries distinct.                                   *)
LEMMA NextQueries == TypeOK /\ QueriesInv /\ [Next]_vars => QueriesInv'
<1> SUFFICES ASSUME TypeOK, QueriesInv, [Next]_vars PROVE QueriesInv'
  OBVIOUS
<1>0. /\ mLatestRenderFrameId \in Nat /\ mLatestRenderFrameId + 1 \in Nat
      /\ mLatestRenderFrameId <= mLatestRenderFrameId
      /\ mLatestRenderFrameId <= mLatestRenderFrameId + 1
  BY DEF TypeOK
<1>1. ASSUME NEW a \in BOOLEAN, NEW b \in BOOLEAN, NEW c \in BOOLEAN,
             \/ SkipFrame(a, b) \/ EndFrameANGLE(a, b, c) \/ UpdateFrameId(a)
      PROVE  QueriesInv'
  BY <1>1, InsertQueries DEF SkipFrame, EndFrameANGLE, UpdateFrameId
<1>2. ASSUME NEW a \in BOOLEAN, NEW b \in BOOLEAN,
             BeginFrame(a, b) \/ Draw(a, b) \/ Resume(a, b)
      PROVE  QueriesInv'
  BY <1>0, <1>2, QueriesUnchanged DEF BeginFrame, Draw, Resume
<1>3. ASSUME NEW a \in BOOLEAN, EndFrameGL(a) PROVE QueriesInv'
  BY <1>0, <1>3, QueriesUnchanged DEF EndFrameGL, GetNextRenderFrameId, Latest
<1>4. CASE \/ EndFrameWithoutBuffer \/ WaitOver \/ NotifyPipelinesUpdated
           \/ Pause \/ World \/ UNCHANGED vars
  BY <1>0, <1>4, QueriesUnchanged DEF EndFrameWithoutBuffer, WaitOver,
     NotifyPipelinesUpdated, Pause, World, vars
<1>5. CASE Wait
  <2>1. mWaitForPresentQueries # <<>>
    BY <1>5, EmptySeq DEF Wait, MoreToWaitFor, WaitLatency, TypeOK
  <2> QED BY <1>5, <2>1, TakeQueries DEF Wait
<1>6. CASE Poll
  BY <1>6, TakeQueries DEF Poll
<1> QED BY <1>1, <1>2, <1>3, <1>4, <1>5, <1>6 DEF Next

(* A fence that is taken with its frame.                                    *)
LEMMA NextFences == TypeOK /\ FencesInv /\ [Next]_vars => FencesInv'
<1> SUFFICES ASSUME TypeOK, FencesInv, [Next]_vars PROVE FencesInv'
  OBVIOUS
<1> USE DEF FencesInv, FencesAreFresh
<1>1. ASSUME NEW a \in BOOLEAN, NEW b \in BOOLEAN, NEW c \in BOOLEAN,
             \/ SkipFrame(a, b) \/ BeginFrame(a, b) \/ Draw(a, b)
             \/ UpdateFrameId(a)
      PROVE  FencesInv'
  BY <1>1 DEF SkipFrame, BeginFrame, Draw, UpdateFrameId, eglVars, managerVars,
     worldVars
<1>2. ASSUME NEW a \in BOOLEAN, NEW b \in BOOLEAN, NEW c \in BOOLEAN,
             EndFrameANGLE(a, b, c)
      PROVE  FencesInv'
  BY <1>2 DEF EndFrameANGLE, eglVars, managerVars, worldVars
<1>3. ASSUME NEW a \in BOOLEAN, NEW b \in BOOLEAN, Resume(a, b)
      PROVE  FencesInv'
  BY <1>3 DEF Resume, managerVars, worldVars, frameVars
<1>4. ASSUME NEW a \in BOOLEAN, EndFrameGL(a) PROVE FencesInv'
  BY <1>4 DEF EndFrameGL, GetNextRenderFrameId, Latest, managerVars, worldVars
<1>5. CASE EndFrameWithoutBuffer \/ Poll \/ Pause \/ UNCHANGED vars
  BY <1>5 DEF EndFrameWithoutBuffer, Poll, Pause, vars, eglVars, managerVars,
     worldVars, frameVars
<1>6. CASE Wait
  BY <1>6 DEF Wait, UsesQueries, eglVars, managerVars, worldVars
<1>7. CASE WaitOver
  BY <1>7 DEF WaitOver, FenceAfterGet, managerVars, worldVars
<1>8. CASE NotifyPipelinesUpdated
  <2>1. /\ framePc = "report" /\ framePc' = "idle" /\ fence' = 0
        /\ UNCHANGED <<platform, mReleaseFenceFd, mLatestRenderFrameId>>
        /\ handedOver' = IF fence = 0 THEN handedOver
                         ELSE <<mLatestRenderFrameId, fence>>
    BY <1>8 DEF NotifyPipelinesUpdated, eglVars, worldVars, Latest
  <2> QED BY <2>1
<1>9. CASE World
  BY <1>9 DEF World, GpuRuns, DeviceLost, SendEpoch, WindowResized, eglVars,
     managerVars, worldVars, frameVars
<1> QED BY <1>1, <1>2, <1>3, <1>4, <1>5, <1>6, <1>7, <1>8, <1>9 DEF Next

(* Errors are added only, and surfaces are made again when the window is    *)
(* resumed.                                                                 *)
LEMMA NextSurfaces == SurfacesInv /\ [Next]_vars => SurfacesInv'
<1> SUFFICES ASSUME SurfacesInv, [Next]_vars PROVE SurfacesInv'
  OBVIOUS
<1>1. ASSUME UNCHANGED <<platform, mHandlingNewSurfaceError, surfaceFailures>>,
             errors \subseteq errors'
      PROVE  SurfacesInv'
  BY <1>1 DEF SurfacesInv, SurfaceErrorsAreRaised
<1>2. ASSUME NEW a \in BOOLEAN, NEW b \in BOOLEAN, Resume(a, b)
      PROVE  SurfacesInv'
  <2>1. /\ UNCHANGED platform /\ platform \in {"android", "linux"}
        /\ a => platform = "android" /\ ~b
        /\ errors' = IF b \/ a \/ ~RaisesError THEN errors
                     ELSE errors \cup {"NEW_SURFACE"}
        /\ mHandlingNewSurfaceError' =
             IF a \/ platform = "linux" THEN mHandlingNewSurfaceError ELSE ~b
        /\ surfaceFailures' =
             IF b THEN 0
             ELSE IF a \/ surfaceFailures = 2 THEN surfaceFailures
             ELSE surfaceFailures + 1
    BY <1>2 DEF Resume, worldVars
  <2>2. CASE b
    BY <2>1, <2>2 DEF SurfacesInv, SurfaceErrorsAreRaised
  <2>3. CASE a
    BY <1>1, <2>1, <2>3
  <2>4. CASE ~a /\ ~b
    <3>1. surfaceFailures' > 0 => platform = "linux" \/ mHandlingNewSurfaceError'
      BY <2>1, <2>4
    <3>2. surfaceFailures' \in 0 .. 2 /\ (surfaceFailures' = 2 => surfaceFailures > 0)
      BY <2>1, <2>4 DEF SurfacesInv
    <3>3. surfaceFailures' = 2 => "NEW_SURFACE" \in errors'
      BY <2>1, <2>4, <3>2 DEF RaisesError, SurfacesInv
    <3> QED BY <2>1, <3>1, <3>2, <3>3 DEF SurfacesInv, SurfaceErrorsAreRaised
  <2> QED BY <2>2, <2>3, <2>4
<1>3. ASSUME NEW a \in BOOLEAN, NEW b \in BOOLEAN, NEW c \in BOOLEAN,
             \/ SkipFrame(a, b) \/ BeginFrame(a, b) \/ EndFrameANGLE(a, b, c)
             \/ EndFrameGL(a) \/ UpdateFrameId(a)
      PROVE  SurfacesInv'
  BY <1>1, <1>3 DEF SkipFrame, BeginFrame, EndFrameANGLE, EndFrameGL,
     UpdateFrameId, eglVars, worldVars, resetVars
<1>4. ASSUME NEW a \in BOOLEAN, NEW b \in BOOLEAN, Draw(a, b)
      PROVE  SurfacesInv'
  <2>1. errors \subseteq errors'
    BY <1>4 DEF Draw, DisableNative
  <2> QED BY <1>1, <1>4, <2>1 DEF Draw, eglVars, worldVars
<1>5. CASE \/ EndFrameWithoutBuffer \/ Poll \/ Pause \/ UNCHANGED vars
           \/ Wait \/ WaitOver \/ NotifyPipelinesUpdated
  BY <1>1, <1>5 DEF EndFrameWithoutBuffer, Poll, Pause, vars, Wait, WaitOver,
     NotifyPipelinesUpdated, eglVars, worldVars, resetVars
<1>6. CASE World
  BY <1>1, <1>6 DEF World, GpuRuns, DeviceLost, SendEpoch, WindowResized,
     eglVars, worldVars, resetVars
<1> QED BY <1>2, <1>3, <1>4, <1>5, <1>6 DEF Next

(* What does not end a frame on macOS.                                      *)
LEMMA DrawnUnchanged ==
  ASSUME TypeOK, TypeOK', DrawnInv, gpuDone <= gpuDone', UNCHANGED platform,
         platform = "mac" =>
           /\ UNCHANGED <<lastDrawn, mPreviousFrameDoneSync, mThisFrameDoneSync>>
           /\ framePc = "wait" <=> framePc' = "wait"
  PROVE  DrawnInv'
<1> SUFFICES ASSUME platform = "mac" PROVE DrawnInv'
  BY DEF DrawnInv
<1>1. lastDrawn[1] \in Nat /\ gpuDone \in Nat /\ gpuDone' \in Nat
  BY DEF DrawnInv, TypeOK
<1> QED BY <1>1 DEF DrawnInv

(* Every step keeps what the render thread waits for on macOS.              *)
LEMMA NextDrawn ==
  TypeOK /\ TypeOK' /\ FencesInv /\ DrawnInv /\ [Next]_vars => DrawnInv'
<1> SUFFICES ASSUME TypeOK, TypeOK', FencesInv, DrawnInv, [Next]_vars
             PROVE  DrawnInv'
  OBVIOUS
<1>0. gpuDone <= gpuDone /\ mLatestRenderFrameId + 1 \in Nat
  BY DEF TypeOK
<1>1. ASSUME NEW a \in BOOLEAN, NEW b \in BOOLEAN, NEW c \in BOOLEAN,
             \/ SkipFrame(a, b) \/ BeginFrame(a, b) \/ Draw(a, b)
             \/ UpdateFrameId(a)
      PROVE  DrawnInv'
  BY <1>0, <1>1, DrawnUnchanged DEF SkipFrame, BeginFrame, Draw, UpdateFrameId,
     eglVars, worldVars
<1>2. ASSUME NEW a \in BOOLEAN, NEW b \in BOOLEAN, NEW c \in BOOLEAN,
             EndFrameANGLE(a, b, c)
      PROVE  DrawnInv'
  BY <1>0, <1>2, DrawnUnchanged DEF EndFrameANGLE, eglVars, worldVars
<1>3. ASSUME NEW a \in BOOLEAN, NEW b \in BOOLEAN, Resume(a, b)
      PROVE  DrawnInv'
  BY <1>0, <1>3, DrawnUnchanged DEF Resume, syncVars, worldVars, frameVars
<1>4. ASSUME NEW a \in BOOLEAN, EndFrameGL(a) PROVE DrawnInv'
  <2> SUFFICES ASSUME platform' = "mac" PROVE DrawnInv'
    BY DEF DrawnInv
  <2>1. /\ platform = "mac" /\ framePc # "wait" /\ framePc' = "wait"
        /\ mThisFrameDoneSync' = mLatestRenderFrameId + 1
        /\ lastDrawn' = <<lastDrawn[2], mLatestRenderFrameId + 1>>
        /\ UNCHANGED mPreviousFrameDoneSync
    BY <1>4 DEF EndFrameGL, worldVars, Latest
  <2> QED BY <1>0, <2>1 DEF DrawnInv
<1>5. CASE EndFrameWithoutBuffer \/ Poll \/ Pause \/ UNCHANGED vars
  BY <1>0, <1>5, DrawnUnchanged DEF EndFrameWithoutBuffer, Poll, Pause, vars,
     eglVars, syncVars, worldVars, frameVars
<1>6. CASE Wait
  BY <1>0, <1>6, DrawnUnchanged DEF Wait, UsesQueries, worldVars
<1>7. CASE WaitOver
  <2>1. /\ UNCHANGED <<platform, gpuDone, lastDrawn>>
        /\ mPreviousFrameDoneSync <= gpuDone
        /\ mPreviousFrameDoneSync' = mThisFrameDoneSync
        /\ framePc = "wait" => framePc' = "report"
        /\ framePc = "wait" \/ platform = "windows"
    BY <1>7 DEF WaitOver, PreviousAfterWait, FencesInv, worldVars
  <2> QED BY <2>1 DEF DrawnInv
<1>8. CASE NotifyPipelinesUpdated
  BY <1>0, <1>8, DrawnUnchanged DEF NotifyPipelinesUpdated, eglVars, worldVars
<1>9. CASE World
  <2>1. gpuDone <= gpuDone'
    BY <1>0, <1>9 DEF World, GpuRuns, DeviceLost, SendEpoch, WindowResized,
       worldVars, TypeOK
  <2> QED BY <1>9, <2>1, DrawnUnchanged DEF World, GpuRuns, DeviceLost,
             SendEpoch, WindowResized, eglVars, worldVars, frameVars
<1> QED BY <1>1, <1>2, <1>3, <1>4, <1>5, <1>6, <1>7, <1>8, <1>9 DEF Next

(* What takes no display list into use and reports none.                    *)
LEMMA ReportedUnchanged ==
  ASSUME ReportedInv,
         UNCHANGED <<reported, applied, flushed, mLastPipelineInfo>>,
         framePc' \in {"idle", "render"} => framePc \in {"idle", "render"}
  PROVE  ReportedInv'
  BY DEF ReportedInv

(* Every step reports what was taken into use.                              *)
LEMMA NextReported ==
  TypeOK /\ EpochsInOrder /\ ReportedInv /\ [Next]_vars => ReportedInv'
<1> SUFFICES ASSUME TypeOK, EpochsInOrder, ReportedInv, [Next]_vars
             PROVE  ReportedInv'
  OBVIOUS
<1>1. ASSUME framePc \in {"idle", "render"},
             framePc' \notin {"idle", "render"},
             Updated, FlushPipelineInfo(sent), UNCHANGED reported
      PROVE  ReportedInv'
  <2>1. reported = flushed /\ flushed <= sent
    BY <1>1 DEF ReportedInv, EpochsInOrder
  <2> QED BY <1>1, <2>1, Numbers
          DEF ReportedInv, Updated, FlushPipelineInfo
<1>2. ASSUME NEW a \in BOOLEAN, NEW b \in BOOLEAN, SkipFrame(a, b)
      PROVE  ReportedInv'
  <2>1. CASE a
    BY <1>1, <1>2, <2>1 DEF SkipFrame, managerVars
  <2>2. CASE ~a
    BY <1>2, <2>2, ReportedUnchanged DEF SkipFrame, managerVars, wrVars
  <2> QED BY <2>1, <2>2
<1>3. ASSUME NEW a \in BOOLEAN, NEW b \in BOOLEAN, Draw(a, b)
      PROVE  ReportedInv'
  BY <1>1, <1>3 DEF Draw, FlushedByRender, managerVars
<1>4. ASSUME NEW a \in BOOLEAN, NEW b \in BOOLEAN, NEW c \in BOOLEAN,
             \/ BeginFrame(a, b) \/ EndFrameANGLE(a, b, c) \/ Resume(a, b)
             \/ EndFrameGL(a) \/ UpdateFrameId(a)
      PROVE  ReportedInv'
  BY <1>4, ReportedUnchanged DEF BeginFrame, EndFrameANGLE, Resume, EndFrameGL,
     UpdateFrameId, managerVars, wrVars, frameVars
<1>5. CASE \/ EndFrameWithoutBuffer \/ Poll \/ Pause \/ UNCHANGED vars
           \/ Wait \/ WaitOver
  BY <1>5, ReportedUnchanged DEF EndFrameWithoutBuffer, Poll, Pause, vars, Wait,
     WaitOver, managerVars, wrVars, frameVars
<1>6. CASE NotifyPipelinesUpdated
  <2>1. /\ reported' = IF mLastPipelineInfo > reported
                       THEN mLastPipelineInfo ELSE reported
        /\ UNCHANGED <<applied, flushed, mLastPipelineInfo>>
    BY <1>6 DEF NotifyPipelinesUpdated, wrVars
  <2>2. mLastPipelineInfo <= applied
    BY DEF EpochsInOrder
  <2> QED BY <2>1, <2>2, Numbers DEF ReportedInv
<1>7. CASE World
  BY <1>7, ReportedUnchanged DEF World, managerVars, frameVars
<1> QED BY <1>2, <1>3, <1>4, <1>5, <1>6, <1>7 DEF Next

-----------------------------------------------------------------------------
(* The theorems                                                             *)

(* The system starts in the invariant: the two frame ids before the first   *)
(* frame were given to nothing.                                             *)
LEMMA InitIInv == Init => IInv
<1> SUFFICES ASSUME Init PROVE IInv
  OBVIOUS
<1>1. ReleaseInv
  <2>1. Len(updates) = 0 /\ \A e \in 1 .. MaxEpochs : reads[e] = 0
    BY EmptySeq DEF Init
  <2> QED BY <2>1 DEF Init, ReleaseInv, EpochsInOrder, ReadsAreOld, Drawn,
             UpdatesCoverReads, CompletedIsDone
<1>2. WholeOrFull /\ PartsOnWindowsOnly
  <2>1. clientSize \in ClientSizes /\ clientSize # 0
    BY FramesAssumption DEF Init
  <2> QED BY <2>1 DEF Init, InitializeAngle, WholeOrFull, PartsOnWindowsOnly
<1>3. QueriesInv /\ FencesInv /\ SurfacesInv
  <2>1. Len(mWaitForPresentQueries) = 0 /\ handedOver = <<0, 0>>
    BY EmptySeq DEF Init
  <2> QED BY <2>1 DEF Init, NoQuery, QueriesInv, FencesInv, FencesAreFresh,
             SurfacesInv, SurfaceErrorsAreRaised
<1>4. DrawnInv /\ ReportedInv
  BY DEF Init, DrawnInv, ReportedInv
<1> QED BY <1>1, <1>2, <1>3, <1>4, InitTypeOK DEF IInv

(* The invariant holds in every behaviour: each update, frame, wait and     *)
(* report of the code keeps the order of display lists, their last readers  *)
(* and the state of the window's buffers consistent.                        *)
THEOREM Invariant == Spec => []IInv
<1>1. IInv /\ [Next]_vars => IInv'
  <2> SUFFICES ASSUME IInv, [Next]_vars PROVE IInv'
    OBVIOUS
  <2>1. TypeOK'
    BY NextTypeOK DEF IInv, ReleaseInv
  <2>2. ReleaseInv'
    BY <2>1, NextRelease DEF IInv
  <2>3. WholeInv'
    BY NextWhole DEF IInv, WholeInv
  <2>4. /\ QueriesInv' /\ FencesInv' /\ SurfacesInv' /\ DrawnInv'
        /\ ReportedInv'
    BY <2>1, NextQueries, NextFences, NextSurfaces, NextDrawn, NextReported
    DEF IInv, ReleaseInv
  <2> QED BY <2>1, <2>2, <2>3, <2>4 DEF IInv, WholeInv
<1> QED BY InitIInv, <1>1, PTL DEF Spec

(* No image is given back while a command that the GPU has still to run     *)
(* reads it (RenderCompositorANGLE's queries): for any number of frames,    *)
(* queries that were not made, waits that failed and frames not drawn.      *)
THEOREM ReleasedStayUnread == Spec => []ReleasedAreNotRead
<1>1. IInv => ReleasedAreNotRead
  BY DEF IInv, ReleaseInv, CompletedIsDone, ReleasedAreNotRead
<1> QED BY Invariant, <1>1, PTL

(* A window presented in parts (RenderCompositorANGLE's mUsePartialPresent) *)
(* shows only what was drawn, for any sequence of resizes and lost presents.*)
THEOREM PresentedStaysWhole == Spec => []PresentedIsWhole
<1>1. IInv => PresentedIsWhole
  BY DEF IInv, WholeOrFull, PartsOnWindowsOnly, PresentedIsWhole
<1> QED BY Invariant, <1>1, PTL

(* Each query is waited for by one frame, a fence is handed over once with  *)
(* the frame whose end it tells, a second surface that cannot be made       *)
(* raises an error, the render thread is at most one drawn frame ahead of   *)
(* the GPU on macOS, and every display list taken into use is reported:     *)
(* RendererOGL::UpdateAndRender and the compositors of all platforms.       *)
THEOREM RendererStaysConsistent == Spec => []RendererConsistent
<1>1. IInv => RendererConsistent
  <2> SUFFICES ASSUME IInv PROVE RendererConsistent
    OBVIOUS
  <2>1. QueriesAreDistinct
    <3> DEFINE q    == mWaitForPresentQueries
               used == [i \in DOMAIN q |-> q[i].query]
    <3>1. DOMAIN used = 1 .. Len(q) /\ \A i \in 1 .. Len(q) : used[i] = q[i].query
      BY LenProperties DEF IInv, TypeOK
    <3> HIDE DEF used
    <3>2. \A i, j \in DOMAIN used : used[i] = used[j] => i = j
      BY <3>1 DEF IInv, QueriesInv
    <3>3. \A i \in DOMAIN used : used[i] # mRecycledQuery
      BY <3>1 DEF IInv, QueriesInv
    <3> QED BY <3>2, <3>3 DEF QueriesAreDistinct, IsInjective, ToSet, used
  <2>2. DrawnFramesAreWaitedFor
    BY DEF IInv, DrawnInv, DrawnFramesAreWaitedFor
  <2>3. EpochsAreReported
    BY DEF IInv, ReportedInv, EpochsAreReported
  <2> QED BY <2>1, <2>2, <2>3
          DEF IInv, FencesInv, SurfacesInv, RendererConsistent
<1> QED BY Invariant, <1>1, PTL
=============================================================================
