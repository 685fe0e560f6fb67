----------------------------- MODULE WidgetBuffers -----------------------------
(***************************************************************************)
(* RenderCompositorSWGL: the software renderer draws into memory that      *)
(* belongs to the widget (locked bits of its draw target) or into a data   *)
(* surface that is copied to the draw target when the frame is committed.  *)
(* A window is a set of parts; a region is a set of parts of the window.   *)
(***************************************************************************)
EXTENDS Naturals, FiniteSets

CONSTANT WidgetSizes   \* sizes the widget may have: how many parts it shows

ASSUME WidgetSizesAssumption == WidgetSizes \subseteq Nat \ {0}

VARIABLES
  mRenderWidgetSize,   \* 0 outside of a frame
  mDT, mSurface,       \* is there one; size of the data surface, 0: none
  mMappedData,         \* "none", "bits" of the draw target or "surface"
  mDirtyRegion,
  mRequestFullRender, mLastRenderWidgetSize,
  framebuffer,         \* what SWGL's default framebuffer points at
  widget,              \* size, and the drawing it handed out with its region
  gtk,                 \* built for GTK
  framePc              \* "idle", "begun", "composited"

widgetVars == <<mRenderWidgetSize, mDT, mSurface, mMappedData, mDirtyRegion,
                mRequestFullRender, mLastRenderWidgetSize, framebuffer,
                widget, gtk, framePc>>

WholeWindow(size) == 1 .. size

WidgetInit ==
  /\ mRenderWidgetSize = 0 /\ mDT = FALSE /\ mSurface = 0
  /\ mMappedData = "none" /\ mDirtyRegion = {}
  /\ mRequestFullRender = FALSE /\ mLastRenderWidgetSize = 0
  /\ framebuffer = "none" /\ gtk \in BOOLEAN
  /\ widget \in [size : WidgetSizes, drawing : {FALSE}, region : {{}},
                 locked : {FALSE}]
  /\ framePc = "idle"

GetBufferSize ==
  IF mRenderWidgetSize # 0 THEN mRenderWidgetSize ELSE widget.size

WidgetBeginFrame ==
  /\ framePc = "idle" /\ framePc' = "begun"
  /\ mRenderWidgetSize' = widget.size
  /\ IF gtk /\ mLastRenderWidgetSize # widget.size
     THEN mLastRenderWidgetSize' = widget.size /\ mRequestFullRender' = TRUE
     ELSE UNCHANGED <<mLastRenderWidgetSize, mRequestFullRender>>
  /\ mMappedData' = "none" /\ mDT' = FALSE
  /\ mDirtyRegion' = WholeWindow(widget.size)
  /\ UNCHANGED <<mSurface, framebuffer, widget, gtk>>

(* WebRender asks at the start of a render.                                 *)
RequestFullRender ==
  /\ framePc = "begun" /\ gtk /\ mRequestFullRender
  /\ mRequestFullRender' = FALSE
  /\ UNCHANGED <<mRenderWidgetSize, mDT, mSurface, mMappedData, mDirtyRegion,
                 mLastRenderWidgetSize, framebuffer, widget, gtk, framePc>>

-----------------------------------------------------------------------------
(* The draw target of a frame.  Each operator is a step of a handler: from  *)
(* the buffers as they are it gives those it leaves.                        *)

Current == [dt |-> mDT, surface |-> mSurface, mapped |-> mMappedData,
            region |-> mDirtyRegion, framebuffer |-> framebuffer,
            drawing |-> widget.drawing, given |-> widget.region,
            locked |-> widget.locked]

(* The widget ends the drawing and takes its draw target back; "given"      *)
(* keeps the region until then.                                             *)
ClearMappedBuffer(b) == [b EXCEPT !.mapped = "none", !.dt = FALSE]
EndRemoteDrawing(b) ==
  [b EXCEPT !.drawing = FALSE, !.locked = FALSE, !.given = {}]

(* A bounding box: the parts from the first to the last.                    *)
Bounds(region) ==
  {p \in 1 .. 8 : (\E q \in region : q <= p) /\ (\E q \in region : p <= q)}

(* What StartRemoteDrawingInRegion, LockBits and the data surface answer:   *)
(* "refused" (no draw target), "bits", "surface", "unmapped" (no surface).  *)
Answers == {"refused", "bits", "surface", "unmapped"}

(* The draw target's bits are tried only while no data surface was needed.  *)
CanAnswer(b, answer) == answer = "bits" => b.surface = 0

AllocateMappedBuffer(b, answer) ==
  LET size    == Cardinality(Bounds(b.region))
      started == [b EXCEPT !.dt = TRUE, !.drawing = TRUE, !.given = b.region]
  IN CASE answer = "refused"  -> b
       [] answer = "unmapped" ->
            ClearMappedBuffer(EndRemoteDrawing([started EXCEPT
              !.surface = IF b.surface = size THEN size ELSE 0]))
       [] answer = "bits" ->
            [started EXCEPT !.mapped = "bits", !.locked = TRUE,
                            !.framebuffer = "bits"]
       [] answer = "surface" ->
            [started EXCEPT !.mapped = "surface", !.surface = size,
                            !.framebuffer = "surface"]

(* The framebuffer is cleared in case something accesses it later.          *)
FramebufferAfterCommit_Kept(b) == b.framebuffer
FramebufferAfterCommit(b) == "none"

CommitMappedBuffer(b) ==
  IF ~b.dt THEN [b EXCEPT !.region = {}]
  ELSE ClearMappedBuffer(EndRemoteDrawing(
         [b EXCEPT !.region = {},
                   !.framebuffer = FramebufferAfterCommit(b)]))

(* Buffers left from updates are given back before the dirty rects of this  *)
(* composite are installed.                                                 *)
LeftOver_Kept(b) == b
LeftOver(b) ==
  IF b.dt
  THEN [CommitMappedBuffer(b) EXCEPT !.region = WholeWindow(GetBufferSize)]
  ELSE b

DirtyAfter(b, rects) ==
  IF rects = {} THEN b.region ELSE rects \intersect Bounds(b.region)

(* Without a mapped buffer a temporary framebuffer lets WebRender go on.    *)
StartCompositingFrom(b, rects, answer) ==
  LET dirty == [LeftOver(b) EXCEPT !.region = DirtyAfter(LeftOver(b), rects)]
      after == AllocateMappedBuffer(dirty, answer)
  IN IF dirty.region = {} \/ answer \in {"refused", "unmapped"}
     THEN [(IF dirty.region = {} THEN dirty ELSE after)
             EXCEPT !.framebuffer = "temporary"]
     ELSE after

Become(b) ==
  /\ mDT' = b.dt /\ mSurface' = b.surface /\ mMappedData' = b.mapped
  /\ mDirtyRegion' = b.region /\ framebuffer' = b.framebuffer
  /\ widget' = [widget EXCEPT !.drawing = b.drawing, !.region = b.given,
                              !.locked = b.locked]

(* The dirty rects are those of the render: a full one has the whole window. *)
WidgetStartCompositing(rects, answer) ==
  /\ framePc \in {"begun", "composited"} /\ framePc' = "composited"
  /\ CanAnswer(Current, answer)
  /\ Become(StartCompositingFrom(Current, rects, answer))
  /\ UNCHANGED <<mRenderWidgetSize, mRequestFullRender,
                 mLastRenderWidgetSize, gtk>>

(* A frame ends, or is cancelled, in the same way but for the copy.         *)
WidgetEndOrCancelFrame ==
  /\ framePc # "idle" /\ framePc' = "idle"
  /\ Become(CommitMappedBuffer(Current))
  /\ mRenderWidgetSize' = 0
  /\ UNCHANGED <<mRequestFullRender, mLastRenderWidgetSize, gtk>>

WidgetResume ==
  /\ framePc = "idle" /\ gtk /\ mRequestFullRender' = TRUE
  /\ UNCHANGED <<mRenderWidgetSize, mDT, mSurface, mMappedData, mDirtyRegion,
                 mLastRenderWidgetSize, framebuffer, widget, gtk, framePc>>

(* The widget changes at any time, on another thread.                       *)
ResizeWidget ==
  /\ \E z \in WidgetSizes \ {widget.size} :
        widget' = [widget EXCEPT !.size = z]
  /\ UNCHANGED <<mRenderWidgetSize, mDT, mSurface, mMappedData, mDirtyRegion,
                 mRequestFullRender, mLastRenderWidgetSize, framebuffer, gtk,
                 framePc>>

WidgetNext ==
  \/ WidgetBeginFrame \/ RequestFullRender \/ WidgetEndOrCancelFrame
  \/ WidgetResume
  \/ ResizeWidget
  \/ \E rects \in SUBSET (1 .. 3), answer \in Answers :
        WidgetStartCompositing(rects, answer)

-----------------------------------------------------------------------------
(* EndFrame's comment: the region given to EndRemoteDrawingInRegion is the  *)
(* one StartRemoteDrawingInRegion had.  A drawing the widget has handed out *)
(* is the compositor's draw target, with the compositor's dirty region, and *)
(* there is no other one.                                                   *)
DrawingKeepsItsRegion ==
  /\ widget.drawing <=> mDT
  /\ widget.drawing => mDirtyRegion = widget.region

(* SWGL's framebuffer never points at memory that is not mapped now: bits   *)
(* released to the widget or a surface that was unmapped.                   *)
FramebufferIsMapped ==
  /\ framebuffer \in {"bits", "surface"} => mMappedData = framebuffer
  /\ widget.locked <=> mMappedData = "bits"

(* The region drawn to stays within the size the frame began with, even if  *)
(* the widget changes in the middle of the frame.                           *)
RegionFitsTheFrame ==
  mDT => mDirtyRegion # {} /\ mDirtyRegion \subseteq 1 .. mRenderWidgetSize

WidgetConsistent ==
  DrawingKeepsItsRegion /\ FramebufferIsMapped /\ RegionFitsTheFrame
=============================================================================
