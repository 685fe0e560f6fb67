------------------------- MODULE SurfaceTextureHosts -------------------------
(***************************************************************************)
(* RenderAndroidSurfaceTextureHost: the hosts of one Android SurfaceTexture.*)
(* A SurfaceTexture with a single buffer has one host; one that plays a     *)
(* video is used for all the hosts of the video's frames.  A host latches   *)
(* its frame with UpdateTexImage, on the render thread.  The hosts of a     *)
(* remote texture prepare themselves, the others are told by texture ops.   *)
(* mContinuousUpdate, not used by current Gecko, is left out.               *)
(***************************************************************************)
EXTENDS Naturals

CONSTANTS
  VideoHosts,   \* the hosts of a video
  MaxUpdates    \* bound on the updates counted in one use

ASSUME SurfaceHostsAssumption == VideoHosts # {} /\ MaxUpdates \in Nat \ {0}

VARIABLES
  surfSingle,   \* IsSingleBuffer()
  surfRemote,   \* mIsRemoteTexture of the hosts
  surfHosts,    \* the members of each host, and what happened in its use
  surfHandling, \* RenderThread::IsHandlingWebRenderError()
  surfCrashed   \* a host without a GL context was dereferenced

surfVars == <<surfSingle, surfRemote, surfHosts, surfHandling, surfCrashed>>

Statuses == {"none", "might", "needed", "prepared"}

SurfaceTypeOK ==
  /\ surfSingle \in BOOLEAN /\ surfRemote \in BOOLEAN
  /\ surfHandling \in BOOLEAN /\ surfCrashed \in BOOLEAN
  /\ \A h \in DOMAIN surfHosts : surfHosts[h] \in
       [status : Statuses, attached : BOOLEAN, gl : BOOLEAN,
        use : {"unused", "used", "over"}, notified : BOOLEAN,
        refused : BOOLEAN, given : BOOLEAN, updates : 0..MaxUpdates]

NewHost == [status |-> "none", attached |-> FALSE, gl |-> FALSE,
            use |-> "unused", notified |-> FALSE, refused |-> FALSE,
            given |-> FALSE, updates |-> 0]

SurfaceInit ==
  /\ surfSingle \in BOOLEAN /\ surfRemote \in BOOLEAN
  /\ surfHosts = [h \in IF surfSingle THEN {CHOOSE v \in VideoHosts : TRUE}
                        ELSE VideoHosts |-> NewHost]
  /\ surfHandling = FALSE /\ surfCrashed = FALSE

(* UpdateTexImage; the count saturates at its bound.                        *)
Latch(r) == [r EXCEPT !.updates = IF @ < MaxUpdates THEN @ + 1 ELSE @]

(* EnsureAttachedToGLContext: attaching fails when the context cannot be    *)
(* made current; it is refused while a WebRender error is handled.          *)
EnsureAttached(r, current) ==
  IF surfHandling THEN [r EXCEPT !.refused = TRUE]
  ELSE IF r.attached THEN r
  ELSE [r EXCEPT !.gl = TRUE, !.attached = current, !.refused = @ \/ ~current]

Prepare(r, current) ==
  IF surfSingle
  THEN [Latch(EnsureAttached(r, current)) EXCEPT !.status = "prepared"]
  ELSE [r EXCEPT !.status = "might"]

NotifyUse_Anytime(r, current) ==
  IF r.status = "none" THEN r
  ELSE LET a == EnsureAttached(r, current)
       IN IF a.attached /\ ~surfHandling
          THEN [a EXCEPT !.status = "needed", !.notified = TRUE] ELSE a
NotifyUse(r, current) ==
  IF r.status # "might" THEN r
  ELSE LET a == EnsureAttached(r, current)
       IN IF a.attached /\ ~surfHandling
          THEN [a EXCEPT !.status = "needed", !.notified = TRUE] ELSE a

(* UpdateTexImageIfNecessary.                                               *)
PreparedItself(r, current) ==
  LET r1 == EnsureAttached(r, current)
      r2 == IF r1.status = "none" THEN Prepare(r1, current) ELSE r1
  IN IF r2.status = "might" THEN NotifyUse(r2, current) ELSE r2
Latched_Again(r) == IF r.status = "needed" THEN Latch(r) ELSE r
Latched(r) ==
  IF r.status = "needed" THEN [Latch(r) EXCEPT !.status = "prepared"] ELSE r
UpdateIfNecessary(r, current) ==
  Latched(IF surfRemote THEN PreparedItself(r, current) ELSE r)

(* NotifyNotUsed.                                                           *)
LastUpdate_None(r) == r
LastUpdate(r) ==
  IF ~surfSingle /\ r.status = "needed" THEN Latch(r) ELSE r
GivenUp_NotPrepared(r, current) ==
  [LastUpdate(r) EXCEPT !.status = "none", !.use = "over", !.given = FALSE]
GivenUp(r, current) ==
  [LastUpdate(IF surfRemote THEN UpdateIfNecessary(r, current) ELSE r)
     EXCEPT !.status = "none", !.use = "over", !.given = FALSE]

BecomeHost(h, r) == surfHosts' = [surfHosts EXCEPT ![h] = r]
SameKind == UNCHANGED <<surfSingle, surfRemote>>

(***************************************************************************)
(* The calls, one after the other on the render thread.                     *)
(***************************************************************************)
(* A new frame, and its host gets used.  Only the hosts that do not prepare *)
(* themselves are told.                                                     *)
SurfacePrepareForUse(h) ==
  /\ ~surfCrashed /\ surfHosts[h].use # "used"
  /\ LET r == [surfHosts[h] EXCEPT !.use = "used", !.updates = 0,
                                   !.notified = FALSE, !.refused = FALSE]
     IN \E current \in BOOLEAN :
          BecomeHost(h, IF surfRemote THEN r ELSE Prepare(r, current))
  /\ SameKind /\ UNCHANGED <<surfHandling, surfCrashed>>

SurfaceNotifyForUse(h) ==
  /\ ~surfCrashed /\ ~surfRemote /\ surfHosts[h].use = "used"
  /\ \E current \in BOOLEAN : BecomeHost(h, NotifyUse(surfHosts[h], current))
  /\ SameKind /\ UNCHANGED <<surfHandling, surfCrashed>>

(* Lock of a host that WebRender was told to use, as its assertion demands. *)
SurfaceLock(h) ==
  /\ ~surfCrashed /\ surfHosts[h].use = "used"
  /\ surfRemote \/ surfHosts[h].status \in {"needed", "prepared"}
  /\ \E attaches, current \in BOOLEAN :
       LET r == IF surfRemote THEN EnsureAttached(surfHosts[h], attaches)
                ELSE surfHosts[h]
           ok == r.gl /\ current /\ r.attached
       IN BecomeHost(h, IF ok THEN [UpdateIfNecessary(r, attaches)
                                  EXCEPT !.given = TRUE]
                    ELSE [r EXCEPT !.given = FALSE])
  /\ SameKind /\ UNCHANGED <<surfHandling, surfCrashed>>

(* MapPlane reads the texture back for a software renderer, and             *)
(* CreateTextureSource hands it to a layer drawn with GL.                   *)
SurfaceMapPlane(h) ==
  /\ ~surfCrashed /\ surfHosts[h].use = "used"
  /\ \/ surfRemote \/ surfHosts[h].refused
     \/ surfHosts[h].status \in {"needed", "prepared"}
  /\ \E attaches, read \in BOOLEAN :
       LET r == UpdateIfNecessary(surfHosts[h], attaches)
       IN \/ BecomeHost(h, [r EXCEPT !.gl = TRUE, !.given = read])
          \/ BecomeHost(h, [r EXCEPT !.given = TRUE])
  /\ SameKind /\ UNCHANGED <<surfHandling, surfCrashed>>

(* A single buffer is released to the client through mGL.                   *)
SurfaceNotifyNotUsed(h) ==
  /\ ~surfCrashed /\ surfHosts[h].use = "used"
  /\ \E current \in BOOLEAN : BecomeHost(h, GivenUp(surfHosts[h], current))
  /\ surfCrashed' = (surfSingle /\ ~surfHosts'[h].gl)
  /\ SameKind /\ UNCHANGED surfHandling

(* HandleWebRenderError; the flag goes with the last renderer.              *)
SurfaceError ==
  /\ ~surfCrashed /\ surfHandling' = ~surfHandling
  /\ SameKind /\ UNCHANGED <<surfHosts, surfCrashed>>

SurfaceNext ==
  \/ SurfaceError
  \/ \E h \in DOMAIN surfHosts :
       \/ SurfacePrepareForUse(h) \/ SurfaceNotifyForUse(h)
       \/ SurfaceLock(h) \/ SurfaceMapPlane(h) \/ SurfaceNotifyNotUsed(h)

(***************************************************************************)
(* Properties.                                                              *)
(***************************************************************************)
(* "UpdateTexImage needs to be called only once for each publish.  If       *)
(* UpdateTexImage is called more than once, it causes hang on publish side" *)
(* (RenderAndroidSurfaceTextureHost.cpp:130): whatever the order of the     *)
(* ops, the frames and the errors, a use updates at most once.              *)
UpdatedOnce == \A h \in DOMAIN surfHosts : surfHosts[h].updates <= 1

(* A frame whose host was attached for WebRender is taken from the          *)
(* SurfaceTexture by the end of the use, even if it was never drawn: a      *)
(* skipped frame would be shown in place of the next one.                   *)
SkippedFramesAreTaken ==
  \A h \in DOMAIN surfHosts :
    surfHosts[h].use = "over" /\ (surfSingle \/ surfHosts[h].notified) =>
      surfHosts[h].updates = 1

(* A renderer that is given the texture is given the frame of this use,     *)
(* unless the host could not be attached to the GL context.                 *)
GivenFramesAreTaken ==
  \A h \in DOMAIN surfHosts :
    surfHosts[h].given /\ ~surfHosts[h].refused => surfHosts[h].updates = 1

(* A remote texture's frame is latched although nobody drew it, and every   *)
(* frame is updated once for each publish (the three properties above).     *)
SurfacesConsistent ==
  /\ SurfaceTypeOK
  /\ UpdatedOnce /\ SkippedFramesAreTaken /\ GivenFramesAreTaken

(* RenderAndroidSurfaceTextureHost.cpp:184,                                 *)
(* "MOZ_ASSERT(mAttachedToGLContext);": the buffer of a single-buffer       *)
(* SurfaceTexture is released by a host that is attached.                   *)
ReleasedAreAttached ==
  \A h \in DOMAIN surfHosts :
    surfSingle /\ surfHosts[h].use = "over" => surfHosts[h].attached
=============================================================================
