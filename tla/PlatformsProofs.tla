-------------------------- MODULE PlatformsProofs --------------------------
(***************************************************************************)
(* The compositors of the software renderer and the texture hosts of the   *)
(* platforms keep what the runs of MCPlatforms check, for any sizes,       *)
(* surfaces, tiles, textures and devices.  They share no state, so that    *)
(* each has an inductive invariant of its own.                             *)
(***************************************************************************)
EXTENDS MCPlatforms, FiniteSetTheorems, SequenceTheorems, WellFoundedInduction,
        TLAPS

-----------------------------------------------------------------------------
(* Layers drawn with GL                                                     *)

(* A tile of the compositor that draws layers with GL.                      *)
GLTiles == [exists : BOOLEAN, pbo : BOOLEAN, texture : BOOLEAN,
            mapped : {"none", "placed", "scratch"}, scratch : BOOLEAN,
            misplaced : BOOLEAN]

(* The values its state takes.                                              *)
GLTypeOK ==
  /\ mEGLSurface \in BOOLEAN /\ mFullRender \in BOOLEAN
  /\ mHandlingNewSurfaceError \in BOOLEAN /\ failures \in 0 .. 2
  /\ raised \in BOOLEAN /\ begun \in BOOLEAN
  /\ render \in {"none", "partial", "full"}
  /\ composited \in BOOLEAN /\ whole \in BOOLEAN /\ refused \in BOOLEAN
  /\ tile \in GLTiles

(* GLConsistent, and what it needs: a surface that waits for its full render*)
(* waits for it in the middle of a frame too, and then the render is a full *)
(* one; the error flag is the count of failures; a scratch surface is held  *)
(* just while it is mapped.                                                 *)
GLInv ==
  /\ GLTypeOK
  /\ mEGLSurface => whole \/ mFullRender \/ refused
  /\ begun /\ mFullRender /\ render # "none" => render = "full"
  /\ raised <=> failures >= 2
  /\ mHandlingNewSurfaceError <=> failures >= 1
  /\ ~tile.misplaced
  /\ tile.mapped # "none" => (tile.scratch <=> tile.mapped = "scratch")

(* Nothing was drawn or mapped at the start.                                *)
LEMMA GLInitInv == GLInit => GLInv
<1> SUFFICES ASSUME GLInit PROVE GLInv
  OBVIOUS
<1>1. tile \in GLTiles /\ tile.misplaced = FALSE /\ tile.mapped = "none"
  BY DEF GLInit, GLNoTile, GLTiles
<1>2. GLTypeOK
  <2>1. failures \in 0 .. 2 /\ render \in {"none", "partial", "full"}
    BY DEF GLInit
  <2> QED
    BY <1>1, <2>1 DEF GLInit, GLTypeOK
<1> QED
  BY <1>1, <1>2 DEF GLInit, GLInv

(* No call of the compositor leaves it. A new EGL surface asks for a full   *)
(* render, and a failure to make one moves the flag and the count together  *)
(* (CreateEGLSurface, Resume).                                              *)
LEMMA GLStepInv == GLInv /\ [GLNext]_glVars => GLInv'
<1> SUFFICES ASSUME GLInv, [GLNext]_glVars PROVE GLInv'
  OBVIOUS
<1> USE DEF GLInv, GLTypeOK
<1>1. CASE UNCHANGED glVars
  BY <1>1 DEF glVars
<1>2. CASE Pause
  BY <1>2 DEF Pause
<1>3. CASE GLBeginFrame
  BY <1>3 DEF GLBeginFrame, glSurfaceVars
<1>4. CASE EndFrame
  BY <1>4 DEF EndFrame, glSurfaceVars
<1>5. CASE CancelFrame
  BY <1>5 DEF CancelFrame, glSurfaceVars
<1>6. CASE GLCreateTile
  BY <1>6 DEF GLCreateTile, glSurfaceVars, glFrameVars, GLTiles, GLNoTile
<1>7. CASE GLDestroyTile
  BY <1>7 DEF GLDestroyTile, glSurfaceVars, glFrameVars, GLTiles, GLNoTile
<1>8. CASE GLMapTile
  BY <1>8 DEF GLMapTile, glSurfaceVars, glFrameVars, GLTiles, PlaceAtMap,
              ScratchAfterMap
<1>9. CASE GLUnmapTile
  <2>1. /\ tile \in GLTiles /\ tile.misplaced = FALSE
        /\ tile.scratch = (tile.mapped = "scratch")
    BY <1>9 DEF GLUnmapTile, GLTiles
  <2>2. Misplaces = FALSE
    BY <2>1 DEF Misplaces
  <2>3. /\ tile' \in GLTiles /\ tile'.misplaced = FALSE
        /\ tile'.mapped = "none"
    BY <1>9, <2>1, <2>2 DEF GLUnmapTile, GLTiles
  <2> QED
    BY <1>9, <2>3 DEF GLUnmapTile, glSurfaceVars, glFrameVars
<1>10. ASSUME NEW a \in BOOLEAN, NEW b \in BOOLEAN, GLResume(a, b)
       PROVE  GLInv'
  <2>1. CASE a
    BY <1>10, <2>1 DEF GLResume
  <2>2. CASE ~a
    <3>1. /\ mEGLSurface' = b /\ mFullRender' = TRUE /\ whole' = FALSE
          /\ refused' = FALSE /\ mHandlingNewSurfaceError' = ~b
          /\ failures' = IF b THEN 0 ELSE IF failures = 2 THEN 2
                         ELSE failures + 1
          /\ raised' = (~b /\ mHandlingNewSurfaceError) /\ ~begun
          /\ UNCHANGED <<begun, render, composited, tile>>
      BY <1>10, <2>2 DEF GLResume, FullRenderAfterCreate, RaisesNewSurface
    <3> QED
      <4>1. failures' \in 0 .. 2
        BY <3>1
      <4>2. GLTypeOK'
        BY <3>1, <4>1
      <4>3. mEGLSurface' => whole' \/ mFullRender' \/ refused'
        BY <3>1
      <4>4. begun' /\ mFullRender' /\ render' # "none" => render' = "full"
        BY <3>1
      <4>5. raised' <=> failures' >= 2
        BY <3>1
      <4>6. mHandlingNewSurfaceError' <=> failures' >= 1
        <5>1. CASE b
          <6>1. failures' = 0 /\ mHandlingNewSurfaceError' = FALSE
            BY <3>1, <5>1
          <6> QED
            BY <6>1
        <5>2. CASE ~b
          <6>1. failures' \in 1 .. 2
            BY <3>1, <5>2
          <6>2. mHandlingNewSurfaceError'
            BY <3>1, <5>2
          <6> QED
            BY <6>1, <6>2
        <5> QED
          BY <5>1, <5>2
      <4> QED
        BY <3>1, <4>2, <4>3, <4>4, <4>5, <4>6
  <2> QED
    BY <2>1, <2>2
<1>11. ASSUME NEW a \in BOOLEAN, NEW b \in BOOLEAN, Render(a, b)
       PROVE  GLInv'
  BY <1>11 DEF Render, glSurfaceVars
<1> QED
  BY <1>1, <1>2, <1>3, <1>4, <1>5, <1>6, <1>7, <1>8, <1>9, <1>10, <1>11
     DEF GLNext

(* It is enough for the property of the run.                                *)
LEMMA GLInvConsistent == GLInv => GLConsistent
  BY DEF GLInv, GLTypeOK, GLConsistent, NewSurfacesAreDrawnWhole,
         NewSurfaceErrorsAreRaised, UploadsAreInPlace

-----------------------------------------------------------------------------
(* Textures that are kept                                                   *)

(* CachedConsistent, and what it needs: what is yet to be read has a fence, *)
(* a sync object or an update to be waited for, each in the kind of host    *)
(* that has it.                                                             *)
CacheInv ==
  /\ CachedConsistent
  /\ cacheUnread /\ ~cacheTrouble =>
       cacheFence \/ cacheHost.sync \/ cacheHost.updateNeeded
  /\ cacheFence => cacheKind = "hardware"
  /\ cacheHost.sync => cacheKind = "image"
  /\ cacheHost.updateNeeded => cacheKind = "external"

(* The host as it is made.                                                  *)
LEMMA CacheInitInv == CacheInit => CacheInv
<1> SUFFICES ASSUME CacheInit PROVE CacheInv
  OBVIOUS
<1>1. PICK sync \in BOOLEAN :
        /\ cacheHost = [gl |-> FALSE, handle |-> FALSE,
                        sync |-> sync /\ cacheKind = "image",
                        updateNeeded |-> cacheKind = "external",
                        readback |-> FALSE]
        /\ cacheFence = (sync /\ cacheKind = "hardware")
        /\ cacheUnread = (sync \/ cacheKind = "external")
  BY DEF CacheInit
<1>2. CASE cacheKind = "hardware"
  BY <1>1, <1>2 DEF CacheInit, CacheInv, CachedConsistent, CacheTypeOK
<1>3. CASE cacheKind = "image"
  BY <1>1, <1>3 DEF CacheInit, CacheInv, CachedConsistent, CacheTypeOK
<1>4. CASE cacheKind = "external"
  BY <1>1, <1>4 DEF CacheInit, CacheInv, CachedConsistent, CacheTypeOK
<1> QED
  BY <1>2, <1>3, <1>4 DEF CacheInit

(* What makes the texture, for GL or to be read back, waits for whatever the*)
(* host has to wait for.                                                    *)
LEMMA MakeTextureInv ==
  ASSUME CacheInv, NEW synced \in BOOLEAN,
         NEW frame \in {"texture", "mapped"}, MakeTexture(synced, frame),
         UNCHANGED cacheKind
  PROVE  CacheInv'
  BY DEF CacheInv, CachedConsistent, CacheTypeOK, MakeTexture, TakesFence,
         TakesSync, Uploads

(* A refused lock or mapping takes nothing that has to be waited for.       *)
LEMMA RefuseInv == CacheInv /\ Refuse /\ UNCHANGED cacheKind => CacheInv'
<1> SUFFICES ASSUME CacheInv, Refuse, UNCHANGED cacheKind PROVE CacheInv'
  OBVIOUS
<1>1. /\ cacheHost' \in [gl : BOOLEAN, handle : BOOLEAN, sync : BOOLEAN,
                         updateNeeded : BOOLEAN, readback : BOOLEAN]
      /\ cacheHost'.sync = cacheHost.sync
      /\ cacheHost'.updateNeeded = cacheHost.updateNeeded
  BY DEF CacheInv, CachedConsistent, CacheTypeOK, Refuse
<1> QED
  BY <1>1 DEF CacheInv, CachedConsistent, CacheTypeOK, Refuse

(* No call leaves it, nor does the writer between two frames.               *)
LEMMA CacheStepInv == CacheInv /\ [CacheNext]_cacheVars => CacheInv'
<1> SUFFICES ASSUME CacheInv, [CacheNext]_cacheVars PROVE CacheInv'
  OBVIOUS
<1> USE DEF CacheInv, CachedConsistent, CacheTypeOK
<1>1. CASE UNCHANGED cacheVars
  BY <1>1 DEF cacheVars
<1>2. CASE CacheLock
  BY <1>2, MakeTextureInv, RefuseInv DEF CacheLock
<1>3. CASE CacheMapPlane
  BY <1>3, MakeTextureInv, RefuseInv DEF CacheMapPlane
<1>4. CASE CacheCreateTextureSource
  BY <1>4 DEF CacheCreateTextureSource, SourceWaits
<1>5. CASE CacheUnlock
  BY <1>5 DEF CacheUnlock
<1>6. CASE CacheWrite
  BY <1>6 DEF CacheWrite
<1> QED
  BY <1>1, <1>2, <1>3, <1>4, <1>5, <1>6 DEF CacheNext

-----------------------------------------------------------------------------
(* Hosts of SurfaceTextures                                                 *)

(* The values of a host.                                                    *)
SurfaceHostRecords ==
  [status : Statuses, attached : BOOLEAN, gl : BOOLEAN,
   use : {"unused", "used", "over"}, notified : BOOLEAN,
   refused : BOOLEAN, given : BOOLEAN, updates : 0 .. MaxUpdates]

(* The use of a host: the status and the count go together.                *)
UseFollows(r) ==
  /\ r \in SurfaceHostRecords
  /\ r.updates = IF r.status = "prepared" THEN 1 ELSE 0
  /\ surfSingle => r.status \in {"none", "prepared"}
  /\ r.notified => r.status \in {"needed", "prepared"}
  /\ r.given /\ ~r.refused => r.status = "prepared"

(* A host through its uses: over, it is quiet and its frame was taken if it *)
(* had to be; in use, its status and its count go together.                 *)
UseIsConsistent(r) ==
  IF r.use = "over"
  THEN /\ r \in SurfaceHostRecords /\ r.status = "none" /\ r.updates <= 1
       /\ (surfSingle \/ r.notified => r.updates = 1)
       /\ ~r.given
  ELSE /\ UseFollows(r)
       /\ r.use = "unused" => r.status = "none" /\ ~r.given
       /\ r.use = "used" /\ surfSingle /\ ~surfRemote => r.status = "prepared"

(* Every host is so, whatever the others are: the hosts of one              *)
(* SurfaceTexture depend on each other only through the GL context they are *)
(* given.                                                                   *)
SurfaceInv ==
  /\ surfSingle \in BOOLEAN /\ surfRemote \in BOOLEAN
  /\ surfHandling \in BOOLEAN /\ surfCrashed \in BOOLEAN
  /\ surfHosts = [h \in DOMAIN surfHosts |-> surfHosts[h]]
  /\ \A h \in DOMAIN surfHosts : UseIsConsistent(surfHosts[h])

(* The bound on updates leaves room for the one that is right.              *)
LEMMA UpdateCounts == 0 \in 0 .. MaxUpdates /\ 1 \in 0 .. MaxUpdates
  BY SurfaceHostsAssumption

(* EnsureAttachedToGLContext changes nothing of the use: it attaches the    *)
(* host or refuses it.                                                      *)
LEMMA AttachedFollows ==
  ASSUME SurfaceInv, NEW r, UseFollows(r), NEW isCurrent \in BOOLEAN
  PROVE  LET a == EnsureAttached(r, isCurrent)
         IN /\ UseFollows(a) /\ a.status = r.status /\ a.use = r.use
            /\ a.given = r.given
            /\ a.notified = r.notified /\ ((a.attached /\ ~surfHandling) \/ a.refused)
            /\ (r.refused => a.refused)
<1>1. CASE surfHandling
  BY <1>1 DEF EnsureAttached, UseFollows, SurfaceHostRecords
<1>2. CASE ~surfHandling /\ r.attached
  BY <1>2 DEF EnsureAttached, UseFollows, SurfaceHostRecords
<1>3. CASE ~surfHandling /\ ~r.attached
  BY <1>3 DEF EnsureAttached, UseFollows, SurfaceHostRecords
<1> QED
  BY <1>1, <1>2, <1>3

(* The update of a host that had none is its only one.                      *)
LEMMA LatchedOnce ==
  ASSUME NEW r, UseFollows(r), r.updates = 0
  PROVE  /\ Latch(r) \in SurfaceHostRecords /\ Latch(r).updates = 1
         /\ Latch(r) = [r EXCEPT !.updates = 1]
  BY SurfaceHostsAssumption DEF Latch, UseFollows, SurfaceHostRecords

(* PrepareForUse updates a single-buffer texture at once and leaves any     *)
(* other for later.                                                         *)
LEMMA PreparedFollows ==
  ASSUME SurfaceInv, NEW r, UseFollows(r), r.status = "none",
         NEW isCurrent \in BOOLEAN
  PROVE  LET p == Prepare(r, isCurrent)
         IN /\ UseFollows(p) /\ p.use = r.use /\ p.given = r.given
            /\ (p.refused = r.refused \/ p.refused)
            /\ p.status = IF surfSingle THEN "prepared" ELSE "might"
<1> DEFINE a == EnsureAttached(r, isCurrent)
<1>1. /\ UseFollows(a) /\ a.status = r.status /\ a.use = r.use
      /\ a.given = r.given /\ (r.refused => a.refused)
  BY AttachedFollows
<1>2. ~r.notified /\ r.updates = 0 /\ (r.given => r.refused)
  BY DEF UseFollows, SurfaceHostRecords, Statuses
<1>3. CASE surfSingle
  <2>1. a.updates = 0
    BY <1>1 DEF UseFollows
  <2>2. /\ Latch(a) \in SurfaceHostRecords
        /\ Latch(a) = [a EXCEPT !.updates = 1]
    BY <1>1, <2>1, LatchedOnce
  <2>3. Prepare(r, isCurrent) = [a EXCEPT !.updates = 1, !.status = "prepared"]
    BY <1>1, <1>3, <2>2 DEF Prepare, UseFollows, SurfaceHostRecords
  <2> HIDE DEF a
  <2> QED
    BY <1>1, <1>2, <1>3, <2>2, <2>3, SurfaceHostsAssumption
       DEF UseFollows, SurfaceHostRecords, Statuses
<1>4. CASE ~surfSingle
  BY <1>2, <1>4 DEF Prepare, UseFollows, SurfaceHostRecords, Statuses
<1> QED
  BY <1>3, <1>4

(* NotifyForUse asks for the update, once, of a host that it can attach.    *)
LEMMA NotifiedFollows ==
  ASSUME SurfaceInv, NEW r, UseFollows(r), NEW isCurrent \in BOOLEAN
  PROVE  LET n == NotifyUse(r, isCurrent)
         IN /\ UseFollows(n) /\ n.use = r.use /\ n.given = r.given
            /\ (r.refused => n.refused)
            /\ (r.status # "might" => n = r)
            /\ (r.status = "might" => n.status \in {"might", "needed"})
            /\ (n.status = "might" => n.refused)
<1> DEFINE a == EnsureAttached(r, isCurrent)
<1>1. CASE r.status # "might"
  BY <1>1 DEF NotifyUse
<1>2. CASE r.status = "might"
  <2>1. /\ UseFollows(a) /\ a.status = "might" /\ a.use = r.use
        /\ a.given = r.given /\ ((a.attached /\ ~surfHandling) \/ a.refused)
        /\ (r.refused => a.refused)
    BY <1>2, AttachedFollows
  <2>2. NotifyUse(r, isCurrent) =
          IF a.attached /\ ~surfHandling
          THEN [a EXCEPT !.status = "needed", !.notified = TRUE] ELSE a
    BY <1>2 DEF NotifyUse
  <2> HIDE DEF a
  <2>3. CASE a.attached /\ ~surfHandling
    <3> DEFINE m == [a EXCEPT !.status = "needed", !.notified = TRUE]
    <3>1. a \in SurfaceHostRecords
      BY <2>1 DEF UseFollows
    <3>2. m \in SurfaceHostRecords
      BY <3>1 DEF SurfaceHostRecords, Statuses
    <3>3. /\ m.status = "needed" /\ m.notified = TRUE
          /\ m.updates = a.updates /\ m.given = a.given
          /\ m.refused = a.refused /\ m.use = a.use
          /\ m.attached = a.attached
      BY <3>1 DEF SurfaceHostRecords
    <3>4. NotifyUse(r, isCurrent) = m
      BY <2>2, <2>3
    <3> HIDE DEF m
    <3>5. UseFollows(m)
      BY <2>1, <3>2, <3>3 DEF UseFollows
    <3> QED
      BY <1>2, <2>1, <2>3, <3>3, <3>4, <3>5
  <2>4. CASE ~(a.attached /\ ~surfHandling)
    BY <1>2, <2>1, <2>2, <2>4
  <2> QED
    BY <2>3, <2>4
<1> QED
  BY <1>1, <1>2

(* UpdateTexImageIfNecessary takes the frame that is asked for, and only    *)
(* that.                                                                    *)
LEMMA LatchFollows ==
  ASSUME SurfaceInv, NEW r, UseFollows(r)
  PROVE  /\ UseFollows(Latched(r)) /\ Latched(r).use = r.use
         /\ Latched(r).given = r.given /\ Latched(r).refused = r.refused
         /\ Latched(r).status =
              IF r.status = "needed" THEN "prepared" ELSE r.status
<1>1. CASE r.status = "needed"
  <2>1. r.updates = 0 /\ ~surfSingle
    BY <1>1 DEF UseFollows
  <2>2. Latched(r) = [r EXCEPT !.updates = 1, !.status = "prepared"]
    BY <1>1, <2>1, LatchedOnce DEF Latched, UseFollows, SurfaceHostRecords
  <2>3. /\ Latched(r) \in SurfaceHostRecords
        /\ Latched(r).updates = 1 /\ Latched(r).status = "prepared"
        /\ Latched(r).use = r.use /\ Latched(r).given = r.given
        /\ Latched(r).refused = r.refused
        /\ Latched(r).notified = r.notified
    BY <2>2, UpdateCounts DEF UseFollows, SurfaceHostRecords, Statuses
  <2> QED
    BY <1>1, <2>1, <2>3 DEF UseFollows
<1>2. CASE r.status # "needed"
  BY <1>2 DEF Latched
<1> QED
  BY <1>1, <1>2

(* UpdateTexImageIfNecessary: the frame is latched unless the host of a    *)
(* remote texture could not be attached.                                   *)
LEMMA UpdatedFollows ==
  ASSUME SurfaceInv, NEW r, UseFollows(r), NEW isCurrent \in BOOLEAN
  PROVE  LET u == UpdateIfNecessary(r, isCurrent)
         IN /\ UseFollows(u) /\ u.use = r.use /\ u.given = r.given
            /\ (r.refused => u.refused)
            /\ u.status # "needed"
            /\ (surfRemote /\ ~u.refused => u.status = "prepared")
            /\ (surfRemote /\ surfSingle => u.status = "prepared")
            /\ (r.status \in {"needed", "prepared"} => u.status = "prepared")
            /\ (surfRemote \/ u.status = IF r.status = "needed" THEN "prepared"
                                         ELSE r.status)
<1>1. CASE ~surfRemote
  BY <1>1, LatchFollows DEF UpdateIfNecessary
<1>2. CASE surfRemote
  <2> DEFINE r1 == EnsureAttached(r, isCurrent)
             r2 == IF r1.status = "none" THEN Prepare(r1, isCurrent) ELSE r1
             r3 == NotifyUse(r2, isCurrent)
  <2>1. /\ UseFollows(r1) /\ r1.status = r.status /\ r1.use = r.use
        /\ r1.given = r.given /\ (r.refused => r1.refused)
    BY AttachedFollows
  <2>2. /\ UseFollows(r2) /\ r2.use = r.use /\ r2.given = r.given
        /\ (r.refused => r2.refused)
        /\ (IF r.status = "none"
            THEN r2.status = IF surfSingle THEN "prepared" ELSE "might"
            ELSE r2.status = r.status)
    <3> HIDE DEF r1
    <3>1. CASE r1.status = "none"
      BY <2>1, <3>1, PreparedFollows
    <3>2. CASE r1.status # "none"
      BY <2>1, <3>2
    <3> QED
      BY <3>1, <3>2
  <2>3. PreparedItself(r, isCurrent) = r3
    BY DEF PreparedItself, NotifyUse
  <2>4. /\ UseFollows(r3) /\ r3.use = r.use /\ r3.given = r.given
        /\ (r.refused => r3.refused)
        /\ (r3.status = "might" => r3.refused)
        /\ (r2.status # "might" => r3.status = r2.status)
        /\ (r2.status = "might" => r3.status \in {"might", "needed"})
    <3> HIDE DEF r2
    <3> QED
      BY <2>2, NotifiedFollows
  <2>5. /\ r.status \in Statuses /\ r2.status \in Statuses
        /\ r3.status \in Statuses
        /\ (surfSingle => r.status \in {"none", "prepared"})
    BY <2>2, <2>4 DEF UseFollows, SurfaceHostRecords
  <2>6. UpdateIfNecessary(r, isCurrent) = Latched(r3)
    BY <1>2, <2>3 DEF UpdateIfNecessary
  <2> HIDE DEF r3, r2
  <2>7. /\ UseFollows(Latched(r3)) /\ Latched(r3).use = r3.use
        /\ Latched(r3).given = r3.given /\ Latched(r3).refused = r3.refused
        /\ Latched(r3).status =
             IF r3.status = "needed" THEN "prepared" ELSE r3.status
    BY <2>4, LatchFollows
  <2> QED
    BY <1>2, <2>2, <2>4, <2>5, <2>6, <2>7 DEF Statuses
<1> QED
  BY <1>1, <1>2 DEF SurfaceInv

(* NotifyNotUsed takes the frame if it was never drawn.                    *)
LEMMA GivenUpIsOver ==
  ASSUME SurfaceInv, NEW r, UseIsConsistent(r), r.use = "used",
         NEW isCurrent \in BOOLEAN
  PROVE  UseIsConsistent(GivenUp(r, isCurrent))
<1> DEFINE u == IF surfRemote THEN UpdateIfNecessary(r, isCurrent) ELSE r
<1>1. /\ UseFollows(u)
      /\ (surfSingle => u.status = "prepared")
  BY UpdatedFollows DEF UseIsConsistent, SurfaceInv
<1>2. GivenUp(r, isCurrent) =
        [LastUpdate(u) EXCEPT !.status = "none", !.use = "over",
                              !.given = FALSE]
  BY DEF GivenUp
<1> HIDE DEF u
<1>3. /\ LastUpdate(u) \in SurfaceHostRecords
      /\ LastUpdate(u).notified = u.notified
      /\ LastUpdate(u).updates =
           IF u.status \in {"needed", "prepared"} THEN 1 ELSE 0
  <2>1. CASE ~surfSingle /\ u.status = "needed"
    <3>1. u.updates = 0
      BY <1>1, <2>1 DEF UseFollows
    <3>2. /\ Latch(u) \in SurfaceHostRecords
          /\ Latch(u) = [u EXCEPT !.updates = 1]
      BY <1>1, <3>1, LatchedOnce
    <3> QED
      BY <1>1, <2>1, <3>2 DEF LastUpdate, UseFollows, SurfaceHostRecords
  <2>2. CASE ~(~surfSingle /\ u.status = "needed")
    BY <1>1, <2>2 DEF LastUpdate, UseFollows
  <2> QED
    BY <2>1, <2>2
<1>4. (surfSingle \/ u.notified) => u.status \in {"needed", "prepared"}
  BY <1>1 DEF UseFollows
<1> DEFINE g == GivenUp(r, isCurrent)
<1>5. /\ g \in SurfaceHostRecords /\ g.status = "none" /\ g.use = "over"
      /\ g.given = FALSE /\ g.notified = u.notified
      /\ g.updates = IF u.status \in {"needed", "prepared"} THEN 1 ELSE 0
  BY <1>2, <1>3 DEF SurfaceHostRecords, Statuses
<1> HIDE DEF g
<1>6. UseIsConsistent(g)
  BY <1>1, <1>4, <1>5 DEF UseIsConsistent
<1> QED
  BY <1>6 DEF g

(* No host is used at the start.                                            *)
LEMMA SurfaceInitInv == SurfaceInit => SurfaceInv
<1> SUFFICES ASSUME SurfaceInit PROVE SurfaceInv
  OBVIOUS
<1>1. UseIsConsistent(NewHost)
  <2>1. /\ NewHost \in SurfaceHostRecords /\ NewHost.status = "none"
        /\ NewHost.updates = 0 /\ NewHost.use = "unused"
        /\ NewHost.notified = FALSE /\ NewHost.given = FALSE
    BY UpdateCounts DEF NewHost, SurfaceHostRecords, Statuses
  <2> QED
    BY <2>1 DEF UseIsConsistent, UseFollows
<1> QED
  BY <1>1 DEF SurfaceInit, SurfaceInv

(* A call replaces one host by a consistent one.                           *)
LEMMA BecomeHostInv ==
  ASSUME SurfaceInv, NEW h \in DOMAIN surfHosts, NEW r, UseIsConsistent(r),
         BecomeHost(h, r), UNCHANGED <<surfSingle, surfRemote>>,
         surfHandling' \in BOOLEAN, surfCrashed' \in BOOLEAN
  PROVE  SurfaceInv'
<1>1. /\ surfHosts' = [k \in DOMAIN surfHosts |->
                         IF k = h THEN r ELSE surfHosts[k]]
  BY DEF BecomeHost, SurfaceInv
<1>2. ASSUME NEW k \in DOMAIN surfHosts'
      PROVE  UseIsConsistent(surfHosts'[k])
  BY <1>1 DEF SurfaceInv
<1>3. ASSUME NEW k \in DOMAIN surfHosts'
      PROVE  UseIsConsistent(surfHosts[k])'
  BY <1>2 DEF UseIsConsistent, UseFollows
<1> QED
  BY <1>1, <1>3 DEF SurfaceInv

(* A step changes one host, along the lemmas above, or the GL error state.  *)
LEMMA SurfaceStepInv == SurfaceInv /\ [SurfaceNext]_surfVars => SurfaceInv'
<1> SUFFICES ASSUME SurfaceInv, [SurfaceNext]_surfVars PROVE SurfaceInv'
  OBVIOUS
<1>1. CASE UNCHANGED surfVars
  BY <1>1 DEF surfVars, SurfaceInv, UseIsConsistent, UseFollows
<1>2. CASE SurfaceError
  BY <1>2 DEF SurfaceError, SameKind, SurfaceInv, UseIsConsistent, UseFollows
<1> SUFFICES ASSUME NEW h \in DOMAIN surfHosts,
                    \/ SurfacePrepareForUse(h) \/ SurfaceNotifyForUse(h)
                    \/ SurfaceLock(h) \/ SurfaceMapPlane(h)
                    \/ SurfaceNotifyNotUsed(h)
             PROVE  SurfaceInv'
  BY <1>1, <1>2 DEF SurfaceNext
<1> DEFINE host == surfHosts[h]
<1>3. UseIsConsistent(host) /\ surfHandling \in BOOLEAN
        /\ surfCrashed \in BOOLEAN /\ surfSingle \in BOOLEAN
        /\ surfRemote \in BOOLEAN
  BY DEF SurfaceInv
<1>4. CASE SurfacePrepareForUse(h)
  <2> DEFINE r == [host EXCEPT !.use = "used", !.updates = 0,
                               !.notified = FALSE, !.refused = FALSE]
  <2>1. PICK isCurrent \in BOOLEAN :
          BecomeHost(h, IF surfRemote THEN r ELSE Prepare(r, isCurrent))
    BY <1>4 DEF SurfacePrepareForUse
  <2>2. /\ UseFollows(r) /\ r.status = "none" /\ r.use = "used"
    <3>1. /\ host \in SurfaceHostRecords /\ host.use # "used"
          /\ host.status = "none" /\ ~host.given
      BY <1>3, <1>4 DEF SurfacePrepareForUse, UseIsConsistent, UseFollows,
                        SurfaceHostRecords
    <3>2. /\ r \in SurfaceHostRecords /\ r.use = "used" /\ r.updates = 0
          /\ r.notified = FALSE /\ r.status = "none" /\ ~r.given
      BY <3>1, UpdateCounts DEF SurfaceHostRecords
    <3> QED
      BY <3>2 DEF UseFollows
  <2> HIDE DEF r
  <2>3. UseIsConsistent(IF surfRemote THEN r ELSE Prepare(r, isCurrent))
    BY <2>2, PreparedFollows DEF UseIsConsistent
  <2> QED
    BY <1>3, <1>4, <2>1, <2>3, BecomeHostInv DEF SurfacePrepareForUse, SameKind
<1>5. CASE SurfaceNotifyForUse(h)
  <2>1. PICK isCurrent \in BOOLEAN : BecomeHost(h, NotifyUse(host, isCurrent))
    BY <1>5 DEF SurfaceNotifyForUse
  <2>2. UseIsConsistent(NotifyUse(host, isCurrent))
    <3>1. UseFollows(host) /\ host.use = "used" /\ ~surfRemote
      BY <1>3, <1>5 DEF SurfaceNotifyForUse, UseIsConsistent
    <3>2. surfSingle => host.status = "prepared"
      BY <1>3, <3>1 DEF UseIsConsistent
    <3>3. LET n == NotifyUse(host, isCurrent)
          IN /\ UseFollows(n) /\ n.use = "used"
             /\ surfSingle => n.status = "prepared"
      BY <3>1, <3>2, NotifiedFollows
    <3> QED
      BY <3>3 DEF UseIsConsistent
  <2> QED
    BY <1>3, <1>5, <2>1, <2>2, BecomeHostInv DEF SurfaceNotifyForUse, SameKind
<1>6. CASE SurfaceLock(h)
  <2>1. PICK attaches \in BOOLEAN, isCurrent \in BOOLEAN :
          LET r == IF surfRemote THEN EnsureAttached(host, attaches) ELSE host
              ok == r.gl /\ isCurrent /\ r.attached
          IN BecomeHost(h, IF ok THEN [UpdateIfNecessary(r, attaches)
                                         EXCEPT !.given = TRUE]
                           ELSE [r EXCEPT !.given = FALSE])
    BY <1>6 DEF SurfaceLock
  <2> DEFINE r == IF surfRemote THEN EnsureAttached(host, attaches) ELSE host
             u == UpdateIfNecessary(r, attaches)
             g == [u EXCEPT !.given = TRUE]
             n == [r EXCEPT !.given = FALSE]
  <2>2. /\ UseFollows(r) /\ r.use = "used" /\ r.status = host.status
    BY <1>3, <1>6, AttachedFollows DEF SurfaceLock, UseIsConsistent
  <2>3. /\ UseFollows(u) /\ u.use = "used"
        /\ (surfRemote /\ ~u.refused => u.status = "prepared")
        /\ (~surfRemote => u.status = "prepared")
    <3> HIDE DEF r
    <3> QED
      BY <1>6, <2>2, UpdatedFollows DEF SurfaceLock
  <2>4. UseIsConsistent(n)
    <3>1. surfSingle /\ ~surfRemote => r.status = "prepared"
      BY <1>3, <1>6, <2>2 DEF UseIsConsistent, SurfaceLock
    <3> HIDE DEF r
    <3> QED
      BY <2>2, <3>1 DEF UseIsConsistent, UseFollows, SurfaceHostRecords
  <2>5. UseIsConsistent(g)
    <3> HIDE DEF u
    <3> QED
      BY <1>3, <2>3 DEF UseIsConsistent, UseFollows, SurfaceHostRecords
  <2>6. BecomeHost(h, g) \/ BecomeHost(h, n)
    BY <2>1
  <2> HIDE DEF g, n
  <2> QED
    BY <1>3, <1>6, <2>4, <2>5, <2>6, BecomeHostInv DEF SurfaceLock, SameKind
<1>7. CASE SurfaceMapPlane(h)
  <2>1. PICK attaches \in BOOLEAN, read \in BOOLEAN :
          LET r == UpdateIfNecessary(host, attaches)
          IN \/ BecomeHost(h, [r EXCEPT !.gl = TRUE, !.given = read])
             \/ BecomeHost(h, [r EXCEPT !.given = TRUE])
    BY <1>7 DEF SurfaceMapPlane
  <2> DEFINE u == UpdateIfNecessary(host, attaches)
             m == [u EXCEPT !.gl = TRUE, !.given = read]
             g == [u EXCEPT !.given = TRUE]
  <2>2. UseFollows(host) /\ host.use = "used"
    BY <1>3, <1>7 DEF SurfaceMapPlane, UseIsConsistent
  <2>3. /\ UseFollows(u) /\ u.use = "used"
        /\ u.refused \/ u.status = "prepared"
        /\ surfSingle /\ ~surfRemote => u.status = "prepared"
    <3>1. /\ UseFollows(u) /\ u.use = host.use
          /\ host.refused => u.refused
          /\ (surfRemote /\ ~u.refused => u.status = "prepared")
          /\ (host.status \in {"needed", "prepared"} => u.status = "prepared")
      <4> HIDE DEF u, host
      <4> QED
        BY <2>2, UpdatedFollows DEF u
    <3>2. /\ surfRemote \/ host.refused \/ host.status \in {"needed", "prepared"}
          /\ surfSingle /\ ~surfRemote => host.status = "prepared"
      BY <1>3, <1>7, <2>2 DEF SurfaceMapPlane, UseIsConsistent
    <3> HIDE DEF u, host
    <3>3. u.refused \/ u.status = "prepared"
      BY <3>1, <3>2
    <3>4. surfSingle /\ ~surfRemote => u.status = "prepared"
      BY <3>1, <3>2
    <3> QED
      BY <2>2, <3>1, <3>3, <3>4
  <2> HIDE DEF u
  <2>4. UseIsConsistent(m)
    BY <2>3 DEF UseIsConsistent, UseFollows, SurfaceHostRecords
  <2>5. UseIsConsistent(g)
    BY <2>3 DEF UseIsConsistent, UseFollows, SurfaceHostRecords
  <2>6. BecomeHost(h, m) \/ BecomeHost(h, g)
    BY <2>1 DEF u
  <2> HIDE DEF m, g
  <2> QED
    BY <1>3, <1>7, <2>4, <2>5, <2>6, BecomeHostInv
       DEF SurfaceMapPlane, SameKind
<1>8. CASE SurfaceNotifyNotUsed(h)
  <2>1. PICK isCurrent \in BOOLEAN : BecomeHost(h, GivenUp(host, isCurrent))
    BY <1>8 DEF SurfaceNotifyNotUsed
  <2>2. UseIsConsistent(GivenUp(host, isCurrent))
    BY <1>3, <1>8, GivenUpIsOver DEF SurfaceNotifyNotUsed
  <2>3. surfCrashed' \in BOOLEAN
    BY <1>8 DEF SurfaceNotifyNotUsed
  <2> QED
    BY <1>3, <1>8, <2>1, <2>2, <2>3, BecomeHostInv
       DEF SurfaceNotifyNotUsed, SameKind
<1> QED
  BY <1>4, <1>5, <1>6, <1>7, <1>8

(* It is enough for the property of the run.                                *)
LEMMA SurfaceInvConsistent == SurfaceInv => SurfacesConsistent
<1> SUFFICES ASSUME SurfaceInv PROVE SurfacesConsistent
  OBVIOUS
<1>1. SurfaceTypeOK
  BY DEF SurfaceInv, SurfaceTypeOK, UseIsConsistent, UseFollows,
         SurfaceHostRecords
<1>2. ASSUME NEW h \in DOMAIN surfHosts
      PROVE  /\ surfHosts[h].updates <= 1
             /\ surfHosts[h].use = "over"
                  /\ (surfSingle \/ surfHosts[h].notified) =>
                  surfHosts[h].updates = 1
             /\ surfHosts[h].given /\ ~surfHosts[h].refused =>
                  surfHosts[h].updates = 1
  <2>1. UseIsConsistent(surfHosts[h])
    BY DEF SurfaceInv
  <2> QED
    BY <2>1 DEF UseIsConsistent, UseFollows, SurfaceHostRecords
<1> QED
  BY <1>1, <1>2 DEF SurfacesConsistent, UpdatedOnce, SkippedFramesAreTaken,
                    GivenFramesAreTaken

-----------------------------------------------------------------------------
(* The buffers of a widget                                                  *)

(* The values of what a frame draws to.                                     *)
BufferRecords ==
  [dt : BOOLEAN, surface : Nat, mapped : {"none", "bits", "surface"},
   region : SUBSET Nat,
   framebuffer : {"none", "bits", "surface", "temporary"},
   drawing : BOOLEAN, given : SUBSET Nat, locked : BOOLEAN]

(* The buffers of a frame of this size.                                    *)
BufferOK(b, size) ==
  /\ b \in BufferRecords
  /\ b.drawing <=> b.dt
  /\ b.dt <=> b.mapped # "none"
  /\ b.dt => b.given = b.region /\ b.region # {}
  /\ b.framebuffer \in {"bits", "surface"} => b.mapped = b.framebuffer
  /\ b.locked <=> b.mapped = "bits"
  /\ b.region \subseteq 1 .. size

(* The buffers are consistent at every point of a frame, and a frame that is*)
(* over holds none of them. The size is that of the frame's beginning.      *)
WidgetInv ==
  /\ BufferOK(Current, mRenderWidgetSize)
  /\ mRenderWidgetSize \in Nat
  /\ framePc \in {"idle", "begun", "composited"}
  /\ IF framePc = "idle" THEN ~mDT /\ mDirtyRegion = {}
     ELSE mRenderWidgetSize # 0
  /\ widget \in [size : WidgetSizes, drawing : BOOLEAN, region : SUBSET Nat,
                 locked : BOOLEAN]

(* The bounding box of a region lies where the region does.                 *)
LEMMA BoundsFit ==
  ASSUME NEW size \in Nat, NEW region \in SUBSET (1 .. size)
  PROVE  /\ Bounds(region) \subseteq 1 .. size
         /\ Cardinality(Bounds(region)) \in Nat
<1>1. Bounds(region) \subseteq 1 .. size
  BY DEF Bounds
<1>2. IsFiniteSet(Bounds(region))
  <2>1. IsFiniteSet(1 .. 8)
    <3>1. 1 \in Int /\ 8 \in Int
      OBVIOUS
    <3> QED
      BY <3>1, FS_Interval, Zenon
  <2>2. Bounds(region) \subseteq 1 .. 8
    BY DEF Bounds
  <2> QED
    BY <2>1, <2>2, FS_Subset
<1> QED
  BY <1>1, <1>2, FS_CardinalityType

(* CommitMappedBuffer gives everything back, to whom it was taken from.     *)
LEMMA CommittedOK ==
  ASSUME NEW b, NEW size \in Nat, BufferOK(b, size)
  PROVE  LET c == CommitMappedBuffer(b)
         IN BufferOK(c, size) /\ ~c.dt /\ c.region = {}
<1>1. CASE ~b.dt
  BY <1>1 DEF CommitMappedBuffer, BufferOK, BufferRecords
<1>2. CASE b.dt
  BY <1>2 DEF CommitMappedBuffer, BufferOK, BufferRecords, ClearMappedBuffer,
              EndRemoteDrawing, FramebufferAfterCommit
<1> QED
  BY <1>1, <1>2

(* AllocateMappedBuffer takes what it can get and gives back what it cannot *)
(* use, whatever the widget answers.                                        *)
LEMMA AllocatedOK ==
  ASSUME NEW b, NEW size \in Nat, BufferOK(b, size), ~b.dt, b.region # {},
         NEW answer \in Answers
  PROVE  LET a == AllocateMappedBuffer(b, answer)
         IN /\ a.framebuffer \in {"bits", "surface"} => a.mapped = a.framebuffer
            /\ BufferOK(a, size)
            /\ answer \in {"refused", "unmapped"} => ~a.dt
<1>1. Cardinality(Bounds(b.region)) \in Nat
  BY BoundsFit DEF BufferOK
<1>2. CASE answer = "refused"
  BY <1>2 DEF AllocateMappedBuffer, BufferOK
<1>3. CASE answer = "unmapped"
  BY <1>1, <1>3 DEF AllocateMappedBuffer, ClearMappedBuffer, EndRemoteDrawing,
                    BufferOK, BufferRecords
<1>4. CASE answer = "bits"
  BY <1>1, <1>4 DEF AllocateMappedBuffer, BufferOK, BufferRecords
<1>5. CASE answer = "surface"
  BY <1>1, <1>5 DEF AllocateMappedBuffer, BufferOK, BufferRecords
<1> QED
  BY <1>2, <1>3, <1>4, <1>5 DEF Answers

(* Nothing is left of the buffer of an earlier call in the frame.           *)
LEMMA LeftOverOK ==
  ASSUME WidgetInv, framePc # "idle"
  PROVE  BufferOK(LeftOver(Current), mRenderWidgetSize) /\ ~LeftOver(Current).dt
<1> DEFINE b == Current
           c == CommitMappedBuffer(b)
<1>1. BufferOK(b, mRenderWidgetSize) /\ mRenderWidgetSize \in Nat
        /\ GetBufferSize = mRenderWidgetSize
  BY DEF WidgetInv, GetBufferSize
<1> HIDE DEF b
<1>2. BufferOK(c, mRenderWidgetSize) /\ ~c.dt
  BY <1>1, CommittedOK
<1> HIDE DEF c
<1>3. BufferOK([c EXCEPT !.region = WholeWindow(mRenderWidgetSize)],
               mRenderWidgetSize)
      /\ ~[c EXCEPT !.region = WholeWindow(mRenderWidgetSize)].dt
  BY <1>1, <1>2 DEF BufferOK, BufferRecords, WholeWindow
<1> QED
  BY <1>1, <1>2, <1>3 DEF LeftOver, b, c

(* StartCompositing, from any point of a frame, for any rects and any       *)
(* answer.                                                                  *)
LEMMA StartedOK ==
  ASSUME WidgetInv, framePc # "idle", NEW rects \in SUBSET (1 .. 3),
         NEW answer \in Answers
  PROVE  BufferOK(StartCompositingFrom(Current, rects, answer),
                  mRenderWidgetSize)
<1> DEFINE l == LeftOver(Current)
           size == mRenderWidgetSize
           dirty == [l EXCEPT !.region = DirtyAfter(l, rects)]
           after == AllocateMappedBuffer(dirty, answer)
<1>1. BufferOK(l, size) /\ ~l.dt /\ size \in Nat
  BY LeftOverOK DEF WidgetInv
<1> HIDE DEF l
<1>2. DirtyAfter(l, rects) \subseteq 1 .. size
  <2>1. l.region \subseteq 1 .. size
    BY <1>1 DEF BufferOK
  <2>2. Bounds(l.region) \subseteq 1 .. size
    BY <1>1, <2>1, BoundsFit
  <2> QED
    BY <2>1, <2>2 DEF DirtyAfter
<1>3. BufferOK(dirty, size) /\ ~dirty.dt
  BY <1>1, <1>2 DEF BufferOK, BufferRecords
<1> HIDE DEF dirty
<1>4. ASSUME NEW b, BufferOK(b, size), ~b.dt
      PROVE  BufferOK([b EXCEPT !.framebuffer = "temporary"], size)
  BY <1>4 DEF BufferOK, BufferRecords
<1>5. dirty.region # {} => /\ BufferOK(after, size)
                           /\ answer \in {"refused", "unmapped"} => ~after.dt
  BY <1>1, <1>3, AllocatedOK
<1>6. StartCompositingFrom(Current, rects, answer) =
        IF dirty.region = {} \/ answer \in {"refused", "unmapped"}
        THEN [(IF dirty.region = {} THEN dirty ELSE after)
                EXCEPT !.framebuffer = "temporary"]
        ELSE after
  BY DEF StartCompositingFrom, dirty, l
<1> HIDE DEF after
<1> QED
  BY <1>3, <1>4, <1>5, <1>6

(* What the buffers become is what the members are.                        *)
LEMMA BecomeOK ==
  ASSUME WidgetInv, NEW b, NEW size \in Nat, BufferOK(b, size), Become(b),
         mRenderWidgetSize' = size
  PROVE  /\ BufferOK(Current, mRenderWidgetSize)'
         /\ mDT' = b.dt /\ mDirtyRegion' = b.region
         /\ widget' \in [size : WidgetSizes, drawing : BOOLEAN,
                         region : SUBSET Nat, locked : BOOLEAN]
<1>1. widget' = [widget EXCEPT !.drawing = b.drawing, !.region = b.given,
                               !.locked = b.locked]
  BY DEF Become
<1>2. /\ widget' \in [size : WidgetSizes, drawing : BOOLEAN,
                      region : SUBSET Nat, locked : BOOLEAN]
      /\ widget'.drawing = b.drawing /\ widget'.region = b.given
      /\ widget'.locked = b.locked
  BY <1>1 DEF WidgetInv, BufferOK, BufferRecords
<1>3. Current' = b
  BY <1>2 DEF Current, Become, BufferOK, BufferRecords
<1>4. BufferOK(Current', mRenderWidgetSize')
  BY <1>3
<1> QED
  BY <1>2, <1>4 DEF Become, BufferOK, BufferRecords

(* Nothing is drawn to at the start.                                        *)
LEMMA WidgetInitInv == WidgetInit => WidgetInv
<1> SUFFICES ASSUME WidgetInit PROVE WidgetInv
  OBVIOUS
<1>1. /\ widget \in [size : WidgetSizes, drawing : BOOLEAN,
                     region : SUBSET Nat, locked : BOOLEAN]
      /\ widget.drawing = FALSE /\ widget.region = {}
      /\ widget.locked = FALSE
  BY DEF WidgetInit
<1>2. Current \in BufferRecords
  BY <1>1 DEF WidgetInit, Current, BufferRecords
<1>3. BufferOK(Current, 0)
  BY <1>1, <1>2 DEF WidgetInit, BufferOK, Current
<1> QED
  BY <1>1, <1>3 DEF WidgetInit, WidgetInv

(* No call of the compositor leaves it, nor does the widget when it changes *)
(* in the middle of a frame.                                                *)
LEMMA WidgetStepInv == WidgetInv /\ [WidgetNext]_widgetVars => WidgetInv'
<1> SUFFICES ASSUME WidgetInv, [WidgetNext]_widgetVars PROVE WidgetInv'
  OBVIOUS
<1>1. CASE \/ UNCHANGED widgetVars \/ RequestFullRender \/ WidgetResume
  <2>1. UNCHANGED <<mRenderWidgetSize, mDT, mSurface, mMappedData,
                    mDirtyRegion, framebuffer, widget, framePc>>
    BY <1>1 DEF widgetVars, RequestFullRender, WidgetResume
  <2> QED
    BY <2>1 DEF WidgetInv, Current, BufferOK
<1>2. CASE WidgetBeginFrame
  <2>1. /\ BufferOK(Current, mRenderWidgetSize) /\ ~mDT
        /\ widget \in [size : WidgetSizes, drawing : BOOLEAN,
                       region : SUBSET Nat, locked : BOOLEAN]
    BY <1>2 DEF WidgetInv, WidgetBeginFrame
  <2>2. widget.size \in Nat \ {0}
    BY <2>1, WidgetSizesAssumption
  <2>3. BufferOK(Current', widget.size)
    <3>1. /\ mDT = FALSE /\ mMappedData = "none" /\ mSurface \in Nat
          /\ framebuffer \in {"none", "temporary"}
          /\ widget.drawing = FALSE /\ widget.locked = FALSE
          /\ widget.region \in SUBSET Nat
      <4>1. /\ Current.dt = mDT /\ Current.mapped = mMappedData
            /\ Current.surface = mSurface
            /\ Current.framebuffer = framebuffer
            /\ Current.drawing = widget.drawing
            /\ Current.given = widget.region
            /\ Current.locked = widget.locked
        BY DEF Current
      <4> QED
        BY <2>1, <4>1 DEF BufferOK, BufferRecords
    <3>2. Current' = [dt |-> FALSE, surface |-> mSurface, mapped |-> "none",
                      region |-> 1 .. widget.size,
                      framebuffer |-> framebuffer,
                      drawing |-> FALSE, given |-> widget.region,
                      locked |-> FALSE]
      BY <1>2, <3>1 DEF WidgetBeginFrame, Current, WholeWindow
    <3>3. Current' \in BufferRecords
      BY <2>2, <3>1, <3>2 DEF BufferRecords
    <3> QED
      BY <2>2, <3>1, <3>2, <3>3 DEF BufferOK
  <2> QED
    BY <1>2, <2>1, <2>2, <2>3 DEF WidgetInv, WidgetBeginFrame
<1>3. CASE WidgetEndOrCancelFrame
  <2>1. LET c == CommitMappedBuffer(Current)
        IN BufferOK(c, 0) /\ ~c.dt /\ c.region = {}
    BY CommittedOK DEF WidgetInv, BufferOK
  <2>2. /\ BufferOK(Current, mRenderWidgetSize)' /\ ~mDT' /\ mDirtyRegion' = {}
        /\ widget' \in [size : WidgetSizes, drawing : BOOLEAN,
                        region : SUBSET Nat, locked : BOOLEAN]
    BY <1>3, <2>1, BecomeOK DEF WidgetEndOrCancelFrame
  <2> QED
    BY <1>3, <2>2 DEF WidgetInv, WidgetEndOrCancelFrame
<1>4. CASE ResizeWidget
  <2>1. PICK z \in WidgetSizes : widget' = [widget EXCEPT !.size = z]
    BY <1>4 DEF ResizeWidget
  <2>2. /\ widget' \in [size : WidgetSizes, drawing : BOOLEAN,
                        region : SUBSET Nat, locked : BOOLEAN]
        /\ widget'.drawing = widget.drawing
        /\ widget'.region = widget.region /\ widget'.locked = widget.locked
    BY <2>1 DEF WidgetInv
  <2>3. Current' = Current /\ UNCHANGED <<mRenderWidgetSize, framePc, mDT,
                                          mDirtyRegion>>
    BY <1>4, <2>2 DEF ResizeWidget, Current
  <2>4. BufferOK(Current', mRenderWidgetSize')
    BY <2>3 DEF WidgetInv
  <2> QED
    BY <2>2, <2>3, <2>4 DEF WidgetInv
<1>5. ASSUME NEW rects \in SUBSET (1 .. 3), NEW answer \in Answers,
             WidgetStartCompositing(rects, answer)
      PROVE  WidgetInv'
  <2>1. framePc # "idle" /\ UNCHANGED mRenderWidgetSize
    BY <1>5 DEF WidgetStartCompositing
  <2>2. BufferOK(StartCompositingFrom(Current, rects, answer),
                 mRenderWidgetSize)
    BY <2>1, StartedOK
  <2>3. /\ BufferOK(Current, mRenderWidgetSize)'
        /\ widget' \in [size : WidgetSizes, drawing : BOOLEAN,
                        region : SUBSET Nat, locked : BOOLEAN]
    BY <1>5, <2>1, <2>2, BecomeOK DEF WidgetStartCompositing, WidgetInv
  <2> QED
    BY <1>5, <2>1, <2>3 DEF WidgetInv, WidgetStartCompositing
<1> QED
  BY <1>1, <1>2, <1>3, <1>4, <1>5 DEF WidgetNext

(* It is enough for the property of the run.                                *)
LEMMA WidgetInvConsistent == WidgetInv => WidgetConsistent
<1> SUFFICES ASSUME WidgetInv PROVE WidgetConsistent
  OBVIOUS
<1>1. /\ Current.dt = mDT /\ Current.mapped = mMappedData
      /\ Current.region = mDirtyRegion /\ Current.framebuffer = framebuffer
      /\ Current.drawing = widget.drawing /\ Current.given = widget.region
      /\ Current.locked = widget.locked
  BY DEF Current
<1>2. /\ Current.drawing <=> Current.dt
      /\ Current.dt => Current.given = Current.region /\ Current.region # {}
      /\ Current.framebuffer \in {"bits", "surface"} =>
           Current.mapped = Current.framebuffer
      /\ Current.locked <=> Current.mapped = "bits"
      /\ Current.region \subseteq 1 .. mRenderWidgetSize
  BY DEF WidgetInv, BufferOK
<1> QED
  BY <1>1, <1>2 DEF WidgetConsistent, DrawingKeepsItsRegion,
                    FramebufferIsMapped, RegionFitsTheFrame

-----------------------------------------------------------------------------
(* Hosts of Direct3D textures                                               *)

(* The values of a host.                                                    *)
D3DHosts ==
  [gl : Devices, handle : Devices, context : 0 .. 2,
   textures : [SharedTextures -> Devices], mutexes : BOOLEAN,
   locked : BOOLEAN, swLocked : BOOLEAN, cpu : [SharedTextures -> BOOLEAN],
   data : [SharedTextures -> 0 .. MaxWrites + 1]]

(* Holds whatever failed before.                                           *)
D3DShape ==
  /\ D3DTypeOK
  /\ d3dHost.swLocked <=> d3dFrame.phase = "swgl" /\ d3dFrame.given
  /\ d3dFrame.phase = "mapping" =>
       ~d3dFrame.given /\ d3dFrame.next \in SharedTextures
  /\ d3dFrame.phase = "gl" => d3dHost.gl = d3dDevice
  /\ d3dFrame.since <= d3dWritten

(* A host with GL textures has them and their mutexes on the device of its *)
(* context; the textures of a DXGI host come with their mutex.             *)
HandlesAreWhole(h) ==
  /\ h.handle # 0 => /\ h.handle = h.gl /\ (h.mutexes <=> d3dKeyed)
                     /\ \A t \in SharedTextures : h.textures[t] = h.handle
  /\ d3dKind = "dxgi" /\ h.textures[1] # 0 => (h.mutexes <=> d3dKeyed)

(* Mutexes are owned by a frame that is locked, all of them.               *)
MutexesGoWithTheLock ==
  /\ d3dHost.locked => d3dFrame.phase = "gl" /\ d3dHost.handle # 0
  /\ d3dOwned # {} => d3dHost.locked /\ d3dHost.mutexes
  /\ d3dHost.locked /\ d3dHost.mutexes => d3dOwned = SharedTextures
  /\ d3dFrame.phase = "gl" /\ d3dFrame.given =>
       d3dHost.handle # 0 /\ d3dHost.locked

(* The planes mapped so far are those before the next one.                 *)
PlanesAreMappedInTurn ==
  \A t \in SharedTextures :
    /\ d3dHost.cpu[t] <=>
         \/ d3dFrame.phase = "mapping" /\ t < d3dFrame.next
         \/ d3dFrame.phase = "swgl" /\ d3dFrame.given
    /\ d3dHost.cpu[t] => d3dHost.data[t] >= d3dFrame.since

(* What holds always, and what holds until one of the failures that the     *)
(* hosts do not recover from.                                               *)
D3DInv ==
  /\ D3DShape
  /\ d3dTrouble = {} =>
       HandlesAreWhole(d3dHost) /\ MutexesGoWithTheLock /\ PlanesAreMappedInTurn

(* The planes of either kind of host are numbered from one.                 *)
LEMMA PlanesOfAKind ==
  /\ SharedTextures = IF d3dKind = "dxgi" THEN {1} ELSE 1 .. 3
  /\ LastPlane = IF d3dKind = "dxgi" THEN 1 ELSE 3
  /\ SharedTextures = 1 .. LastPlane
<1>1. SharedTextures = IF d3dKind = "dxgi" THEN {1} ELSE 1 .. 3
  BY DEF SharedTextures
<1>2. 1 \in Int /\ 3 \in Int
  OBVIOUS
<1>3. Cardinality(1 .. 3) = 3
  <2>1. Cardinality(1 .. 3) = IF 1 > 3 THEN 0 ELSE 3 - 1 + 1
    BY <1>2, FS_Interval, Zenon
  <2> QED
    BY <2>1
<1>4. Cardinality({1}) = 1
  BY FS_Singleton
<1>5. LastPlane = IF d3dKind = "dxgi" THEN 1 ELSE 3
  BY <1>1, <1>3, <1>4 DEF LastPlane
<1>6. 1 .. 1 = {1}
  OBVIOUS
<1> QED
  BY <1>1, <1>5, <1>6

(* What DeleteTextureHandle leaves.                                        *)
LEMMA DeletedFacts ==
  ASSUME NEW h \in D3DHosts, NEW isCurrent \in BOOLEAN
  PROVE  LET d == Deleted(h, isCurrent)
         IN /\ d \in D3DHosts
            /\ d.gl = h.gl /\ d.locked = h.locked /\ d.swLocked = h.swLocked
            /\ d.cpu = h.cpu /\ d.data = h.data
            /\ \/ d = h
               \/ /\ d.handle = 0 /\ d.mutexes = FALSE
                  /\ d.textures = [t \in SharedTextures |-> 0]
            /\ (h.handle # 0 /\ h.gl # 0 /\ (isCurrent \/ d3dKind = "dxgi")
                  => d.handle = 0)
            /\ (HandlesAreWhole(h) => HandlesAreWhole(d))
<1> DEFINE e == [h EXCEPT !.handle = 0,
                          !.textures = [t \in SharedTextures |-> 0],
                          !.mutexes = FALSE]
<1>1. /\ e \in D3DHosts /\ e.gl = h.gl /\ e.locked = h.locked
      /\ e.swLocked = h.swLocked /\ e.cpu = h.cpu /\ e.data = h.data
      /\ e.handle = 0 /\ e.mutexes = FALSE
      /\ e.textures = [t \in SharedTextures |-> 0]
  <2> DEFINE ts == [t \in SharedTextures |-> 0]
  <2>1. 0 \in Devices /\ ts \in [SharedTextures -> Devices]
    BY D3DHostsAssumption DEF Devices
  <2> HIDE DEF ts
  <2>2. e = [h EXCEPT !.handle = 0, !.textures = ts, !.mutexes = FALSE]
    BY DEF ts
  <2>3. /\ e \in D3DHosts /\ e.gl = h.gl /\ e.locked = h.locked
        /\ e.swLocked = h.swLocked /\ e.cpu = h.cpu /\ e.data = h.data
        /\ e.handle = 0 /\ e.mutexes = FALSE /\ e.textures = ts
    BY <2>1, <2>2 DEF D3DHosts
  <2> QED
    BY <2>3 DEF ts
<1>2. Deleted(h, isCurrent) =
        IF h.handle = 0 \/ h.gl = 0 \/ (d3dKind = "ycbcr" /\ ~isCurrent)
        THEN h ELSE e
  BY DEF Deleted
<1> HIDE DEF e
<1>3. HandlesAreWhole(e)
  <2>1. d3dKind = "dxgi" => 1 \in SharedTextures
    BY DEF SharedTextures
  <2> QED
    BY <1>1, <2>1 DEF HandlesAreWhole
<1>4. CASE h.handle = 0 \/ h.gl = 0 \/ (d3dKind = "ycbcr" /\ ~isCurrent)
  BY <1>2, <1>4
<1>5. CASE ~(h.handle = 0 \/ h.gl = 0 \/ (d3dKind = "ycbcr" /\ ~isCurrent))
  BY <1>1, <1>2, <1>3, <1>5
<1> QED
  BY <1>4, <1>5

(* EnsureD3D11Texture2D, stopped at any plane, touches nothing but the      *)
(* textures; if they were all of one device they still are.                 *)
LEMMA OpenedFacts ==
  ASSUME NEW h \in D3DHosts, d3dDevice \in 1 .. MaxDevices,
         d3dKeyed \in BOOLEAN, d3dKind \in {"dxgi", "ycbcr"},
         NEW k \in 0 .. LastPlane
  PROVE  LET o == Opened(h, k)
         IN /\ o \in D3DHosts
            /\ o.gl = h.gl /\ o.handle = h.handle /\ o.locked = h.locked
            /\ o.swLocked = h.swLocked /\ o.cpu = h.cpu /\ o.data = h.data
            /\ (HandlesAreWhole(h) => HandlesAreWhole(o))
            /\ (HandlesAreWhole(h) /\ IsOpen(o) => (o.mutexes <=> d3dKeyed))
            /\ (h.handle # 0 /\ HandlesAreWhole(h) => o = h)
<1> DEFINE ts == [t \in SharedTextures |->
                    IF t <= k THEN d3dDevice
                    ELSE IF t = k + 1 THEN 0 ELSE h.textures[t]]
           m == IF k = LastPlane THEN d3dKeyed ELSE h.mutexes
           e == [h EXCEPT !.textures = ts, !.mutexes = m]
<1>1. d3dDevice \in Devices /\ 0 \in Devices /\ d3dDevice # 0
  BY D3DHostsAssumption DEF Devices
<1>2. ts \in [SharedTextures -> Devices]
  BY <1>1 DEF D3DHosts
<1>3. m \in BOOLEAN
  BY DEF D3DHosts
<1>4. Opened(h, k) = IF ~Reopens(h) THEN h ELSE e
  BY DEF Opened, D3DHosts
<1>5. /\ e \in D3DHosts
      /\ e.gl = h.gl /\ e.handle = h.handle /\ e.locked = h.locked
      /\ e.swLocked = h.swLocked /\ e.cpu = h.cpu /\ e.data = h.data
      /\ e.textures = ts /\ e.mutexes = m
  <2> HIDE DEF ts, m
  <2> QED
    BY <1>2, <1>3 DEF D3DHosts
<1>6. /\ SharedTextures = 1 .. LastPlane
      /\ LastPlane = IF d3dKind = "dxgi" THEN 1 ELSE 3
  BY PlanesOfAKind
<1>7. HandlesAreWhole(h) /\ Reopens(h) => h.handle = 0
  BY <1>6 DEF HandlesAreWhole, Reopens
<1>8. IsOpen(e) => k = LastPlane
  <2>1. k # LastPlane => k + 1 \in SharedTextures
    BY <1>6
  <2>2. k # LastPlane => ts[k + 1] = 0
    BY <2>1, <1>6
  <2> HIDE DEF ts, e
  <2> QED
    BY <1>1, <1>5, <2>1, <2>2 DEF IsOpen
<1>9. ASSUME HandlesAreWhole(h), Reopens(h)
      PROVE  HandlesAreWhole(e) /\ (IsOpen(e) => (e.mutexes <=> d3dKeyed))
  <2>1. h.handle = 0
    BY <1>7, <1>9
  <2>2. d3dKind = "dxgi" /\ e.textures[1] # 0 => k = LastPlane
    BY <1>5, <1>6
  <2>3. k = LastPlane => m = d3dKeyed
    OBVIOUS
  <2> HIDE DEF e, m, ts
  <2> QED
    BY <1>5, <1>8, <2>1, <2>2, <2>3 DEF HandlesAreWhole
<1>10. ASSUME HandlesAreWhole(h), ~Reopens(h), IsOpen(h)
       PROVE  h.mutexes <=> d3dKeyed
  <2>1. 1 \in SharedTextures /\ h.textures[1] = d3dDevice
    BY <1>6, <1>10 DEF IsOpen
  <2> QED
    BY <1>1, <1>10, <2>1 DEF HandlesAreWhole, Reopens
<1> HIDE DEF e
<1>11. CASE Reopens(h)
  BY <1>4, <1>5, <1>7, <1>9, <1>11
<1>12. CASE ~Reopens(h)
  BY <1>4, <1>10, <1>12
<1> QED
  BY <1>11, <1>12

(* EnsureLockable, with a stream refused or not, changes only the handle and*)
(* what it is of.                                                           *)
LEMMA WrappedFacts ==
  ASSUME NEW h \in D3DHosts, d3dDevice \in 1 .. MaxDevices,
         d3dKeyed \in BOOLEAN, d3dKind \in {"dxgi", "ycbcr"},
         h.gl = d3dDevice, NEW k \in 0 .. LastPlane,
         NEW streams \in BOOLEAN, NEW isCurrent \in BOOLEAN
  PROVE  LET w == Wrapped(h, k, streams, isCurrent)
         IN /\ w \in D3DHosts
            /\ w.gl = h.gl /\ w.locked = h.locked
            /\ w.swLocked = h.swLocked /\ w.cpu = h.cpu /\ w.data = h.data
            /\ (h.handle # 0 => w = h)
            /\ (Lockable(h, k, streams) => w.handle # 0)
            /\ (HandlesAreWhole(h)
                  /\ (Lockable(h, k, streams) \/ w.handle = 0)
                  => HandlesAreWhole(w))
<1> DEFINE o == Opened(h, k)
           made == [o EXCEPT !.handle = d3dDevice]
           d == Deleted(made, isCurrent)
<1>1. CASE h.handle # 0
  BY <1>1 DEF Wrapped
<1>2. CASE h.handle = 0
  <2>1. /\ o \in D3DHosts
        /\ o.gl = h.gl /\ o.handle = 0 /\ o.locked = h.locked
        /\ o.swLocked = h.swLocked /\ o.cpu = h.cpu /\ o.data = h.data
        /\ (HandlesAreWhole(h) => HandlesAreWhole(o))
        /\ (HandlesAreWhole(h) /\ IsOpen(o) => (o.mutexes <=> d3dKeyed))
    BY <1>2, OpenedFacts
  <2>2. Wrapped(h, k, streams, isCurrent) =
          IF \E t \in SharedTextures : o.textures[t] = 0 THEN o
          ELSE IF streams /\ IsOpen(o) THEN made
          ELSE IF d3dKind = "ycbcr" /\ ~IsOpen(o) THEN o ELSE d
    BY <1>2 DEF Wrapped
  <2>3. Lockable(h, k, streams) <=> streams /\ IsOpen(o)
    BY <1>2 DEF Lockable
  <2>4. d3dDevice \in Devices /\ d3dDevice # 0
    BY D3DHostsAssumption DEF Devices
  <2> HIDE DEF o
  <2>5. /\ made \in D3DHosts /\ made.gl = h.gl /\ made.handle = d3dDevice
        /\ made.locked = h.locked /\ made.swLocked = h.swLocked
        /\ made.cpu = h.cpu /\ made.data = h.data
        /\ made.textures = o.textures /\ made.mutexes = o.mutexes
    BY <2>1, <2>4 DEF D3DHosts
  <2>6. HandlesAreWhole(h) /\ IsOpen(o) => HandlesAreWhole(made)
    BY <2>1, <2>5 DEF HandlesAreWhole, IsOpen
  <2> HIDE DEF made
  <2>7. /\ d \in D3DHosts
        /\ d.gl = h.gl /\ d.locked = h.locked /\ d.swLocked = h.swLocked
        /\ d.cpu = h.cpu /\ d.data = h.data
        /\ \/ d = made
           \/ /\ d.handle = 0 /\ d.mutexes = FALSE
              /\ d.textures = [t \in SharedTextures |-> 0]
    BY <2>5, DeletedFacts
  <2> HIDE DEF d
  <2>8. d.handle = 0 => HandlesAreWhole(d)
    <3>1. d3dKind = "dxgi" => 1 \in SharedTextures
      BY DEF SharedTextures
    <3> QED
      BY <2>4, <2>5, <2>7, <3>1 DEF HandlesAreWhole
  <2>9. 1 \in SharedTextures
    BY PlanesOfAKind
  <2>10. CASE \E t \in SharedTextures : o.textures[t] = 0
    <3>1. ~IsOpen(o)
      BY <2>4, <2>10 DEF IsOpen
    <3> QED
      BY <1>2, <2>1, <2>2, <2>3, <2>10, <3>1
  <2>11. CASE ~(\E t \in SharedTextures : o.textures[t] = 0)
              /\ streams /\ IsOpen(o)
    BY <1>2, <2>2, <2>4, <2>5, <2>6, <2>11
  <2>12. CASE ~(\E t \in SharedTextures : o.textures[t] = 0)
              /\ ~(streams /\ IsOpen(o))
    <3>1. CASE d3dKind = "ycbcr" /\ ~IsOpen(o)
      BY <1>2, <2>1, <2>2, <2>3, <2>12, <3>1
    <3>2. CASE ~(d3dKind = "ycbcr" /\ ~IsOpen(o))
      BY <1>2, <2>2, <2>3, <2>7, <2>8, <2>12, <3>2
    <3> QED
      BY <3>1, <3>2
  <2> QED
    BY <2>10, <2>11, <2>12
<1> QED
  BY <1>1, <1>2 DEF D3DHosts

(* The GL context of the host is that of the renderer; what had another    *)
(* one is deleted.                                                         *)
LEMMA SwitchedFacts ==
  ASSUME D3DInv, NEW isCurrent \in BOOLEAN
  PROVE  LET h == Switched(isCurrent)
         IN /\ h \in D3DHosts /\ h.gl = d3dDevice
            /\ h.locked = d3dHost.locked /\ h.swLocked = d3dHost.swLocked
            /\ h.cpu = d3dHost.cpu /\ h.data = d3dHost.data
            /\ (d3dHost.gl = d3dDevice => h = d3dHost)
            /\ (/\ HandlesAreWhole(d3dHost)
                /\ (h.handle # 0 /\ d3dHost.gl # d3dDevice
                      => Stale(d3dHost, isCurrent) = {})
                => HandlesAreWhole(h) /\ (h.handle # 0 => h = d3dHost))
<1> DEFINE d == Deleted(d3dHost, isCurrent)
           e == [d EXCEPT !.gl = d3dDevice]
<1>1. /\ d3dHost \in D3DHosts /\ d3dDevice \in Devices /\ d3dDevice # 0
      /\ d3dKind \in {"dxgi", "ycbcr"}
  BY D3DHostsAssumption DEF D3DInv, D3DShape, D3DTypeOK, D3DHosts, Devices
<1>2. CASE d3dHost.gl = d3dDevice
  BY <1>1, <1>2 DEF Switched
<1>3. CASE d3dHost.gl # d3dDevice
  <2>1. /\ d \in D3DHosts
        /\ d.gl = d3dHost.gl /\ d.locked = d3dHost.locked
        /\ d.swLocked = d3dHost.swLocked
        /\ d.cpu = d3dHost.cpu /\ d.data = d3dHost.data
        /\ \/ d = d3dHost
           \/ /\ d.handle = 0 /\ d.mutexes = FALSE
              /\ d.textures = [t \in SharedTextures |-> 0]
        /\ (d3dHost.handle # 0 /\ d3dHost.gl # 0
              /\ (isCurrent \/ d3dKind = "dxgi") => d.handle = 0)
        /\ (HandlesAreWhole(d3dHost) => HandlesAreWhole(d))
    BY <1>1, DeletedFacts
  <2>2. Switched(isCurrent) = e
    BY <1>3 DEF Switched
  <2> HIDE DEF d
  <2>3. /\ e \in D3DHosts /\ e.gl = d3dDevice
        /\ e.locked = d3dHost.locked /\ e.swLocked = d3dHost.swLocked
        /\ e.cpu = d3dHost.cpu /\ e.data = d3dHost.data
        /\ e.handle = d.handle /\ e.mutexes = d.mutexes
        /\ e.textures = d.textures
    BY <1>1, <2>1 DEF D3DHosts
  <2> HIDE DEF e
  <2>4. ASSUME HandlesAreWhole(d3dHost),
               e.handle # 0 => Stale(d3dHost, isCurrent) = {}
        PROVE  e.handle = 0 /\ HandlesAreWhole(e)
    <3>1. e.handle = 0
      <4> SUFFICES ASSUME e.handle # 0 PROVE FALSE
        OBVIOUS
      <4>1. d3dHost.handle # 0 /\ d3dHost.gl = d3dHost.handle
        BY <2>1, <2>3, <2>4 DEF HandlesAreWhole
      <4>2. isCurrent \/ d3dKind = "dxgi"
        BY <1>1, <2>4, <4>1 DEF Stale
      <4> QED
        BY <2>1, <2>3, <4>1, <4>2
    <3>2. HandlesAreWhole(d)
      BY <2>1, <2>4
    <3> QED
      BY <2>3, <3>1, <3>2 DEF HandlesAreWhole
  <2> QED
    BY <1>3, <2>2, <2>3, <2>4
<1> QED
  BY <1>2, <1>3

(* The host as it is made.                                                  *)
LEMMA D3DInitInv == D3DInit => D3DInv
<1> SUFFICES ASSUME D3DInit PROVE D3DInv
  OBVIOUS
<1> DEFINE ts == [t \in SharedTextures |-> 0]
           cs == [t \in SharedTextures |-> FALSE]
<1>1. /\ ts \in [SharedTextures -> Devices]
      /\ ts \in [SharedTextures -> 0 .. MaxWrites + 1]
      /\ cs \in [SharedTextures -> BOOLEAN]
  BY D3DHostsAssumption DEF Devices
<1>2. \A t \in SharedTextures : ts[t] = 0 /\ ~cs[t]
  OBVIOUS
<1>3. /\ d3dHost = [gl |-> 0, handle |-> 0, context |-> 0, textures |-> ts,
                    mutexes |-> FALSE, locked |-> FALSE, swLocked |-> FALSE,
                    cpu |-> cs, data |-> ts]
      /\ d3dFrame = [phase |-> "none", given |-> FALSE, next |-> 1,
                     since |-> 1]
  BY DEF D3DInit, NoFrame
<1> HIDE DEF ts, cs
<1>4. 0 \in Devices /\ 1 \in 1 .. MaxDevices /\ 1 \in 1 .. MaxWrites + 1
  BY D3DHostsAssumption DEF Devices
<1>5. d3dHost \in D3DHosts
  BY <1>1, <1>3, <1>4 DEF D3DHosts
<1>6. D3DTypeOK
  BY <1>3, <1>4, <1>5 DEF D3DInit, D3DTypeOK, D3DHosts
<1>7. D3DShape
  BY <1>3, <1>6 DEF D3DInit, D3DShape
<1>8. HandlesAreWhole(d3dHost)
  <2>1. d3dKind = "dxgi" => 1 \in SharedTextures
    BY DEF SharedTextures
  <2> QED
    BY <1>2, <1>3, <2>1 DEF HandlesAreWhole
<1>9. MutexesGoWithTheLock /\ PlanesAreMappedInTurn
  BY <1>2, <1>3 DEF D3DInit, MutexesGoWithTheLock, PlanesAreMappedInTurn
<1> QED
  BY <1>7, <1>8, <1>9 DEF D3DInv

(* Lock: the textures are opened, wrapped for the context and their mutexes *)
(* acquired, one by one, until one of these fails.                          *)
LEMMA D3DLockInv == D3DInv /\ D3DLock => D3DInv'
<1> SUFFICES ASSUME D3DInv, D3DLock PROVE D3DInv'
  OBVIOUS
<1>1. PICK k \in 0 .. LastPlane, a \in 0 .. LastPlane, streams \in BOOLEAN,
           isCurrent \in BOOLEAN :
       LET g0 == Switched(isCurrent)
           g1 == Wrapped(g0, k, streams, isCurrent)
           ok == Lockable(g0, k, streams)
           given == ok /\ InTime(g1, a)
       IN /\ d3dHost' = [g1 EXCEPT !.locked = @ \/ given]
          /\ d3dOwned' = StillOwned(g1) \cup
                           (IF ok THEN Acquired(g1, a) ELSE {})
          /\ d3dFrame' = [d3dFrame EXCEPT !.phase = "gl", !.given = given]
          /\ d3dTrouble' = d3dTrouble
               \cup (IF g0.handle # 0 /\ d3dHost.gl # d3dDevice
                     THEN Stale(d3dHost, isCurrent) ELSE {})
               \cup (IF ok THEN LeftAcquired(g1, a)
                     ELSE IF g1.handle # 0 THEN {"context"} ELSE {})
  BY DEF D3DLock
<1> DEFINE g0 == Switched(isCurrent)
           g1 == Wrapped(g0, k, streams, isCurrent)
           ok == Lockable(g0, k, streams)
           given == ok /\ InTime(g1, a)
           l == g1.locked \/ given
<1>2. /\ d3dHost' = [g1 EXCEPT !.locked = l]
      /\ d3dOwned' = StillOwned(g1) \cup (IF ok THEN Acquired(g1, a) ELSE {})
      /\ d3dFrame' = [d3dFrame EXCEPT !.phase = "gl", !.given = given]
      /\ d3dTrouble' = d3dTrouble
           \cup (IF g0.handle # 0 /\ d3dHost.gl # d3dDevice
                 THEN Stale(d3dHost, isCurrent) ELSE {})
           \cup (IF ok THEN LeftAcquired(g1, a)
                 ELSE IF g1.handle # 0 THEN {"context"} ELSE {})
  BY <1>1
<1>3. /\ d3dHost \in D3DHosts /\ d3dDevice \in 1 .. MaxDevices
      /\ d3dKeyed \in BOOLEAN /\ d3dKind \in {"dxgi", "ycbcr"}
      /\ d3dOwned \subseteq SharedTextures /\ d3dDevice # 0
      /\ d3dFrame \in [phase : {"none", "gl", "mapping", "swgl"},
                       given : BOOLEAN, next : 1 .. 3,
                       since : 1 .. MaxWrites + 1]
      /\ d3dFrame.phase \in {"none", "gl"}
      /\ (d3dFrame.phase = "gl" => d3dHost.gl = d3dDevice)
      /\ ~d3dHost.swLocked
  BY D3DHostsAssumption
     DEF D3DInv, D3DShape, D3DTypeOK, D3DHosts, D3DLock
<1>4. UNCHANGED <<d3dKind, d3dKeyed, d3dDevice, d3dMode, d3dWritten>>
        /\ SharedTextures' = SharedTextures
  BY DEF D3DLock, SharedTextures
<1>5. /\ g0 \in D3DHosts /\ g0.gl = d3dDevice
      /\ g0.locked = d3dHost.locked /\ g0.swLocked = d3dHost.swLocked
      /\ g0.cpu = d3dHost.cpu /\ g0.data = d3dHost.data
      /\ (d3dHost.gl = d3dDevice => g0 = d3dHost)
      /\ (/\ HandlesAreWhole(d3dHost)
          /\ (g0.handle # 0 /\ d3dHost.gl # d3dDevice
                => Stale(d3dHost, isCurrent) = {})
          => HandlesAreWhole(g0) /\ (g0.handle # 0 => g0 = d3dHost))
  BY SwitchedFacts
<1> HIDE DEF g0
<1>6. /\ g1 \in D3DHosts
      /\ g1.gl = d3dDevice /\ g1.locked = d3dHost.locked
      /\ g1.swLocked = d3dHost.swLocked /\ g1.cpu = d3dHost.cpu
      /\ g1.data = d3dHost.data
      /\ (g0.handle # 0 => g1 = g0)
      /\ (ok => g1.handle # 0)
      /\ (HandlesAreWhole(g0) /\ (ok \/ g1.handle = 0)
            => HandlesAreWhole(g1))
  BY <1>3, <1>5, WrappedFacts
<1>7. ok \in BOOLEAN /\ given \in BOOLEAN /\ l \in BOOLEAN
  BY <1>6 DEF Lockable, InTime, D3DHosts
<1> HIDE DEF g1
<1>8. /\ StillOwned(g1) \subseteq d3dOwned
      /\ Acquired(g1, a) \subseteq SharedTextures
  BY PlanesOfAKind DEF StillOwned, Acquired
<1>9. LeftAcquired(g1, a) \subseteq {"timeout"}
        /\ Stale(d3dHost, isCurrent) \subseteq {"context"}
  BY DEF LeftAcquired, Stale
<1>10. /\ d3dHost' \in D3DHosts /\ d3dHost'.gl = d3dDevice
       /\ d3dHost'.locked = l /\ d3dHost'.swLocked = FALSE
       /\ d3dHost'.cpu = d3dHost.cpu /\ d3dHost'.data = d3dHost.data
       /\ d3dHost'.handle = g1.handle /\ d3dHost'.mutexes = g1.mutexes
       /\ d3dHost'.textures = g1.textures
  <2> HIDE DEF l
  <2> QED
    BY <1>2, <1>3, <1>6, <1>7 DEF D3DHosts
<1>11. /\ d3dFrame' \in [phase : {"none", "gl", "mapping", "swgl"},
                         given : BOOLEAN, next : 1 .. 3,
                         since : 1 .. MaxWrites + 1]
       /\ d3dFrame'.phase = "gl" /\ d3dFrame'.given = given
       /\ d3dFrame'.since = d3dFrame.since
  <2> HIDE DEF given
  <2> QED
    BY <1>2, <1>3, <1>7
<1>12. D3DHosts' = D3DHosts
  BY <1>4 DEF D3DHosts, Devices
<1>13. d3dTrouble' \subseteq {"context", "timeout", "staging", "map"}
         /\ d3dOwned' \subseteq SharedTextures
  BY <1>2, <1>3, <1>8, <1>9 DEF D3DInv, D3DShape, D3DTypeOK
<1>14. D3DShape'
  <2>1. D3DTypeOK'
    BY <1>4, <1>10, <1>11, <1>12, <1>13
       DEF D3DInv, D3DShape, D3DTypeOK, D3DHosts
  <2> QED
    BY <1>4, <1>10, <1>11, <2>1 DEF D3DInv, D3DShape
<1>15. ASSUME d3dTrouble' = {}
       PROVE  /\ HandlesAreWhole(d3dHost)' /\ MutexesGoWithTheLock'
              /\ PlanesAreMappedInTurn'
  <2>1. /\ d3dTrouble = {}
        /\ (g0.handle # 0 /\ d3dHost.gl # d3dDevice
              => Stale(d3dHost, isCurrent) = {})
        /\ (ok => LeftAcquired(g1, a) = {})
        /\ (~ok => g1.handle = 0)
    BY <1>2, <1>15
  <2>2. /\ HandlesAreWhole(d3dHost) /\ MutexesGoWithTheLock
        /\ PlanesAreMappedInTurn
    BY <2>1 DEF D3DInv
  <2>3. /\ HandlesAreWhole(g0) /\ HandlesAreWhole(g1)
        /\ (g0.handle # 0 => g0 = d3dHost /\ g1 = d3dHost)
    BY <1>5, <1>6, <2>1, <2>2
  <2>4. HandlesAreWhole(d3dHost)'
    BY <1>4, <1>6, <1>10, <2>3 DEF HandlesAreWhole
  <2>5. d3dHost.locked => g1 = d3dHost /\ g0 = d3dHost /\ ok
    BY <1>3, <1>5, <1>6, <2>2 DEF MutexesGoWithTheLock, Lockable
  <2>6. ok /\ Acquires(g1) /\ a # 0 => a = LastPlane
    BY <2>1, PlanesOfAKind DEF LeftAcquired
  <2>7. a = LastPlane => 1 .. a = SharedTextures
    BY PlanesOfAKind
  <2>8. \A t \in SharedTextures : d3dHost.locked => d3dHost.textures[t] # 0
    BY <2>2 DEF HandlesAreWhole, MutexesGoWithTheLock
  <2>9. d3dHost.locked /\ d3dHost.mutexes => StillOwned(g1) = SharedTextures
    BY <2>2, <2>5, <2>8 DEF MutexesGoWithTheLock, StillOwned
  <2>10. ok /\ Acquires(g1) /\ Acquired(g1, a) # {} =>
           given /\ Acquired(g1, a) = SharedTextures
    BY <2>6, <2>7 DEF Acquired, InTime
  <2>11. d3dOwned' # {} => d3dHost'.locked /\ d3dHost'.mutexes
    <3>1. CASE d3dHost.locked
      <4>1. CASE d3dHost.mutexes
        BY <1>6, <1>10, <2>5, <3>1, <4>1
      <4>2. CASE ~d3dHost.mutexes
        BY <1>2, <1>8, <2>2, <2>5, <3>1, <4>2
           DEF MutexesGoWithTheLock, Acquired, Acquires
      <4> QED
        BY <4>1, <4>2
    <3>2. CASE ~d3dHost.locked
      <4>1. StillOwned(g1) = {}
        BY <1>8, <2>2, <3>2 DEF MutexesGoWithTheLock
      <4> QED
        BY <1>2, <1>10, <2>10, <4>1 DEF Acquired, Acquires
    <3> QED
      BY <3>1, <3>2
  <2>12. d3dHost'.locked /\ d3dHost'.mutexes => d3dOwned' = SharedTextures
    <3>1. CASE d3dHost.locked
      BY <1>2, <1>8, <1>10, <2>5, <2>9, <3>1
    <3>2. CASE ~d3dHost.locked
      <4> SUFFICES ASSUME given, g1.mutexes PROVE d3dOwned' = SharedTextures
        BY <1>6, <1>10, <3>2
      <4>1. Acquires(g1) /\ a = LastPlane
        BY <1>6, <3>2 DEF Acquires, InTime
      <4>2. Acquired(g1, a) = SharedTextures
        BY <4>1, <2>7 DEF Acquired
      <4> QED
        BY <1>2, <1>3, <1>8, <4>2
    <3> QED
      BY <3>1, <3>2
  <2>13. MutexesGoWithTheLock'
    BY <1>4, <1>6, <1>10, <1>11, <2>2, <2>5, <2>11, <2>12
       DEF MutexesGoWithTheLock
  <2>14. PlanesAreMappedInTurn'
    BY <1>3, <1>4, <1>10, <1>11, <2>2 DEF PlanesAreMappedInTurn
  <2> QED
    BY <2>4, <2>13, <2>14
<1> QED
  BY <1>14, <1>15 DEF D3DInv

(* What stays of the parts of the invariant that a step leaves alone.      *)
LEMMA D3DTypes ==
  ASSUME D3DInv
  PROVE  /\ d3dHost \in D3DHosts /\ d3dDevice \in 1 .. MaxDevices
         /\ d3dDevice \in Devices /\ d3dDevice # 0
         /\ d3dKeyed \in BOOLEAN /\ d3dKind \in {"dxgi", "ycbcr"}
         /\ d3dOwned \subseteq SharedTextures
         /\ d3dFrame \in [phase : {"none", "gl", "mapping", "swgl"},
                          given : BOOLEAN, next : 1 .. 3,
                          since : 1 .. MaxWrites + 1]
         /\ d3dMode \in {"gl", "software"} /\ d3dWritten \in 1 .. MaxWrites + 1
         /\ d3dTrouble \subseteq {"context", "timeout", "staging", "map"}
  BY D3DHostsAssumption DEF D3DInv, D3DShape, D3DTypeOK, D3DHosts, Devices

(* A step that keeps the kind of the host keeps its types.                  *)
LEMMA D3DTypesKept ==
  ASSUME D3DInv, UNCHANGED d3dKind
  PROVE  SharedTextures' = SharedTextures /\ D3DHosts' = D3DHosts
  BY DEF SharedTextures, D3DHosts, Devices

(* The record of no frame.                                                  *)
LEMMA NoFrameFacts ==
  /\ NoFrame \in [phase : {"none", "gl", "mapping", "swgl"},
                  given : BOOLEAN, next : 1 .. 3, since : 1 .. MaxWrites + 1]
  /\ NoFrame.phase = "none" /\ NoFrame.given = FALSE /\ NoFrame.since = 1
  BY D3DHostsAssumption DEF NoFrame

(* Unlock releases every mutex that Lock acquired.                          *)
LEMMA D3DUnlockInv == D3DInv /\ D3DUnlock => D3DInv'
<1> SUFFICES ASSUME D3DInv, D3DUnlock PROVE D3DInv'
  OBVIOUS
<1>1. /\ d3dHost' = [d3dHost EXCEPT !.locked = FALSE]
      /\ d3dOwned' = Released(d3dHost) /\ d3dFrame' = NoFrame
      /\ d3dFrame.phase = "gl"
      /\ UNCHANGED <<d3dKind, d3dKeyed, d3dDevice, d3dMode, d3dWritten,
                     d3dTrouble>>
  BY DEF D3DUnlock
<1>2. /\ d3dHost' \in D3DHosts /\ d3dHost'.locked = FALSE
      /\ d3dHost'.gl = d3dHost.gl /\ d3dHost'.handle = d3dHost.handle
      /\ d3dHost'.textures = d3dHost.textures
      /\ d3dHost'.mutexes = d3dHost.mutexes
      /\ d3dHost'.swLocked = d3dHost.swLocked
      /\ d3dHost'.cpu = d3dHost.cpu /\ d3dHost'.data = d3dHost.data
  BY <1>1, D3DTypes DEF D3DHosts
<1>3. Released(d3dHost) \subseteq SharedTextures
  BY D3DTypes DEF Released
<1>4. D3DShape'
  <2>1. D3DTypeOK'
    BY <1>1, <1>2, <1>3, NoFrameFacts, D3DTypes, D3DTypesKept
       DEF D3DTypeOK, D3DHosts
  <2> QED
    BY <1>1, <1>2, <2>1, NoFrameFacts, D3DTypes DEF D3DInv, D3DShape
<1>5. ASSUME d3dTrouble' = {}
      PROVE  /\ HandlesAreWhole(d3dHost)' /\ MutexesGoWithTheLock'
             /\ PlanesAreMappedInTurn'
  <2>1. /\ HandlesAreWhole(d3dHost) /\ MutexesGoWithTheLock
        /\ PlanesAreMappedInTurn
    BY <1>1, <1>5 DEF D3DInv
  <2>2. HandlesAreWhole(d3dHost)'
    BY <1>1, <1>2, <2>1, D3DTypesKept DEF HandlesAreWhole
  <2>3. d3dOwned' = {}
    BY <1>1, <2>1 DEF Released, MutexesGoWithTheLock
  <2>4. MutexesGoWithTheLock'
    BY <1>1, <1>2, <2>3, NoFrameFacts DEF MutexesGoWithTheLock
  <2>5. PlanesAreMappedInTurn'
    BY <1>1, <1>2, <2>1, D3DTypesKept, NoFrameFacts
       DEF PlanesAreMappedInTurn
  <2> QED
    BY <2>2, <2>4, <2>5
<1> QED
  BY <1>4, <1>5 DEF D3DInv

(* A texture for an overlay is opened on the device the host has, or on the *)
(* one of now.                                                              *)
LEMMA D3DGetTextureInv == D3DInv /\ D3DGetTexture => D3DInv'
<1> SUFFICES ASSUME D3DInv, D3DGetTexture PROVE D3DInv'
  OBVIOUS
<1> DEFINE g == [d3dHost EXCEPT !.gl = IF d3dHost.gl = 0 THEN d3dDevice
                                       ELSE d3dHost.gl]
<1>1. PICK k \in 0 .. 1 : d3dHost' = Opened(g, k)
  BY D3DTypes DEF D3DGetTexture, D3DHosts
<1>2. /\ UNCHANGED <<d3dKind, d3dKeyed, d3dOwned, d3dDevice, d3dMode, d3dFrame,
                     d3dWritten, d3dTrouble>>
      /\ d3dKind = "dxgi" /\ d3dHost.textures[1] = 0
      /\ d3dFrame.phase \in {"none", "gl"}
  BY DEF D3DGetTexture
<1>3. /\ g \in D3DHosts
      /\ g.gl = (IF d3dHost.gl = 0 THEN d3dDevice ELSE d3dHost.gl)
      /\ g.handle = d3dHost.handle /\ g.textures = d3dHost.textures
      /\ g.mutexes = d3dHost.mutexes /\ g.locked = d3dHost.locked
      /\ g.swLocked = d3dHost.swLocked
      /\ g.cpu = d3dHost.cpu /\ g.data = d3dHost.data
  BY D3DTypes DEF D3DHosts
<1>4. k \in 0 .. LastPlane
  BY <1>1, <1>2, PlanesOfAKind
<1> HIDE DEF g
<1>5. /\ d3dHost' \in D3DHosts
      /\ d3dHost'.gl = g.gl /\ d3dHost'.handle = g.handle
      /\ d3dHost'.locked = g.locked
      /\ d3dHost'.swLocked = g.swLocked /\ d3dHost'.cpu = g.cpu
      /\ d3dHost'.data = g.data
      /\ (HandlesAreWhole(g) => HandlesAreWhole(d3dHost'))
  BY <1>1, <1>3, <1>4, OpenedFacts, D3DTypes
<1>6. D3DShape'
  <2>1. D3DTypeOK'
    BY <1>2, <1>5, D3DTypes, D3DTypesKept DEF D3DTypeOK, D3DHosts
  <2> QED
    BY <1>2, <1>3, <1>5, <2>1, D3DTypesKept, D3DTypes DEF D3DInv, D3DShape
<1>7. ASSUME d3dTrouble' = {}
      PROVE  /\ HandlesAreWhole(d3dHost)' /\ MutexesGoWithTheLock'
             /\ PlanesAreMappedInTurn'
  <2>1. /\ HandlesAreWhole(d3dHost) /\ MutexesGoWithTheLock
        /\ PlanesAreMappedInTurn
    BY <1>2, <1>7 DEF D3DInv
  <2>2. d3dHost.handle = 0
    BY <1>2, <2>1, PlanesOfAKind DEF HandlesAreWhole
  <2>3. HandlesAreWhole(g)
    BY <1>3, <2>1, <2>2 DEF HandlesAreWhole
  <2>4. HandlesAreWhole(d3dHost)'
    BY <1>2, <1>5, <2>3, D3DTypesKept DEF HandlesAreWhole
  <2>5. ~d3dHost.locked /\ d3dOwned = {}
    BY <2>1, <2>2 DEF MutexesGoWithTheLock
  <2>6. MutexesGoWithTheLock'
    BY <1>2, <1>3, <1>5, <2>1, <2>2, <2>5 DEF MutexesGoWithTheLock
  <2>7. PlanesAreMappedInTurn'
    BY <1>2, <1>3, <1>5, <2>1, D3DTypesKept DEF PlanesAreMappedInTurn
  <2> QED
    BY <2>4, <2>6, <2>7
<1> QED
  BY <1>6, <1>7 DEF D3DInv

(* LockSWGL starts with nothing mapped for this lock.                       *)
LEMMA D3DLockSWGLInv == D3DInv /\ D3DLockSWGL => D3DInv'
<1> SUFFICES ASSUME D3DInv, D3DLockSWGL PROVE D3DInv'
  OBVIOUS
<1>1. /\ UNCHANGED <<d3dKind, d3dKeyed, d3dOwned, d3dDevice, d3dMode,
                     d3dWritten, d3dTrouble>>
      /\ d3dFrame' = [phase |-> "mapping", given |-> FALSE, next |-> 1,
                      since |-> d3dWritten]
      /\ d3dFrame.phase \in {"none", "swgl"} /\ ~d3dHost.swLocked
  BY DEF D3DLockSWGL
<1>2. /\ d3dHost' \in D3DHosts /\ d3dHost'.locked = d3dHost.locked
      /\ d3dHost'.gl = d3dHost.gl /\ d3dHost'.handle = d3dHost.handle
      /\ d3dHost'.textures = d3dHost.textures
      /\ d3dHost'.mutexes = d3dHost.mutexes
      /\ d3dHost'.swLocked = d3dHost.swLocked
      /\ d3dHost'.cpu = d3dHost.cpu /\ d3dHost'.data = d3dHost.data
  <2>1. PICK c \in 0 .. 2 : d3dHost' = [d3dHost EXCEPT !.context = c]
    <3>1. d3dHost = [d3dHost EXCEPT !.context = d3dHost.context]
            /\ d3dHost.context \in 0 .. 2
      BY D3DTypes DEF D3DHosts
    <3> QED
      BY <3>1 DEF D3DLockSWGL
  <2> QED
    BY <2>1, D3DTypes DEF D3DHosts
<1>3. 1 \in SharedTextures
  BY PlanesOfAKind
<1>4. D3DShape'
  <2>1. d3dFrame' \in [phase : {"none", "gl", "mapping", "swgl"},
                       given : BOOLEAN, next : 1 .. 3,
                       since : 1 .. MaxWrites + 1]
    BY <1>1, D3DTypes
  <2>2. D3DTypeOK'
    BY <1>1, <1>2, <2>1, D3DTypes, D3DTypesKept DEF D3DTypeOK, D3DHosts
  <2> QED
    BY <1>1, <1>2, <1>3, <2>2, D3DTypesKept, D3DTypes
       DEF D3DInv, D3DShape
<1>5. ASSUME d3dTrouble' = {}
      PROVE  /\ HandlesAreWhole(d3dHost)' /\ MutexesGoWithTheLock'
             /\ PlanesAreMappedInTurn'
  <2>1. /\ HandlesAreWhole(d3dHost) /\ MutexesGoWithTheLock
        /\ PlanesAreMappedInTurn
    BY <1>1, <1>5 DEF D3DInv
  <2>2. HandlesAreWhole(d3dHost)'
    BY <1>1, <1>2, <2>1, D3DTypesKept DEF HandlesAreWhole
  <2>3. MutexesGoWithTheLock'
    BY <1>1, <1>2, <2>1 DEF MutexesGoWithTheLock
  <2>4. \A t \in SharedTextures : ~d3dHost.cpu[t]
    BY <1>1, <2>1 DEF PlanesAreMappedInTurn, D3DInv, D3DShape
  <2>5. \A t \in SharedTextures : ~(t < 1)
    BY PlanesOfAKind
  <2>6. PlanesAreMappedInTurn'
    BY <1>1, <1>2, <2>4, <2>5, D3DTypesKept DEF PlanesAreMappedInTurn
  <2> QED
    BY <2>2, <2>3, <2>6
<1> QED
  BY <1>4, <1>5 DEF D3DInv

(* The read-back of a plane maps that plane, and it is as new as what was   *)
(* written.                                                                 *)
LEMMA ReadBackFacts ==
  ASSUME D3DInv, NEW h \in D3DHosts, NEW i \in SharedTextures
  PROVE  LET r == ReadBack(h, i)
         IN /\ r \in D3DHosts /\ r.locked = FALSE
            /\ r.gl = h.gl /\ r.handle = h.handle /\ r.textures = h.textures
            /\ r.mutexes = h.mutexes /\ r.swLocked = h.swLocked
            /\ r.cpu = [h.cpu EXCEPT ![i] = TRUE]
            /\ r.data = [h.data EXCEPT ![i] = d3dWritten]
<1> DEFINE c == [h.cpu EXCEPT ![i] = TRUE]
           d == [h.data EXCEPT ![i] = d3dWritten]
<1>1. d3dWritten \in 0 .. MaxWrites + 1
  BY D3DTypes, D3DHostsAssumption
<1>2. /\ c \in [SharedTextures -> BOOLEAN]
      /\ d \in [SharedTextures -> 0 .. MaxWrites + 1]
  BY <1>1 DEF D3DHosts
<1>3. ReadBack(h, i) = [h EXCEPT !.locked = FALSE, !.cpu = c, !.data = d]
  BY DEF ReadBack, D3DHosts
<1> HIDE DEF c, d
<1>4. LET r == ReadBack(h, i)
      IN /\ r \in D3DHosts /\ r.locked = FALSE
         /\ r.gl = h.gl /\ r.handle = h.handle /\ r.textures = h.textures
         /\ r.mutexes = h.mutexes /\ r.swLocked = h.swLocked
         /\ r.cpu = c /\ r.data = d
  BY <1>2, <1>3 DEF D3DHosts
<1> QED
  BY <1>4 DEF c, d

(* The plane that was mapped is the last one, or the next one follows.     *)
LEMMA NextPlaneFacts ==
  ASSUME D3DInv, d3dFrame.phase = "mapping", NEW h \in D3DHosts, NextPlane(h)
  PROVE  /\ d3dHost' \in D3DHosts
         /\ d3dHost'.locked = h.locked /\ d3dHost'.gl = h.gl
         /\ d3dHost'.handle = h.handle /\ d3dHost'.textures = h.textures
         /\ d3dHost'.mutexes = h.mutexes
         /\ d3dHost'.cpu = h.cpu /\ d3dHost'.data = h.data
         /\ d3dFrame' \in [phase : {"none", "gl", "mapping", "swgl"},
                           given : BOOLEAN, next : 1 .. 3,
                           since : 1 .. MaxWrites + 1]
         /\ d3dFrame'.since = d3dFrame.since
         /\ IF d3dFrame.next = LastPlane
            THEN /\ d3dFrame'.phase = "swgl" /\ d3dFrame'.given = TRUE
                 /\ d3dHost'.swLocked = TRUE
            ELSE /\ d3dFrame'.phase = "mapping" /\ d3dFrame'.given = FALSE
                 /\ d3dFrame'.next = d3dFrame.next + 1
                 /\ d3dFrame'.next \in SharedTextures
                 /\ d3dHost'.swLocked = h.swLocked
<1>1. /\ d3dFrame.given = FALSE /\ d3dFrame.next \in SharedTextures
  BY D3DTypes DEF D3DInv, D3DShape
<1>2. CASE d3dFrame.next = LastPlane
  <2>1. /\ d3dHost' = [h EXCEPT !.swLocked = TRUE]
        /\ d3dFrame' = [d3dFrame EXCEPT !.phase = "swgl", !.given = TRUE]
    BY <1>2 DEF NextPlane
  <2> QED
    BY <1>2, <2>1, D3DTypes DEF D3DHosts
<1>3. CASE d3dFrame.next # LastPlane
  <2>1. /\ d3dHost' = h
        /\ d3dFrame' = [d3dFrame EXCEPT !.next = d3dFrame.next + 1]
    BY <1>3, D3DTypes DEF NextPlane
  <2>2. d3dFrame.next + 1 \in SharedTextures /\ d3dFrame.next + 1 \in 1 .. 3
    BY <1>1, <1>3, PlanesOfAKind
  <2> QED
    BY <1>1, <1>3, <2>1, <2>2, D3DTypes
<1> QED
  BY <1>2, <1>3

(* MapPlane opens the textures, if they are not open, and reads the next    *)
(* plane back, or keeps the staging texture it has.                         *)
LEMMA D3DMapPlaneInv == D3DInv /\ D3DMapPlane => D3DInv'
<1> SUFFICES ASSUME D3DInv, D3DMapPlane PROVE D3DInv'
  OBVIOUS
<1> DEFINE h == Opened(d3dHost, LastPlane)
           r == IF KeepsStaging THEN d3dHost ELSE ReadBack(h, d3dFrame.next)
<1>1. /\ UNCHANGED <<d3dKind, d3dKeyed, d3dDevice, d3dMode, d3dWritten,
                     d3dTrouble>>
      /\ d3dFrame.phase = "mapping" /\ NextPlane(r)
      /\ d3dOwned' = IF KeepsStaging THEN d3dOwned
                     ELSE Released([h EXCEPT !.locked = TRUE])
  BY DEF D3DMapPlane
<1>2. /\ h \in D3DHosts /\ h.gl = d3dHost.gl /\ h.handle = d3dHost.handle
      /\ h.locked = d3dHost.locked /\ h.swLocked = d3dHost.swLocked
      /\ h.cpu = d3dHost.cpu /\ h.data = d3dHost.data
      /\ (HandlesAreWhole(d3dHost) => HandlesAreWhole(h))
  <2>1. LastPlane \in 0 .. LastPlane
    BY PlanesOfAKind
  <2> QED
    BY <2>1, OpenedFacts, D3DTypes
<1>3. d3dFrame.next \in SharedTextures /\ ~d3dFrame.given /\ ~d3dHost.swLocked
  BY <1>1 DEF D3DInv, D3DShape
<1> HIDE DEF h
<1>4. /\ ReadBack(h, d3dFrame.next) \in D3DHosts
      /\ ReadBack(h, d3dFrame.next).locked = FALSE
      /\ ReadBack(h, d3dFrame.next).gl = h.gl
      /\ ReadBack(h, d3dFrame.next).handle = h.handle
      /\ ReadBack(h, d3dFrame.next).textures = h.textures
      /\ ReadBack(h, d3dFrame.next).mutexes = h.mutexes
      /\ ReadBack(h, d3dFrame.next).swLocked = h.swLocked
      /\ ReadBack(h, d3dFrame.next).cpu =
           [d3dHost.cpu EXCEPT ![d3dFrame.next] = TRUE]
      /\ ReadBack(h, d3dFrame.next).data =
           [d3dHost.data EXCEPT ![d3dFrame.next] = d3dWritten]
  <2> DEFINE b == ReadBack(h, d3dFrame.next)
  <2>1. /\ b \in D3DHosts /\ b.locked = FALSE
        /\ b.gl = h.gl /\ b.handle = h.handle /\ b.textures = h.textures
        /\ b.mutexes = h.mutexes /\ b.swLocked = h.swLocked
        /\ b.cpu = [h.cpu EXCEPT ![d3dFrame.next] = TRUE]
        /\ b.data = [h.data EXCEPT ![d3dFrame.next] = d3dWritten]
    BY <1>2, <1>3, ReadBackFacts, Zenon
  <2> QED
    BY <1>2, <2>1, Zenon
<1>5. r \in D3DHosts /\ r.swLocked = FALSE
  BY <1>2, <1>3, <1>4, D3DTypes DEF D3DHosts
<1> HIDE DEF r
<1>6. /\ d3dHost' \in D3DHosts
      /\ d3dHost'.locked = r.locked /\ d3dHost'.gl = r.gl
      /\ d3dHost'.handle = r.handle /\ d3dHost'.textures = r.textures
      /\ d3dHost'.mutexes = r.mutexes
      /\ d3dHost'.cpu = r.cpu /\ d3dHost'.data = r.data
      /\ d3dFrame' \in [phase : {"none", "gl", "mapping", "swgl"},
                        given : BOOLEAN, next : 1 .. 3,
                        since : 1 .. MaxWrites + 1]
      /\ d3dFrame'.since = d3dFrame.since
      /\ IF d3dFrame.next = LastPlane
         THEN /\ d3dFrame'.phase = "swgl" /\ d3dFrame'.given = TRUE
              /\ d3dHost'.swLocked = TRUE
         ELSE /\ d3dFrame'.phase = "mapping" /\ d3dFrame'.given = FALSE
              /\ d3dFrame'.next = d3dFrame.next + 1
              /\ d3dFrame'.next \in SharedTextures
              /\ d3dHost'.swLocked = r.swLocked
  BY <1>1, <1>5, NextPlaneFacts
<1>7. d3dOwned' \subseteq SharedTextures
  BY <1>1, D3DTypes DEF Released
<1>8. D3DShape'
  <2>1. D3DTypeOK'
    BY <1>1, <1>6, <1>7, D3DTypes, D3DTypesKept DEF D3DTypeOK, D3DHosts
  <2> QED
    BY <1>1, <1>5, <1>6, <2>1, D3DTypesKept DEF D3DInv, D3DShape
<1>9. ASSUME d3dTrouble' = {}
      PROVE  /\ HandlesAreWhole(d3dHost)' /\ MutexesGoWithTheLock'
             /\ PlanesAreMappedInTurn'
  <2>1. /\ HandlesAreWhole(d3dHost) /\ MutexesGoWithTheLock
        /\ PlanesAreMappedInTurn
    BY <1>1, <1>9 DEF D3DInv
  <2>2. \A t \in SharedTextures : d3dHost.cpu[t] <=> t < d3dFrame.next
    BY <1>1, <2>1 DEF PlanesAreMappedInTurn
  <2>3. ~KeepsStaging
    <3>1. ~(1 < 1)
      OBVIOUS
    <3> QED
      BY <1>3, <2>2, <3>1, PlanesOfAKind DEF KeepsStaging
  <2>4. r = ReadBack(h, d3dFrame.next)
    BY <2>3 DEF r
  <2>5. HandlesAreWhole(h)
    BY <1>2, <2>1
  <2>6. HandlesAreWhole(d3dHost)'
    BY <1>1, <1>4, <1>6, <2>4, <2>5, D3DTypesKept DEF HandlesAreWhole
  <2>7. d3dOwned = {}
    BY <1>1, <2>1 DEF MutexesGoWithTheLock
  <2>8. d3dOwned' = {}
    BY <1>1, <2>3, <2>7 DEF Released
  <2>9. MutexesGoWithTheLock'
    BY <1>4, <1>6, <2>4, <2>8 DEF MutexesGoWithTheLock
  <2>10. ASSUME NEW t \in SharedTextures
         PROVE  /\ d3dHost'.cpu[t] <=> t < d3dFrame.next \/ t = d3dFrame.next
                /\ d3dHost'.cpu[t] => d3dHost'.data[t] >= d3dFrame.since
    <3>1. d3dWritten >= d3dFrame.since /\ d3dWritten \in Nat
            /\ d3dFrame.since \in Nat
      BY D3DTypes DEF D3DInv, D3DShape
    <3>2. d3dHost.cpu[t] => d3dHost.data[t] >= d3dFrame.since
      BY <2>1 DEF PlanesAreMappedInTurn
    <3>3. /\ d3dHost.cpu \in [SharedTextures -> BOOLEAN]
          /\ d3dHost.data \in [SharedTextures -> 0 .. MaxWrites + 1]
      BY D3DTypes DEF D3DHosts
    <3>4. /\ d3dHost'.cpu = [d3dHost.cpu EXCEPT ![d3dFrame.next] = TRUE]
          /\ d3dHost'.data =
               [d3dHost.data EXCEPT ![d3dFrame.next] = d3dWritten]
      BY <1>4, <1>6, <2>4
    <3>5. CASE t = d3dFrame.next
      BY <3>1, <3>3, <3>4, <3>5
    <3>6. CASE t # d3dFrame.next
      BY <2>2, <3>2, <3>3, <3>4, <3>6
    <3> QED
      BY <3>5, <3>6
  <2>11. PlanesAreMappedInTurn'
    <3>1. ASSUME NEW t \in SharedTextures
          PROVE  /\ (t < d3dFrame.next \/ t = d3dFrame.next)
                      <=> (IF d3dFrame.next = LastPlane THEN TRUE
                           ELSE t < d3dFrame.next + 1)
      BY <1>3, PlanesOfAKind
    <3>2. CASE d3dFrame.next = LastPlane
      BY <1>1, <1>6, <2>10, <3>1, <3>2, D3DTypesKept
         DEF PlanesAreMappedInTurn
    <3>3. CASE d3dFrame.next # LastPlane
      BY <1>1, <1>6, <2>10, <3>1, <3>3, D3DTypesKept
         DEF PlanesAreMappedInTurn
    <3> QED
      BY <3>2, <3>3
  <2> QED
    BY <2>6, <2>9, <2>11
<1> QED
  BY <1>8, <1>9 DEF D3DInv

(* UnmapPlanes unmaps every plane and keeps the rest.                       *)
LEMMA UnmappedFacts ==
  ASSUME NEW h \in D3DHosts
  PROVE  LET u == Unmapped(h)
         IN /\ u \in D3DHosts
            /\ u.gl = h.gl /\ u.handle = h.handle /\ u.textures = h.textures
            /\ u.mutexes = h.mutexes /\ u.swLocked = h.swLocked
            /\ u.locked = h.locked
            /\ \A t \in SharedTextures : u.cpu[t] = FALSE
<1> DEFINE c == [t \in SharedTextures |-> FALSE]
           d == [t \in SharedTextures |-> 0]
           u == Unmapped(h)
<1>1. /\ c \in [SharedTextures -> BOOLEAN]
      /\ d \in [SharedTextures -> 0 .. MaxWrites + 1]
      /\ \A t \in SharedTextures : c[t] = FALSE
  BY D3DHostsAssumption
<1>2. u = [h EXCEPT !.cpu = c, !.data = d]
  BY DEF Unmapped
<1> HIDE DEF c, d, u
<1> SUFFICES
      /\ u \in D3DHosts
      /\ u.gl = h.gl /\ u.handle = h.handle /\ u.textures = h.textures
      /\ u.mutexes = h.mutexes /\ u.swLocked = h.swLocked
      /\ u.locked = h.locked
      /\ \A t \in SharedTextures : u.cpu[t] = FALSE
  BY DEF u
<1> QED
  BY <1>1, <1>2 DEF D3DHosts

(* A failure in MapPlane, at whichever point it comes, unmaps the planes    *)
(* mapped before; where it leaves a mutex acquired it is one of the failures*)
(* set aside.                                                               *)
LEMMA D3DMapPlaneFailsInv == D3DInv /\ D3DMapPlaneFails => D3DInv'
<1> SUFFICES ASSUME D3DInv, D3DMapPlaneFails PROVE D3DInv'
  OBVIOUS
<1>1. PICK k \in 0 .. LastPlane, a \in 0 .. LastPlane, staging \in BOOLEAN :
       LET i == d3dFrame.next
           h == Opened(d3dHost, k)
           open == IsOpen(h)
           copied == open /\ InTime(h, a) /\ staging
       IN /\ d3dHost' = AfterFailure(
               IF copied THEN [ReadBack(h, i) EXCEPT !.data[i] = 0]
               ELSE [h EXCEPT !.locked = @ \/ (open /\ InTime(h, a))])
          /\ d3dOwned' = IF copied THEN Released([h EXCEPT !.locked = TRUE])
                         ELSE IF open THEN StillOwned(h) \cup Acquired(h, a)
                         ELSE StillOwned(h)
          /\ d3dTrouble' = d3dTrouble \cup
               (IF ~open THEN {}
                ELSE IF ~InTime(h, a) THEN LeftAcquired(h, a)
                ELSE IF staging THEN {"map"} ELSE {"staging"})
  BY DEF D3DMapPlaneFails
<1> DEFINE i == d3dFrame.next
           h == Opened(d3dHost, k)
           open == IsOpen(h)
           copied == open /\ InTime(h, a) /\ staging
           rb == [ReadBack(h, i) EXCEPT !.data = [@ EXCEPT ![i] = 0]]
           l == h.locked \/ (open /\ InTime(h, a))
           lk == [h EXCEPT !.locked = l]
           x == IF copied THEN rb ELSE lk
<1>2. /\ d3dHost' = AfterFailure(x)
      /\ d3dOwned' = (IF copied THEN Released([h EXCEPT !.locked = TRUE])
                      ELSE IF open THEN StillOwned(h) \cup Acquired(h, a)
                      ELSE StillOwned(h))
      /\ d3dTrouble' = d3dTrouble \cup
           (IF ~open THEN {}
            ELSE IF ~InTime(h, a) THEN LeftAcquired(h, a)
            ELSE IF staging THEN {"map"} ELSE {"staging"})
  BY <1>1
<1>3. /\ UNCHANGED <<d3dKind, d3dKeyed, d3dDevice, d3dMode, d3dWritten>>
      /\ d3dFrame.phase = "mapping" /\ ~KeepsStaging
      /\ d3dFrame' = [d3dFrame EXCEPT !.phase = "swgl"]
  BY DEF D3DMapPlaneFails
<1>4. /\ h \in D3DHosts /\ h.gl = d3dHost.gl /\ h.handle = d3dHost.handle
      /\ h.locked = d3dHost.locked /\ h.swLocked = d3dHost.swLocked
      /\ h.cpu = d3dHost.cpu /\ h.data = d3dHost.data
      /\ (HandlesAreWhole(d3dHost) => HandlesAreWhole(h))
  BY OpenedFacts, D3DTypes
<1>5. i \in SharedTextures /\ ~d3dFrame.given /\ ~d3dHost.swLocked
  BY <1>3 DEF D3DInv, D3DShape
<1> HIDE DEF h
<1>6. rb \in D3DHosts /\ rb.swLocked = FALSE
  <2>1. /\ ReadBack(h, i) \in D3DHosts /\ ReadBack(h, i).swLocked = h.swLocked
    BY <1>4, <1>5, ReadBackFacts
  <2> DEFINE b == ReadBack(h, i)
             d == [b.data EXCEPT ![i] = 0]
  <2>2. d \in [SharedTextures -> 0 .. MaxWrites + 1]
    <3>1. b.data \in [SharedTextures -> 0 .. MaxWrites + 1]
      BY <2>1 DEF D3DHosts
    <3>2. 0 \in 0 .. MaxWrites + 1
      BY D3DHostsAssumption
    <3> HIDE DEF b
    <3> QED
      BY <3>1, <3>2
  <2>3. rb = [b EXCEPT !.data = d]
    BY <2>1 DEF D3DHosts
  <2>4. b \in D3DHosts /\ b.swLocked = FALSE
    BY <1>4, <1>5, <2>1 DEF D3DHosts
  <2> HIDE DEF b, d, rb
  <2> QED
    BY <2>2, <2>3, <2>4 DEF D3DHosts
<1>7. l \in BOOLEAN
  BY <1>4 DEF D3DHosts, InTime, IsOpen
<1>8. /\ lk \in D3DHosts /\ lk.swLocked = FALSE /\ lk.locked = l
      /\ lk.gl = h.gl /\ lk.handle = h.handle /\ lk.textures = h.textures
      /\ lk.mutexes = h.mutexes /\ lk.cpu = h.cpu
  <2> HIDE DEF l
  <2> QED
    BY <1>4, <1>5, <1>7 DEF D3DHosts
<1>9. x \in D3DHosts /\ x.swLocked = FALSE
  <2> HIDE DEF rb, lk
  <2> QED
    BY <1>6, <1>8
<1> HIDE DEF x
<1>10. /\ d3dHost' \in D3DHosts /\ d3dHost'.swLocked = FALSE
       /\ d3dHost'.gl = x.gl /\ d3dHost'.handle = x.handle
       /\ d3dHost'.textures = x.textures /\ d3dHost'.mutexes = x.mutexes
       /\ d3dHost'.locked = x.locked
       /\ (i > 1 => \A t \in SharedTextures : d3dHost'.cpu[t] = FALSE)
       /\ (~(i > 1) => d3dHost' = x)
  <2>1. /\ Unmapped(x) \in D3DHosts
        /\ Unmapped(x).gl = x.gl /\ Unmapped(x).handle = x.handle
        /\ Unmapped(x).textures = x.textures
        /\ Unmapped(x).mutexes = x.mutexes
        /\ Unmapped(x).swLocked = x.swLocked
        /\ Unmapped(x).locked = x.locked
        /\ \A t \in SharedTextures : Unmapped(x).cpu[t] = FALSE
    BY <1>9, UnmappedFacts
  <2> QED
    BY <1>2, <1>9, <2>1 DEF AfterFailure
<1>11. d3dOwned' \subseteq SharedTextures
  <2>1. Acquired(h, a) \subseteq SharedTextures
    BY PlanesOfAKind DEF Acquired
  <2> QED
    BY <1>2, <2>1, D3DTypes DEF Released, StillOwned
<1>12. /\ d3dFrame' \in [phase : {"none", "gl", "mapping", "swgl"},
                         given : BOOLEAN, next : 1 .. 3,
                         since : 1 .. MaxWrites + 1]
       /\ d3dFrame'.phase = "swgl" /\ d3dFrame'.given = FALSE
       /\ d3dFrame'.since = d3dFrame.since
  BY <1>3, <1>5, D3DTypes
<1>13. d3dTrouble' \subseteq {"context", "timeout", "staging", "map"}
  BY <1>2, D3DTypes DEF LeftAcquired
<1>14. D3DShape'
  <2>1. D3DTypeOK'
    BY <1>3, <1>10, <1>11, <1>12, <1>13, D3DTypes, D3DTypesKept
       DEF D3DTypeOK, D3DHosts
  <2> QED
    BY <1>3, <1>10, <1>12, <2>1 DEF D3DInv, D3DShape
<1>15. ASSUME d3dTrouble' = {}
       PROVE  /\ HandlesAreWhole(d3dHost)' /\ MutexesGoWithTheLock'
              /\ PlanesAreMappedInTurn'
  <2>1. /\ HandlesAreWhole(d3dHost) /\ MutexesGoWithTheLock
        /\ PlanesAreMappedInTurn
    BY <1>2, <1>15 DEF D3DInv
  <2>2. ~(open /\ InTime(h, a))
    BY <1>2, <1>15
  <2>3. x = lk /\ ~copied
    BY <2>2 DEF x
  <2>4. d3dHost.locked = FALSE /\ d3dOwned = {}
    BY <1>3, <2>1, D3DTypes DEF MutexesGoWithTheLock, D3DHosts
  <2>5. l = FALSE
    BY <1>4, <2>2, <2>4
  <2>6. HandlesAreWhole(d3dHost)'
    <3>1. HandlesAreWhole(h)
      BY <1>4, <2>1
    <3> HIDE DEF lk
    <3> QED
      BY <1>3, <1>4, <1>8, <1>10, <2>3, <3>1, D3DTypesKept
         DEF HandlesAreWhole
  <2>7. d3dOwned' = {}
    <3>1. StillOwned(h) = {}
      BY <2>4 DEF StillOwned
    <3>2. open => Acquired(h, a) = {}
      <4> SUFFICES ASSUME open, Acquires(h) PROVE Acquired(h, a) = {}
        BY DEF Acquired
      <4>1. ~InTime(h, a) /\ LeftAcquired(h, a) = {}
        BY <1>2, <1>15, <2>2
      <4>2. a = 0
        BY <4>1, PlanesOfAKind DEF InTime, LeftAcquired
      <4> QED
        BY <4>2 DEF Acquired
    <3> QED
      BY <1>2, <2>3, <3>1, <3>2
  <2>8. MutexesGoWithTheLock'
    BY <1>8, <1>10, <1>12, <2>3, <2>5, <2>7 DEF MutexesGoWithTheLock
  <2>9. \A t \in SharedTextures : ~d3dHost'.cpu[t]
    <3>1. CASE i > 1
      BY <1>10, <3>1
    <3>2. CASE ~(i > 1)
      <4>1. \A t \in SharedTextures : ~(t < i)
        BY <1>5, <3>2, PlanesOfAKind
      <4>2. \A t \in SharedTextures : ~d3dHost.cpu[t]
        BY <1>3, <2>1, <4>1 DEF PlanesAreMappedInTurn
      <4> HIDE DEF lk
      <4> QED
        BY <1>4, <1>8, <1>10, <2>3, <3>2, <4>2
    <3> QED
      BY <3>1, <3>2
  <2>10. PlanesAreMappedInTurn'
    BY <1>3, <1>12, <2>9, D3DTypesKept DEF PlanesAreMappedInTurn
  <2> QED
    BY <2>6, <2>8, <2>10
<1> QED
  BY <1>14, <1>15 DEF D3DInv

(* UnlockSWGL unmaps what was mapped.                                       *)
LEMMA D3DUnlockSWGLInv == D3DInv /\ D3DUnlockSWGL => D3DInv'
<1> SUFFICES ASSUME D3DInv, D3DUnlockSWGL PROVE D3DInv'
  OBVIOUS
<1> DEFINE u == Unmapped(d3dHost)
<1>1. /\ UNCHANGED <<d3dKind, d3dKeyed, d3dOwned, d3dDevice, d3dMode,
                     d3dWritten, d3dTrouble>>
      /\ d3dFrame.phase = "swgl" /\ d3dFrame' = NoFrame
      /\ d3dHost' = IF d3dHost.swLocked
                    THEN [u EXCEPT !.swLocked = FALSE] ELSE d3dHost
  BY DEF D3DUnlockSWGL
<1>2. /\ u \in D3DHosts
      /\ u.gl = d3dHost.gl /\ u.handle = d3dHost.handle
      /\ u.textures = d3dHost.textures
      /\ u.mutexes = d3dHost.mutexes /\ u.swLocked = d3dHost.swLocked
      /\ u.locked = d3dHost.locked
      /\ \A t \in SharedTextures : u.cpu[t] = FALSE
  BY D3DTypes, UnmappedFacts
<1> HIDE DEF u
<1>3. /\ d3dHost' \in D3DHosts /\ d3dHost'.swLocked = FALSE
      /\ d3dHost'.gl = d3dHost.gl /\ d3dHost'.handle = d3dHost.handle
      /\ d3dHost'.textures = d3dHost.textures
      /\ d3dHost'.mutexes = d3dHost.mutexes
      /\ d3dHost'.locked = d3dHost.locked
      /\ (d3dHost.swLocked => d3dHost'.cpu = u.cpu)
      /\ (~d3dHost.swLocked => d3dHost' = d3dHost)
  <2>1. CASE d3dHost.swLocked
    BY <1>1, <1>2, <2>1 DEF D3DHosts
  <2>2. CASE ~d3dHost.swLocked
    BY <1>1, <2>2, D3DTypes DEF D3DHosts
  <2> QED
    BY <2>1, <2>2
<1>4. D3DShape'
  <2>1. D3DTypeOK'
    BY <1>1, <1>3, NoFrameFacts, D3DTypes, D3DTypesKept
       DEF D3DTypeOK, D3DHosts
  <2> QED
    BY <1>1, <1>3, <2>1, NoFrameFacts, D3DTypes DEF D3DShape
<1>5. ASSUME d3dTrouble' = {}
      PROVE  /\ HandlesAreWhole(d3dHost)' /\ MutexesGoWithTheLock'
             /\ PlanesAreMappedInTurn'
  <2>1. /\ HandlesAreWhole(d3dHost) /\ MutexesGoWithTheLock
        /\ PlanesAreMappedInTurn
    BY <1>1, <1>5 DEF D3DInv
  <2>2. HandlesAreWhole(d3dHost)'
    BY <1>1, <1>3, <2>1, D3DTypesKept DEF HandlesAreWhole
  <2>3. MutexesGoWithTheLock'
    BY <1>1, <1>3, <2>1, NoFrameFacts DEF MutexesGoWithTheLock
  <2>4. \A t \in SharedTextures : ~d3dHost'.cpu[t]
    BY <1>1, <1>2, <1>3, <2>1 DEF PlanesAreMappedInTurn, D3DInv, D3DShape
  <2>5. PlanesAreMappedInTurn'
    BY <1>1, <2>4, D3DTypesKept, NoFrameFacts DEF PlanesAreMappedInTurn
  <2> QED
    BY <2>2, <2>3, <2>5
<1> QED
  BY <1>4, <1>5 DEF D3DInv

(* ClearCachedResources drops the GL side, between frames, whether or not   *)
(* its context is the current one.                                          *)
LEMMA D3DClearInv == D3DInv /\ D3DClearCachedResources => D3DInv'
<1> SUFFICES ASSUME D3DInv, D3DClearCachedResources PROVE D3DInv'
  OBVIOUS
<1>1. PICK isCurrent \in BOOLEAN :
        LET h == Deleted(d3dHost, isCurrent)
        IN /\ d3dHost' = [h EXCEPT !.gl = 0]
           /\ d3dOwned' = StillOwned(h)
           /\ d3dTrouble' = d3dTrouble \cup Stale(d3dHost, isCurrent)
  BY DEF D3DClearCachedResources
<1> DEFINE h == Deleted(d3dHost, isCurrent)
<1>2. /\ UNCHANGED <<d3dKind, d3dKeyed, d3dFrame, d3dWritten>>
      /\ d3dFrame.phase = "none"
      /\ d3dDevice' \in {d3dDevice, d3dDevice + 1} \cap Devices
      /\ d3dMode' \in {d3dMode, "software"}
  BY DEF D3DClearCachedResources
<1>3. /\ h \in D3DHosts
      /\ h.gl = d3dHost.gl /\ h.locked = d3dHost.locked
      /\ h.swLocked = d3dHost.swLocked
      /\ h.cpu = d3dHost.cpu /\ h.data = d3dHost.data
      /\ \/ h = d3dHost
         \/ /\ h.handle = 0 /\ h.mutexes = FALSE
            /\ h.textures = [t \in SharedTextures |-> 0]
      /\ (d3dHost.handle # 0 /\ d3dHost.gl # 0
            /\ (isCurrent \/ d3dKind = "dxgi") => h.handle = 0)
      /\ (HandlesAreWhole(d3dHost) => HandlesAreWhole(h))
  <2>1. d3dHost \in D3DHosts
    BY D3DTypes
  <2> QED
    BY <2>1, DeletedFacts
<1>4. /\ d3dHost' = [h EXCEPT !.gl = 0] /\ d3dOwned' = StillOwned(h)
      /\ d3dTrouble' = d3dTrouble \cup Stale(d3dHost, isCurrent)
  BY <1>1
<1> HIDE DEF h
<1>5. 0 \in Devices
  BY D3DHostsAssumption DEF Devices
<1>6. /\ d3dHost' \in D3DHosts /\ d3dHost'.gl = 0
      /\ d3dHost'.locked = h.locked /\ d3dHost'.swLocked = h.swLocked
      /\ d3dHost'.cpu = h.cpu /\ d3dHost'.data = h.data
      /\ d3dHost'.handle = h.handle /\ d3dHost'.mutexes = h.mutexes
      /\ d3dHost'.textures = h.textures
  BY <1>3, <1>4, <1>5 DEF D3DHosts
<1>7. d3dDevice' \in 1 .. MaxDevices /\ d3dMode' \in {"gl", "software"}
  BY <1>2, D3DTypes, D3DHostsAssumption DEF Devices
<1>8. /\ d3dOwned' \subseteq SharedTextures /\ d3dOwned' \subseteq d3dOwned
      /\ d3dTrouble' \subseteq {"context", "timeout", "staging", "map"}
  BY <1>4, D3DTypes DEF StillOwned, Stale
<1>9. D3DShape'
  <2>1. D3DTypeOK'
    BY <1>2, <1>6, <1>7, <1>8, D3DTypes, D3DTypesKept DEF D3DTypeOK, D3DHosts
  <2> QED
    BY <1>2, <1>3, <1>6, <2>1, D3DTypesKept DEF D3DInv, D3DShape
<1>10. ASSUME d3dTrouble' = {}
       PROVE  /\ HandlesAreWhole(d3dHost)' /\ MutexesGoWithTheLock'
              /\ PlanesAreMappedInTurn'
  <2>1. d3dTrouble = {} /\ Stale(d3dHost, isCurrent) = {}
    BY <1>4, <1>10
  <2>2. /\ HandlesAreWhole(d3dHost) /\ MutexesGoWithTheLock
        /\ PlanesAreMappedInTurn
    BY <2>1 DEF D3DInv
  <2>3. h.handle = 0
    <3> SUFFICES ASSUME h.handle # 0 PROVE FALSE
      OBVIOUS
    <3>1. d3dHost.handle # 0 /\ d3dHost.gl = d3dHost.handle
      BY <1>3, <2>2 DEF HandlesAreWhole
    <3>2. isCurrent \/ d3dKind = "dxgi"
      BY <2>1, <3>1, D3DTypes DEF Stale
    <3> QED
      BY <1>3, <3>1, <3>2
  <2>4. HandlesAreWhole(d3dHost)'
    BY <1>2, <1>3, <1>6, <2>2, <2>3, D3DTypesKept DEF HandlesAreWhole
  <2>5. MutexesGoWithTheLock'
    BY <1>2, <1>3, <1>6, <1>8, <2>2 DEF MutexesGoWithTheLock
  <2>6. PlanesAreMappedInTurn'
    BY <1>2, <1>3, <1>6, <2>2, D3DTypesKept DEF PlanesAreMappedInTurn
  <2> QED
    BY <2>4, <2>5, <2>6
<1> QED
  BY <1>9, <1>10 DEF D3DInv

(* The writer draws when nobody owns the mutexes.                           *)
LEMMA D3DWriteInv == D3DInv /\ D3DWrite => D3DInv'
<1> SUFFICES ASSUME D3DInv, D3DWrite PROVE D3DInv'
  OBVIOUS
<1>1. /\ UNCHANGED <<d3dKind, d3dKeyed, d3dHost, d3dOwned, d3dDevice, d3dMode,
                     d3dFrame, d3dTrouble>>
      /\ d3dWritten' \in 1 .. MaxWrites + 1 /\ d3dWritten' >= d3dWritten
  BY D3DTypes, D3DHostsAssumption DEF D3DWrite
<1>2. D3DShape'
  <2>1. D3DTypeOK'
    BY <1>1, D3DTypes, D3DTypesKept DEF D3DTypeOK, D3DHosts
  <2>2. d3dFrame'.since <= d3dWritten'
    BY <1>1, D3DTypes DEF D3DInv, D3DShape
  <2> QED
    BY <1>1, <2>1, <2>2, D3DTypesKept DEF D3DInv, D3DShape
<1>3. d3dTrouble = {} => /\ HandlesAreWhole(d3dHost)' /\ MutexesGoWithTheLock'
                         /\ PlanesAreMappedInTurn'
  BY <1>1, D3DTypesKept DEF D3DInv, HandlesAreWhole, MutexesGoWithTheLock,
                            PlanesAreMappedInTurn
<1> QED
  BY <1>1, <1>2, <1>3 DEF D3DInv

(* Every step, then.                                                        *)
LEMMA D3DStepInv == D3DInv /\ [D3DNext]_d3dVars => D3DInv'
<1> SUFFICES ASSUME D3DInv, [D3DNext]_d3dVars PROVE D3DInv'
  OBVIOUS
<1>1. CASE UNCHANGED d3dVars
  BY <1>1 DEF d3dVars, D3DInv, D3DShape, D3DTypeOK, HandlesAreWhole,
     MutexesGoWithTheLock, PlanesAreMappedInTurn, SharedTextures, Devices
<1> QED
  BY <1>1, D3DLockInv, D3DUnlockInv, D3DGetTextureInv, D3DLockSWGLInv,
     D3DMapPlaneInv, D3DMapPlaneFailsInv, D3DUnlockSWGLInv, D3DClearInv,
     D3DWriteInv DEF D3DNext

(* It is enough for the property of the run.                                *)
LEMMA D3DInvConsistent == D3DInv => D3DConsistent
<1> SUFFICES ASSUME D3DInv PROVE D3DConsistent
  OBVIOUS
<1>1. ASSUME d3dTrouble = {}
      PROVE  GivenImagesAreOwned /\ GivenPlanesAreFresh /\ IdleHostsHoldNothing
  <2>1. /\ HandlesAreWhole(d3dHost) /\ MutexesGoWithTheLock
        /\ PlanesAreMappedInTurn
    BY <1>1 DEF D3DInv
  <2>2. GivenImagesAreOwned
    <3> SUFFICES ASSUME d3dFrame.phase = "gl", d3dFrame.given
                 PROVE  /\ d3dHost.handle = d3dDevice /\ IsOpen(d3dHost)
                        /\ d3dKeyed => d3dOwned = SharedTextures
      BY DEF GivenImagesAreOwned
    <3>1. d3dHost.gl = d3dDevice
      BY DEF D3DInv, D3DShape
    <3> QED
      BY <2>1, <3>1 DEF HandlesAreWhole, MutexesGoWithTheLock, IsOpen
  <2>3. GivenPlanesAreFresh
    BY <2>1 DEF PlanesAreMappedInTurn, GivenPlanesAreFresh
  <2>4. IdleHostsHoldNothing
    BY <2>1 DEF PlanesAreMappedInTurn, MutexesGoWithTheLock,
                IdleHostsHoldNothing
  <2> QED
    BY <2>2, <2>3, <2>4
<1> QED
  BY <1>1 DEF D3DInv, D3DShape, D3DConsistent

-----------------------------------------------------------------------------
(* Native layers                                                            *)

(* The layers of a surface by tile; an external surface or a backdrop has a *)
(* single one, under a key that does not matter.                            *)
AnyTile == CHOOSE t \in TileKeys : TRUE
LayerMaps == UNION {[D -> Nat] : D \in SUBSET (TileKeys \cup {AnyTile})}
NativeRecords ==
  [kind : {"none", "tiles", "external", "backdrop"}, layers : LayerMaps]

(* The values the state takes.                                              *)
NativeTypeOK ==
  /\ swgl \in BOOLEAN /\ shouldUseNativeCompositor \in BOOLEAN
  /\ nativeSurfaces \in [NativeSurfaces -> NativeRecords]
  /\ mNativeLayerForEntireWindow \in [layer : Nat, size : Nat]
  /\ clientArea \in WindowSizes
  /\ mCurrentlyBoundNativeLayer \in Nat /\ mLayerTarget \in Nat
  /\ defaultFramebuffer \in Nat
  /\ mAddedLayers \in Seq(Nat) /\ rootLayers \in Seq(Nat)
  /\ mTotalTiles \in Nat /\ lastLayer \in Nat /\ discarded \subseteq Nat
  /\ nativePhase \in {"idle", "drawing", "adding", "composited"}

(* Each live tile has a layer of its own, made before now and never        *)
(* discarded.                                                              *)
LayersAreOwn ==
  /\ \A s \in NativeSurfaces :
       LET surface == nativeSurfaces[s]
       IN /\ surface.kind = "none" => DOMAIN surface.layers = {}
          /\ surface.kind = "tiles" => DOMAIN surface.layers \subseteq TileKeys
          /\ IsFiniteSet(DOMAIN surface.layers)
          /\ \A k \in DOMAIN surface.layers :
               /\ surface.layers[k] <= lastLayer
               /\ surface.layers[k] \notin discarded
               /\ \A r \in NativeSurfaces :
                    \A j \in DOMAIN nativeSurfaces[r].layers :
                      nativeSurfaces[r].layers[j] = surface.layers[k] =>
                        r = s /\ j = k
  /\ \A l \in discarded : l <= lastLayer

(* What each kind of compositor never does.                                *)
CompositorsDiffer ==
  IF shouldUseNativeCompositor
  THEN /\ Window = 0 /\ defaultFramebuffer = 0
       /\ mCurrentlyBoundNativeLayer # 0 => nativePhase = "drawing"
  ELSE /\ nativePhase \in {"idle", "drawing"}
       /\ mCurrentlyBoundNativeLayer = 0
       /\ rootLayers = IF Window = 0 THEN <<>> ELSE <<Window>>

(* What was added to a frame stays live until it is composited, and what is *)
(* composited is what was added.                                            *)
AddedAreLive ==
  /\ nativePhase \in {"adding", "composited"} =>
       ToSet(mAddedLayers) \cap discarded = {}
  /\ nativePhase = "composited" => rootLayers = mAddedLayers

(* The inductive invariant: the parts of NativeConsistent with those they   *)
(* rest on. That each layer is of one tile only (LayersAreOwn) is what lets *)
(* the layers of a surface be dropped without touching those of others.     *)
NativeInv ==
  /\ NativeTypeOK /\ LayersAreOwn /\ CompositorsDiffer /\ AddedAreLive
  /\ BoundIsMapped /\ WindowFramebufferIsMapped
  /\ IsFiniteSet(LiveTiles) /\ TilesAreCounted

(* Taking its only element out of a sequence leaves it empty.               *)
LEMMA RemoveOnlyElement == ASSUME NEW w PROVE RemoveFirst(<<w>>, w) = <<>>
<1> DEFINE I == {i \in 1 .. 1 : <<w>>[i] = w}
<1>1. I = {1}
  OBVIOUS
<1>2. Len(<<w>>) = 1 /\ <<w>>[1] = w
  OBVIOUS
<1>3. SelectInSeq(<<w>>, LAMBDA v : v = w) = 1
  BY <1>1 DEF SelectInSeq, Min
<1>4. RemoveFirst(<<w>>, w) = RemoveAt(<<w>>, 1)
  BY <1>2, <1>3 DEF RemoveFirst
<1>5. RemoveAt(<<w>>, 1) = <<>>
  BY DEF RemoveAt
<1> QED
  BY <1>4, <1>5

(* The sequence of a finite set holds the elements of the set.              *)
LEMMA SetToSeqFacts ==
  ASSUME NEW S, IsFiniteSet(S)
  PROVE  SetToSeq(S) \in Seq(S) /\ ToSet(SetToSeq(S)) = S
<1>1. PICK f \in Bijection(1 .. Cardinality(S), S) : TRUE
  BY FS_CardinalityType DEF ExistsBijection
<1>2. f \in [1 .. Cardinality(S) -> S] /\ IsInjective(f)
  BY <1>1 DEF Bijection, Injection, IsInjective
<1>3. /\ SetToSeq(S) \in [1 .. Cardinality(S) -> S]
      /\ IsInjective(SetToSeq(S))
  BY <1>2 DEF SetToSeq
<1>4. /\ Cardinality(S) \in Nat /\ IsFiniteSet(1 .. Cardinality(S))
      /\ Cardinality(1 .. Cardinality(S)) = Cardinality(S)
  BY FS_CardinalityType, FS_Interval
<1>5. SetToSeq(S) \in Injection(1 .. Cardinality(S), S)
  BY <1>3 DEF Injection, IsInjective
<1>6. SetToSeq(S) \in Surjection(1 .. Cardinality(S), S)
  BY <1>4, <1>5, FS_Injection
<1> QED
  BY <1>3, <1>4, <1>6 DEF ToSet, Surjection

(* A concatenation holds what its two parts hold.                           *)
LEMMA ToSetOfConcatenation ==
  ASSUME NEW S, NEW s \in Seq(S), NEW t \in Seq(S)
  PROVE  ToSet(s \o t) = ToSet(s) \cup ToSet(t)
<1>1. ASSUME NEW i \in DOMAIN (s \o t)
      PROVE  (s \o t)[i] \in ToSet(s) \cup ToSet(t)
  BY DEF ToSet
<1>2. ASSUME NEW i \in DOMAIN s PROVE s[i] \in ToSet(s \o t)
  <2>1. (s \o t)[i] = s[i] /\ i \in DOMAIN (s \o t)
    OBVIOUS
  <2> QED
    BY <2>1 DEF ToSet
<1>3. ASSUME NEW i \in DOMAIN t PROVE t[i] \in ToSet(s \o t)
  <2>1. (s \o t)[i + Len(s)] = t[i] /\ i + Len(s) \in DOMAIN (s \o t)
    OBVIOUS
  <2> QED
    BY <2>1 DEF ToSet
<1> QED
  BY <1>1, <1>2, <1>3 DEF ToSet

(* What the maps of layers are.                                             *)
LEMMA LayerMapFacts ==
  /\ \A f \in LayerMaps : \A k \in DOMAIN f : f[k] \in Nat
  /\ \A f \in LayerMaps : f = [k \in DOMAIN f |-> f[k]]
  /\ \A f \in LayerMaps : DOMAIN f \subseteq TileKeys \cup {AnyTile}
  /\ NoLayers \in LayerMaps /\ DOMAIN NoLayers = {}
  /\ \A n \in Nat : [k \in {AnyTile} |-> n] \in LayerMaps
<1>1. \A f \in LayerMaps : \E D \in SUBSET (TileKeys \cup {AnyTile}) :
        f \in [D -> Nat]
  BY DEF LayerMaps
<1>2. \A D \in SUBSET (TileKeys \cup {AnyTile}) : [D -> Nat] \subseteq LayerMaps
  BY DEF LayerMaps
<1>3. NoLayers \in [{} -> Nat] /\ DOMAIN NoLayers = {}
  BY DEF NoLayers
<1>4. \A n \in Nat : [k \in {AnyTile} |-> n] \in [{AnyTile} -> Nat]
  OBVIOUS
<1>5. {} \in SUBSET (TileKeys \cup {AnyTile})
        /\ {AnyTile} \in SUBSET (TileKeys \cup {AnyTile})
  OBVIOUS
<1> QED
  BY <1>1, <1>2, <1>3, <1>4, <1>5

(* A tile added.                                                            *)
LEMMA LayerMapGrows ==
  ASSUME NEW f \in LayerMaps, NEW k \in TileKeys, NEW n \in Nat
  PROVE  [t \in DOMAIN f \cup {k} |-> IF t = k THEN n ELSE f[t]] \in LayerMaps
<1>1. DOMAIN f \cup {k} \in SUBSET (TileKeys \cup {AnyTile})
  BY LayerMapFacts
<1>2. [t \in DOMAIN f \cup {k} |-> IF t = k THEN n ELSE f[t]]
        \in [DOMAIN f \cup {k} -> Nat]
  BY LayerMapFacts
<1> QED
  BY <1>1, <1>2 DEF LayerMaps

(* A tile taken away.                                                       *)
LEMMA LayerMapShrinks ==
  ASSUME NEW f \in LayerMaps, NEW k
  PROVE  [t \in DOMAIN f \ {k} |-> f[t]] \in LayerMaps
<1>1. DOMAIN f \ {k} \in SUBSET (TileKeys \cup {AnyTile})
  BY LayerMapFacts
<1>2. [t \in DOMAIN f \ {k} |-> f[t]] \in [DOMAIN f \ {k} -> Nat]
  BY LayerMapFacts
<1> QED
  BY <1>1, <1>2 DEF LayerMaps

(* A surface that does not exist has no layers.                             *)
LEMMA AbsentFacts ==
  /\ Absent \in NativeRecords /\ Absent.kind = "none"
  /\ Absent.layers = NoLayers /\ DOMAIN Absent.layers = {}
  BY LayerMapFacts DEF Absent, NativeRecords

(* No surfaces and no layers at the start.                                  *)
LEMMA NativeInitInv == NativeInit => NativeInv
<1> SUFFICES ASSUME NativeInit PROVE NativeInv
  OBVIOUS
<1>1. nativeSurfaces = [s \in NativeSurfaces |-> Absent]
  BY DEF NativeInit
<1>2. NativeTypeOK
  BY <1>1, AbsentFacts DEF NativeInit, NativeTypeOK
<1>3. LayersAreOwn
  BY <1>1, AbsentFacts, FS_EmptySet DEF NativeInit, LayersAreOwn
<1>4. CompositorsDiffer /\ AddedAreLive
  BY DEF NativeInit, CompositorsDiffer, AddedAreLive, Window
<1>5. BoundIsMapped /\ WindowFramebufferIsMapped
  BY DEF NativeInit, BoundIsMapped, WindowFramebufferIsMapped
<1>6. LiveTiles = {}
  BY <1>1, AbsentFacts DEF LiveTiles
<1>7. IsFiniteSet(LiveTiles) /\ TilesAreCounted
  BY <1>6, FS_EmptySet DEF NativeInit, TilesAreCounted
<1> QED
  BY <1>2, <1>3, <1>4, <1>5, <1>7 DEF NativeInv

(* Steps that leave the surfaces and their tiles alone.                    *)
LEMMA SurfacesKept ==
  ASSUME NativeInv, UNCHANGED <<nativeSurfaces, mTotalTiles, discarded>>,
         lastLayer' \in Nat, lastLayer' >= lastLayer
  PROVE  /\ LayersAreOwn' /\ IsFiniteSet(LiveTiles)' /\ TilesAreCounted'
<1>1. LiveTiles' = LiveTiles
  BY DEF LiveTiles
<1>2. LayersAreOwn'
  <2>1. \A l \in Nat : l <= lastLayer => l <= lastLayer'
    BY DEF NativeInv, NativeTypeOK
  <2>2. \A s \in NativeSurfaces : \A k \in DOMAIN nativeSurfaces[s].layers :
          nativeSurfaces[s].layers[k] \in Nat
    BY LayerMapFacts DEF NativeInv, NativeTypeOK, NativeRecords
  <2>3. \A l \in discarded : l \in Nat
    BY DEF NativeInv, NativeTypeOK
  <2> QED
    BY <2>1, <2>2, <2>3 DEF NativeInv, LayersAreOwn
<1> QED
  BY <1>1, <1>2 DEF NativeInv, TilesAreCounted

(* BeginFrame: the window's layer is made anew if its size is not the       *)
(* window's, and mapped; or it cannot be, and the frame does not begin.     *)
LEMMA NativeBeginInv == NativeInv /\ NativeBeginFrame => NativeInv'
<1> SUFFICES ASSUME NativeInv, NativeBeginFrame PROVE NativeInv'
  OBVIOUS
<1> USE DEF NativeInv
<1>1. /\ nativePhase = "idle"
      /\ UNCHANGED <<swgl, shouldUseNativeCompositor, nativeSurfaces,
                     mCurrentlyBoundNativeLayer, mAddedLayers, mTotalTiles,
                     discarded>>
      /\ mCurrentlyBoundNativeLayer = 0 /\ mLayerTarget = 0
  BY DEF NativeBeginFrame, constantVars, CompositorsDiffer, BoundIsMapped
<1>2. CASE shouldUseNativeCompositor
  <2>1. /\ nativePhase' = "drawing"
        /\ UNCHANGED <<lastLayer, mNativeLayerForEntireWindow, clientArea,
                       rootLayers, mLayerTarget, defaultFramebuffer>>
    BY <1>2 DEF NativeBeginFrame, windowVars
  <2> QED
    BY <1>1, <1>2, <2>1, SurfacesKept
       DEF NativeTypeOK, CompositorsDiffer, AddedAreLive, BoundIsMapped,
           WindowFramebufferIsMapped, Window
<1>3. CASE ~shouldUseNativeCompositor
  <2>1. PICK made \in BOOLEAN : PrepareWindowLayer(made)
    BY <1>3 DEF NativeBeginFrame
  <2>2. /\ clientArea # 0 /\ UNCHANGED clientArea
        /\ \/ /\ nativePhase' = "drawing"
              /\ mLayerTarget' = (IF swgl THEN mNativeLayerForEntireWindow'
                                               .layer ELSE 0)
              /\ defaultFramebuffer' = mNativeLayerForEntireWindow'.layer
           \/ /\ nativePhase' = "idle"
              /\ UNCHANGED <<mLayerTarget, defaultFramebuffer>>
    BY <1>3 DEF NativeBeginFrame
  <2>3. rootLayers = IF Window = 0 THEN <<>> ELSE <<Window>>
    BY <1>3 DEF CompositorsDiffer
  <2>4. clientArea \in Nat /\ Window \in Nat /\ lastLayer \in Nat
    BY LayersAssumption DEF NativeTypeOK, Window
  <2>5. /\ lastLayer' \in Nat /\ lastLayer' >= lastLayer
        /\ mNativeLayerForEntireWindow' \in [layer : Nat, size : Nat]
        /\ rootLayers' \in Seq(Nat)
        /\ rootLayers' = (IF Window' = 0 THEN <<>> ELSE <<Window'>>)
    <3>1. CASE made
      <4>1. /\ lastLayer' = lastLayer + 1
            /\ mNativeLayerForEntireWindow' =
                 [layer |-> lastLayer + 1, size |-> clientArea]
            /\ \E stale \in BOOLEAN :
                 /\ rootLayers' = Append(RootAfterResize(stale), lastLayer + 1)
                 /\ stale \/ Window = 0
        BY <2>1, <3>1 DEF PrepareWindowLayer
      <4>2. RootAfterResize(TRUE) = <<>>
        <5>1. CASE Window = 0
          <6>1. RemoveFirst(<<>>, Window) = <<>>
            BY DEF RemoveFirst
          <6> QED
            BY <2>3, <5>1, <6>1 DEF RootAfterResize
        <5>2. CASE Window # 0
          BY <2>3, <5>2, RemoveOnlyElement DEF RootAfterResize
        <5> QED
          BY <5>1, <5>2
      <4>3. Window = 0 => RootAfterResize(FALSE) = <<>>
        BY <2>3 DEF RootAfterResize
      <4>4. rootLayers' = <<lastLayer + 1>>
        <5>1. PICK stale \in BOOLEAN :
                /\ rootLayers' = Append(RootAfterResize(stale), lastLayer + 1)
                /\ stale \/ Window = 0
          BY <4>1
        <5>2. RootAfterResize(stale) = <<>>
          <6>1. CASE stale = TRUE
            BY <4>2, <6>1
          <6>2. CASE stale = FALSE
            BY <4>3, <5>1, <6>2
          <6> QED
            BY <6>1, <6>2
        <5>3. rootLayers' = Append(<<>>, lastLayer + 1)
          BY <5>1, <5>2
        <5> HIDE DEF NativeInv
        <5> QED
          BY <5>3
      <4>5. Window' = lastLayer + 1 /\ Window' # 0
        BY <2>4, <4>1 DEF Window
      <4>6. lastLayer' \in Nat /\ lastLayer' >= lastLayer
        BY <2>4, <4>1
      <4>7. mNativeLayerForEntireWindow' \in [layer : Nat, size : Nat]
        BY <2>4, <4>1
      <4>8. rootLayers' \in Seq(Nat)
        BY <2>4, <4>4
      <4>9. rootLayers' = (IF Window' = 0 THEN <<>> ELSE <<Window'>>)
        BY <4>4, <4>5
      <4> QED
        BY <4>6, <4>7, <4>8, <4>9
    <3>2. CASE ~made
      <4>1. UNCHANGED <<lastLayer, mNativeLayerForEntireWindow, rootLayers>>
        BY <2>1, <3>2 DEF PrepareWindowLayer
      <4> QED
        BY <2>3, <2>4, <4>1 DEF NativeTypeOK, Window
    <3> QED
      BY <3>1, <3>2
  <2>6. Window' = mNativeLayerForEntireWindow'.layer /\ Window' \in Nat
    BY <2>5 DEF Window
  <2>7. NativeTypeOK'
    BY <1>1, <2>2, <2>5, <2>6 DEF NativeTypeOK
  <2>8. CompositorsDiffer' /\ AddedAreLive'
    BY <1>1, <1>3, <2>2, <2>5 DEF CompositorsDiffer, AddedAreLive
  <2>9. BoundIsMapped' /\ WindowFramebufferIsMapped'
    BY <1>1, <2>2, <2>6 DEF BoundIsMapped, WindowFramebufferIsMapped,
                            NativeTypeOK
  <2> QED
    BY <1>1, <2>5, <2>7, <2>8, <2>9, SurfacesKept
<1> QED
  BY <1>2, <1>3

(* The end of a frame gives the window's draw target back.                  *)
LEMMA NativeEndInv == NativeInv /\ NativeEndOrCancelFrame => NativeInv'
<1> SUFFICES ASSUME NativeInv, NativeEndOrCancelFrame PROVE NativeInv'
  OBVIOUS
<1>1. /\ mCurrentlyBoundNativeLayer = 0 /\ nativePhase' = "idle"
      /\ nativePhase \in {"drawing", "composited"}
      /\ UNCHANGED <<swgl, shouldUseNativeCompositor, nativeSurfaces,
           mNativeLayerForEntireWindow, clientArea, mTotalTiles, lastLayer,
           discarded, mAddedLayers, rootLayers, mCurrentlyBoundNativeLayer>>
  BY DEF NativeEndOrCancelFrame, constantVars, windowVars, surfaceVars,
         addVars
<1>2. UNCHANGED Window
  BY <1>1 DEF Window
<1>3. /\ mLayerTarget' = 0
      /\ defaultFramebuffer' = defaultFramebuffer
           \/ (swgl /\ defaultFramebuffer' = 0)
      /\ swgl => defaultFramebuffer' = 0
  <2>1. CASE Window # 0 /\ mLayerTarget # 0
    <3>1. mLayerTarget' = 0 /\ defaultFramebuffer' = FramebufferAfterUnmap
      BY <2>1 DEF NativeEndOrCancelFrame, UnmapWindow
    <3> QED
      BY <3>1 DEF FramebufferAfterUnmap
  <2>2. CASE ~(Window # 0 /\ mLayerTarget # 0)
    <3>1. UNCHANGED <<mLayerTarget, defaultFramebuffer>>
      BY <2>2 DEF NativeEndOrCancelFrame, UnmapWindow
    <3>2. mLayerTarget = 0
      BY <1>1, <2>2 DEF NativeInv, BoundIsMapped
    <3> QED
      BY <3>1, <3>2 DEF NativeInv, WindowFramebufferIsMapped
  <2> QED
    BY <2>1, <2>2
<1>4. lastLayer' \in Nat /\ lastLayer' >= lastLayer
  BY <1>1 DEF NativeInv, NativeTypeOK
<1>5. NativeTypeOK' /\ CompositorsDiffer' /\ AddedAreLive'
  BY <1>1, <1>2, <1>3
     DEF NativeInv, NativeTypeOK, CompositorsDiffer, AddedAreLive
<1>6. BoundIsMapped' /\ WindowFramebufferIsMapped'
  BY <1>1, <1>3 DEF BoundIsMapped, WindowFramebufferIsMapped
<1> QED
  BY <1>1, <1>4, <1>5, <1>6, SurfacesKept DEF NativeInv

(* The window changes size at any time.                                     *)
LEMMA ResizeInv == NativeInv /\ Resize => NativeInv'
<1> SUFFICES ASSUME NativeInv, Resize PROVE NativeInv'
  OBVIOUS
<1>1. /\ clientArea' \in WindowSizes
      /\ UNCHANGED <<swgl, shouldUseNativeCompositor, nativeSurfaces,
           mNativeLayerForEntireWindow, mTotalTiles, lastLayer, discarded,
           mAddedLayers, rootLayers, mCurrentlyBoundNativeLayer, mLayerTarget,
           defaultFramebuffer, nativePhase>>
  BY DEF Resize, constantVars, surfaceVars, addVars, drawVars
<1>2. lastLayer' \in Nat /\ lastLayer' >= lastLayer
  BY <1>1 DEF NativeInv, NativeTypeOK
<1>3. LayersAreOwn' /\ IsFiniteSet(LiveTiles)' /\ TilesAreCounted'
  BY <1>1, <1>2, SurfacesKept
<1> QED
  BY <1>1, <1>3 DEF NativeInv, NativeTypeOK, CompositorsDiffer, AddedAreLive,
                    BoundIsMapped, WindowFramebufferIsMapped, Window

(* The steps that only draw, or only give the frame its layers.            *)
LEMMA BindTileInv ==
  NativeInv /\ (\E s \in NativeSurfaces : \E k \in TileKeys : BindTile(s, k))
    => NativeInv'
<1> SUFFICES ASSUME NativeInv, NEW s \in NativeSurfaces, NEW k \in TileKeys,
                    BindTile(s, k)
             PROVE  NativeInv'
  OBVIOUS
<1>1. /\ shouldUseNativeCompositor /\ nativePhase = "drawing"
      /\ mCurrentlyBoundNativeLayer = 0
      /\ k \in DOMAIN nativeSurfaces[s].layers
      /\ UNCHANGED <<swgl, shouldUseNativeCompositor, nativeSurfaces,
           mNativeLayerForEntireWindow, clientArea, mTotalTiles, lastLayer,
           discarded, mAddedLayers, rootLayers, defaultFramebuffer,
           nativePhase>>
  BY DEF BindTile, NativeChanging, constantVars, windowVars, surfaceVars,
         addVars
<1> DEFINE layer == nativeSurfaces[s].layers[k]
<1>2. layer \in Nat
  BY <1>1, LayerMapFacts DEF NativeInv, NativeTypeOK, NativeRecords
<1>3. \/ /\ mCurrentlyBoundNativeLayer' = layer
         /\ mLayerTarget' = (IF swgl THEN layer ELSE 0)
      \/ swgl /\ mCurrentlyBoundNativeLayer' = 0 /\ UNCHANGED mLayerTarget
  BY DEF BindTile, BoundAfterFailedMap
<1> HIDE DEF layer
<1>4. Window = 0 /\ Window' = 0 /\ defaultFramebuffer = 0 /\ mLayerTarget = 0
  <2>1. Window = 0 /\ defaultFramebuffer = 0
    BY <1>1 DEF NativeInv, CompositorsDiffer
  <2>2. mLayerTarget = 0
    BY <1>1, <2>1 DEF NativeInv, BoundIsMapped
  <2> QED
    BY <1>1, <2>1, <2>2 DEF Window
<1>5. lastLayer' \in Nat /\ lastLayer' >= lastLayer
  BY <1>1 DEF NativeInv, NativeTypeOK
<1>6. NativeTypeOK'
  BY <1>1, <1>2, <1>3 DEF NativeInv, NativeTypeOK
<1>7. CompositorsDiffer' /\ AddedAreLive'
  BY <1>1, <1>4 DEF NativeInv, CompositorsDiffer, AddedAreLive
<1>8. BoundIsMapped' /\ WindowFramebufferIsMapped'
  BY <1>1, <1>3, <1>4 DEF BoundIsMapped, WindowFramebufferIsMapped
<1> QED
  BY <1>1, <1>5, <1>6, <1>7, <1>8, SurfacesKept DEF NativeInv

(* Unbind gives the draw target of the bound tile back.                     *)
LEMMA UnbindTileInv == NativeInv /\ UnbindTile => NativeInv'
<1> SUFFICES ASSUME NativeInv, UnbindTile PROVE NativeInv'
  OBVIOUS
<1>1. /\ mCurrentlyBoundNativeLayer # 0
      /\ mCurrentlyBoundNativeLayer' = 0 /\ mLayerTarget' = 0
      /\ UNCHANGED <<swgl, shouldUseNativeCompositor, nativeSurfaces,
           mNativeLayerForEntireWindow, clientArea, mTotalTiles, lastLayer,
           discarded, mAddedLayers, rootLayers, defaultFramebuffer,
           nativePhase>>
  BY DEF UnbindTile, constantVars, windowVars, surfaceVars, addVars
<1>2. shouldUseNativeCompositor /\ defaultFramebuffer = 0
  BY <1>1 DEF NativeInv, CompositorsDiffer
<1>3. lastLayer' \in Nat /\ lastLayer' >= lastLayer /\ Window' = Window
  BY <1>1 DEF NativeInv, NativeTypeOK, Window
<1>4. NativeTypeOK' /\ CompositorsDiffer' /\ AddedAreLive'
  BY <1>1, <1>3
     DEF NativeInv, NativeTypeOK, CompositorsDiffer, AddedAreLive
<1>5. BoundIsMapped' /\ WindowFramebufferIsMapped'
  BY <1>1, <1>2 DEF BoundIsMapped, WindowFramebufferIsMapped
<1> QED
  BY <1>1, <1>3, <1>4, <1>5, SurfacesKept DEF NativeInv

(* CompositorBeginFrame starts with nothing added.                          *)
LEMMA NativeFrameBeginInv == NativeInv /\ NativeCompositorBeginFrame => NativeInv'
<1> SUFFICES ASSUME NativeInv, NativeCompositorBeginFrame PROVE NativeInv'
  OBVIOUS
<1>1. /\ shouldUseNativeCompositor /\ nativePhase = "drawing"
      /\ mCurrentlyBoundNativeLayer = 0
      /\ nativePhase' = "adding" /\ mAddedLayers' = <<>>
      /\ UNCHANGED <<swgl, shouldUseNativeCompositor, nativeSurfaces,
           mNativeLayerForEntireWindow, clientArea, mTotalTiles, lastLayer,
           discarded, rootLayers, mCurrentlyBoundNativeLayer, mLayerTarget,
           defaultFramebuffer>>
  BY DEF NativeCompositorBeginFrame, NativeChanging, constantVars, windowVars,
         surfaceVars, drawVars
<1>2. lastLayer' \in Nat /\ lastLayer' >= lastLayer /\ Window' = Window
  BY <1>1 DEF NativeInv, NativeTypeOK, Window
<1>3. NativeTypeOK' /\ CompositorsDiffer' /\ BoundIsMapped'
        /\ WindowFramebufferIsMapped'
  BY <1>1, <1>2 DEF NativeInv, NativeTypeOK, CompositorsDiffer,
                    BoundIsMapped, WindowFramebufferIsMapped
<1>4. AddedAreLive'
  BY <1>1 DEF AddedAreLive, ToSet
<1> QED
  BY <1>1, <1>2, <1>3, <1>4, SurfacesKept DEF NativeInv

(* Finitely many tiles have finitely many layers.                           *)
LEMMA LayersOfSurfaceFinite ==
  ASSUME NEW f, IsFiniteSet(DOMAIN f)
  PROVE  IsFiniteSet({f[k] : k \in DOMAIN f})
<1> DEFINE g == [k \in DOMAIN f |-> f[k]]
           T == {f[k] : k \in DOMAIN f}
<1>1. g \in Surjection(DOMAIN f, T)
  BY DEF Surjection
<1> HIDE DEF g, T
<1>2. IsFiniteSet(T)
  BY <1>1, FS_Surjection
<1> QED
  BY <1>2 DEF T

(* AddSurface adds layers of a surface that exists: none of them was        *)
(* discarded.                                                               *)
LEMMA NativeAddInv ==
  NativeInv /\ (\E s \in NativeSurfaces : NativeAddSurface(s)) => NativeInv'
<1> SUFFICES ASSUME NativeInv, NEW s \in NativeSurfaces, NativeAddSurface(s)
             PROVE  NativeInv'
  OBVIOUS
<1> DEFINE layers == nativeSurfaces[s].layers
           added == {layers[k] : k \in DOMAIN layers}
<1>1. /\ nativePhase = "adding" /\ mCurrentlyBoundNativeLayer = 0
      /\ mAddedLayers' = mAddedLayers \o SetToSeq(added)
      /\ UNCHANGED <<swgl, shouldUseNativeCompositor, nativeSurfaces,
           mNativeLayerForEntireWindow, clientArea, mTotalTiles, lastLayer,
           discarded, rootLayers, mCurrentlyBoundNativeLayer, mLayerTarget,
           defaultFramebuffer, nativePhase>>
  BY DEF NativeAddSurface, constantVars, windowVars, surfaceVars, drawVars
<1>2. IsFiniteSet(DOMAIN layers)
  BY DEF NativeInv, LayersAreOwn
<1>3. added \subseteq Nat
  BY LayerMapFacts DEF NativeInv, NativeTypeOK, NativeRecords
<1>4. added \cap discarded = {}
  BY DEF NativeInv, LayersAreOwn
<1> HIDE DEF layers
<1>5. IsFiniteSet(added)
  BY <1>2, LayersOfSurfaceFinite
<1> HIDE DEF added
<1>6. SetToSeq(added) \in Seq(Nat) /\ ToSet(SetToSeq(added)) = added
  <2>1. SetToSeq(added) \in Seq(added) /\ ToSet(SetToSeq(added)) = added
    BY <1>5, SetToSeqFacts
  <2>2. SetToSeq(added) \in Seq(Nat)
    BY <1>3, <2>1, SeqMonotonic
  <2> QED
    BY <2>1, <2>2
<1>7. mAddedLayers \in Seq(Nat)
  BY DEF NativeInv, NativeTypeOK
<1>8. mAddedLayers' \in Seq(Nat)
        /\ ToSet(mAddedLayers') = ToSet(mAddedLayers) \cup added
  BY <1>1, <1>6, <1>7, ToSetOfConcatenation
<1>9. shouldUseNativeCompositor
  BY <1>1 DEF NativeInv, CompositorsDiffer
<1>10. lastLayer' \in Nat /\ lastLayer' >= lastLayer /\ Window' = Window
  BY <1>1 DEF NativeInv, NativeTypeOK, Window
<1>11. NativeTypeOK'
  BY <1>1, <1>8 DEF NativeInv, NativeTypeOK
<1>12. CompositorsDiffer' /\ BoundIsMapped' /\ WindowFramebufferIsMapped'
  BY <1>1, <1>9, <1>10 DEF NativeInv, CompositorsDiffer,
                    BoundIsMapped, WindowFramebufferIsMapped
<1>13. AddedAreLive'
  BY <1>1, <1>4, <1>8 DEF NativeInv, AddedAreLive
<1> QED
  BY <1>1, <1>10, <1>11, <1>12, <1>13, SurfacesKept DEF NativeInv

(* CompositorEndFrame makes what was added what the root shows.             *)
LEMMA NativeFrameEndInv == NativeInv /\ NativeCompositorEndFrame => NativeInv'
<1> SUFFICES ASSUME NativeInv, NativeCompositorEndFrame PROVE NativeInv'
  OBVIOUS
<1>1. /\ nativePhase = "adding" /\ nativePhase' = "composited"
      /\ rootLayers' = mAddedLayers
      /\ UNCHANGED <<swgl, shouldUseNativeCompositor, nativeSurfaces,
           mNativeLayerForEntireWindow, clientArea, mTotalTiles, lastLayer,
           discarded, mAddedLayers, mCurrentlyBoundNativeLayer, mLayerTarget,
           defaultFramebuffer>>
  BY DEF NativeCompositorEndFrame, constantVars, windowVars, surfaceVars,
         drawVars
<1>2. shouldUseNativeCompositor /\ mCurrentlyBoundNativeLayer = 0
  BY <1>1 DEF NativeInv, CompositorsDiffer
<1>3. lastLayer' \in Nat /\ lastLayer' >= lastLayer /\ Window' = Window
  BY <1>1 DEF NativeInv, NativeTypeOK, Window
<1>4. NativeTypeOK'
  BY <1>1 DEF NativeInv, NativeTypeOK
<1>5. CompositorsDiffer' /\ BoundIsMapped' /\ WindowFramebufferIsMapped'
        /\ AddedAreLive'
  BY <1>1, <1>2, <1>3 DEF NativeInv, CompositorsDiffer, AddedAreLive,
                    BoundIsMapped, WindowFramebufferIsMapped
<1> QED
  BY <1>1, <1>3, <1>4, <1>5, SurfacesKept DEF NativeInv

(* What the steps that change the surfaces leave alone.                    *)
LEMMA ChangingKeeps ==
  ASSUME NativeInv, NativeChanging, UNCHANGED unchangedBySurfaces
  PROVE  /\ CompositorsDiffer' /\ AddedAreLive' /\ BoundIsMapped'
         /\ WindowFramebufferIsMapped'
         /\ swgl' \in BOOLEAN /\ shouldUseNativeCompositor' \in BOOLEAN
         /\ mNativeLayerForEntireWindow' \in [layer : Nat, size : Nat]
         /\ clientArea' \in WindowSizes
         /\ mCurrentlyBoundNativeLayer' \in Nat /\ mLayerTarget' \in Nat
         /\ defaultFramebuffer' \in Nat
         /\ mAddedLayers' \in Seq(Nat) /\ rootLayers' \in Seq(Nat)
         /\ nativePhase' \in {"idle", "drawing", "adding", "composited"}
<1>1. /\ nativePhase = "drawing"
      /\ UNCHANGED <<swgl, shouldUseNativeCompositor,
           mNativeLayerForEntireWindow, clientArea, mAddedLayers, rootLayers,
           mCurrentlyBoundNativeLayer, mLayerTarget, defaultFramebuffer,
           nativePhase>>
  BY DEF NativeChanging, unchangedBySurfaces, constantVars, windowVars,
         drawVars, addVars
<1>2. UNCHANGED Window
  BY <1>1 DEF Window
<1>3. CompositorsDiffer' /\ AddedAreLive' /\ BoundIsMapped'
        /\ WindowFramebufferIsMapped'
  BY <1>1, <1>2 DEF NativeInv, CompositorsDiffer, AddedAreLive, BoundIsMapped,
                    WindowFramebufferIsMapped
<1> QED
  BY <1>1, <1>3 DEF NativeInv, NativeTypeOK

(* The facts of a state about one surface, in the form the steps need.     *)
LEMMA SurfaceFacts ==
  ASSUME NativeInv, NEW s \in NativeSurfaces
  PROVE  /\ nativeSurfaces[s] \in NativeRecords
         /\ nativeSurfaces[s].layers \in LayerMaps
         /\ nativeSurfaces[s].kind \in {"none", "tiles", "external", "backdrop"}
         /\ nativeSurfaces[s].kind = "none" =>
               DOMAIN nativeSurfaces[s].layers = {}
         /\ nativeSurfaces[s].kind = "tiles" =>
               DOMAIN nativeSurfaces[s].layers \subseteq TileKeys
         /\ IsFiniteSet(DOMAIN nativeSurfaces[s].layers)
         /\ \A k \in DOMAIN nativeSurfaces[s].layers :
              /\ nativeSurfaces[s].layers[k] \in Nat
              /\ nativeSurfaces[s].layers[k] <= lastLayer
              /\ nativeSurfaces[s].layers[k] \notin discarded
              /\ \A r \in NativeSurfaces :
                   \A j \in DOMAIN nativeSurfaces[r].layers :
                     nativeSurfaces[r].layers[j] = nativeSurfaces[s].layers[k] =>
                       r = s /\ j = k
<1>1. /\ nativeSurfaces[s] \in NativeRecords
      /\ nativeSurfaces[s].layers \in LayerMaps
      /\ nativeSurfaces[s].kind \in {"none", "tiles", "external", "backdrop"}
  BY DEF NativeInv, NativeTypeOK, NativeRecords
<1>2. \A k \in DOMAIN nativeSurfaces[s].layers : nativeSurfaces[s].layers[k] \in Nat
  BY <1>1, LayerMapFacts
<1>3. LayersAreOwn
  BY DEF NativeInv
<1> QED
  BY <1>1, <1>2, <1>3 DEF LayersAreOwn

(* One surface gets the record "now", whose layers are old ones of its own *)
(* or newer than every other; a layer it loses may be discarded.           *)
LEMMA OneSurfaceChanges ==
  ASSUME NativeInv, NEW s \in NativeSurfaces, NEW now \in NativeRecords,
         nativeSurfaces' = [nativeSurfaces EXCEPT ![s] = now],
         now.kind = "none" => DOMAIN now.layers = {},
         now.kind = "tiles" => DOMAIN now.layers \subseteq TileKeys,
         IsFiniteSet(DOMAIN now.layers),
         lastLayer' \in Nat, lastLayer' >= lastLayer,
         \A k \in DOMAIN now.layers :
           \/ /\ k \in DOMAIN nativeSurfaces[s].layers
              /\ now.layers[k] = nativeSurfaces[s].layers[k]
              /\ now.layers[k] \notin discarded'
           \/ now.layers[k] = lastLayer + 1 /\ lastLayer' = lastLayer + 1,
         \A k, j \in DOMAIN now.layers :
           now.layers[k] = lastLayer + 1 /\ now.layers[j] = lastLayer + 1 =>
             k = j,
         discarded \subseteq discarded',
         \A l \in discarded' \ discarded :
           \E k \in DOMAIN nativeSurfaces[s].layers :
             l = nativeSurfaces[s].layers[k]
  PROVE  /\ nativeSurfaces' \in [NativeSurfaces -> NativeRecords]
         /\ LayersAreOwn' /\ discarded' \subseteq Nat
<1> DEFINE L(r) == nativeSurfaces[r].layers
           M(r) == nativeSurfaces'[r].layers
           N == now.layers
<1>1. nativeSurfaces \in [NativeSurfaces -> NativeRecords]
        /\ lastLayer \in Nat /\ discarded \subseteq Nat
  BY DEF NativeInv, NativeTypeOK
<1>2. /\ nativeSurfaces'[s] = now
      /\ \A r \in NativeSurfaces \ {s} : nativeSurfaces'[r] = nativeSurfaces[r]
  BY <1>1
<1>3. nativeSurfaces' \in [NativeSurfaces -> NativeRecords]
  BY <1>1
<1>4. \A r \in NativeSurfaces : \A k \in DOMAIN L(r) :
        /\ L(r)[k] \in Nat /\ L(r)[k] <= lastLayer /\ L(r)[k] \notin discarded
        /\ \A q \in NativeSurfaces : \A j \in DOMAIN L(q) :
              L(q)[j] = L(r)[k] => q = r /\ j = k
  BY SurfaceFacts
<1>5. \A l \in discarded : l \in Nat /\ l <= lastLayer
  BY <1>1 DEF NativeInv, LayersAreOwn
<1>6. \A l \in discarded' : l \in Nat /\ l <= lastLayer
  BY <1>4, <1>5
<1>7. \A l \in discarded' : l <= lastLayer'
  BY <1>1, <1>6
<1>8. \A r \in NativeSurfaces :
        /\ nativeSurfaces'[r].kind = "none" => DOMAIN M(r) = {}
        /\ nativeSurfaces'[r].kind = "tiles" => DOMAIN M(r) \subseteq TileKeys
        /\ IsFiniteSet(DOMAIN M(r))
  BY <1>2, SurfaceFacts
<1>9. M(s) = N /\ \A r \in NativeSurfaces \ {s} : M(r) = L(r)
  BY <1>2
<1> HIDE DEF L, M, N
<1>10. \A k \in DOMAIN N :
         \/ k \in DOMAIN L(s) /\ N[k] = L(s)[k] /\ N[k] \notin discarded'
         \/ N[k] = lastLayer + 1 /\ lastLayer' = lastLayer + 1
  BY DEF L, N
<1>11. \A k, j \in DOMAIN N : N[k] = lastLayer + 1 /\ N[j] = lastLayer + 1 => k = j
  BY DEF N
<1>12. \A l \in discarded' \ discarded : \E k \in DOMAIN L(s) : l = L(s)[k]
  BY DEF L
<1>13. ASSUME NEW r \in NativeSurfaces, NEW k \in DOMAIN M(r)
       PROVE  M(r)[k] \in Nat /\ M(r)[k] <= lastLayer' /\ M(r)[k] \notin discarded'
  <2>1. CASE r = s
    <3>1. CASE k \in DOMAIN L(s) /\ N[k] = L(s)[k] /\ N[k] \notin discarded'
      BY <1>1, <1>4, <1>9, <2>1, <3>1
    <3>2. CASE N[k] = lastLayer + 1 /\ lastLayer' = lastLayer + 1
      BY <1>1, <1>6, <1>9, <2>1, <3>2
    <3> QED
      BY <1>9, <1>10, <1>13, <2>1, <3>1, <3>2
  <2>2. CASE r # s
    <3>1. M(r) = L(r)
      BY <1>9, <2>2
    <3>2. L(r)[k] \in Nat /\ L(r)[k] <= lastLayer /\ L(r)[k] \notin discarded
      BY <1>4, <1>13, <3>1
    <3>3. L(r)[k] \notin discarded'
      BY <1>4, <1>12, <1>13, <2>2, <3>1, <3>2
    <3> QED
      BY <1>1, <3>1, <3>2, <3>3
  <2> QED
    BY <2>1, <2>2
<1>14. ASSUME NEW r \in NativeSurfaces, NEW k \in DOMAIN M(r),
              NEW q \in NativeSurfaces, NEW j \in DOMAIN M(q), M(q)[j] = M(r)[k]
       PROVE  q = r /\ j = k
  <2>1. CASE q # s /\ r # s
    BY <1>4, <1>9, <1>14, <2>1
  <2>2. CASE q = s /\ r # s
    <3>1. M(r) = L(r) /\ M(q) = N
      BY <1>9, <2>2
    <3>2. L(r)[k] \in Nat /\ L(r)[k] <= lastLayer
      BY <1>4, <1>14, <3>1
    <3>3. N[j] # lastLayer + 1
      BY <1>1, <1>14, <3>1, <3>2
    <3>4. j \in DOMAIN L(s) /\ N[j] = L(s)[j]
      BY <1>10, <1>14, <3>1, <3>3
    <3>5. k \in DOMAIN L(r) /\ L(s)[j] = L(r)[k]
      BY <1>14, <3>1, <3>4
    <3>6. s = r
      BY <1>4, <3>4, <3>5
    <3> QED
      BY <2>2, <3>6
  <2>3. CASE q # s /\ r = s
    <3>1. M(q) = L(q) /\ M(r) = N
      BY <1>9, <2>3
    <3>2. L(q)[j] \in Nat /\ L(q)[j] <= lastLayer
      BY <1>4, <1>14, <3>1
    <3>3. N[k] # lastLayer + 1
      BY <1>1, <1>14, <3>1, <3>2
    <3>4. k \in DOMAIN L(s) /\ N[k] = L(s)[k]
      BY <1>10, <1>14, <3>1, <3>3
    <3> QED
      BY <1>4, <1>14, <2>3, <3>1, <3>4
  <2>4. CASE q = s /\ r = s
    <3>1. j \in DOMAIN N /\ k \in DOMAIN N /\ N[j] = N[k]
      BY <1>9, <1>14, <2>4
    <3>2. CASE N[k] = lastLayer + 1
      BY <1>11, <2>4, <3>1, <3>2
    <3>3. CASE N[k] # lastLayer + 1
      <4>1. j \in DOMAIN L(s) /\ k \in DOMAIN L(s) /\ L(s)[j] = L(s)[k]
        BY <1>10, <3>1, <3>3
      <4> QED
        BY <1>4, <2>4, <4>1
    <3> QED
      BY <3>2, <3>3
  <2> QED
    BY <2>1, <2>2, <2>3, <2>4
<1>15. LayersAreOwn'
  BY <1>7, <1>8, <1>13, <1>14 DEF LayersAreOwn, M
<1> QED
  BY <1>3, <1>6, <1>15

(* A surface is made without tiles, or with the one layer of an external    *)
(* image or a backdrop, which is not counted.                               *)
LEMMA NativeCreateSurfaceInv ==
  ASSUME NativeInv, NEW s \in NativeSurfaces,
         NEW kind \in {"tiles", "external", "backdrop"},
         NativeCreateSurface(s, kind)
  PROVE  NativeInv'
<1> DEFINE one == kind # "tiles"
           new == IF one THEN [k \in {CHOOSE t \in TileKeys : TRUE}
                                 |-> lastLayer + 1]
                  ELSE NoLayers
           now == [kind |-> kind, layers |-> new]
<1>1. /\ NativeChanging /\ UNCHANGED unchangedBySurfaces
      /\ nativeSurfaces[s].kind = "none"
      /\ lastLayer' = lastLayer + (IF one THEN 1 ELSE 0)
      /\ nativeSurfaces' = [nativeSurfaces EXCEPT ![s] = now]
      /\ UNCHANGED <<mTotalTiles, discarded>>
  BY DEF NativeCreateSurface
<1>2. lastLayer \in Nat /\ mTotalTiles \in Nat /\ discarded \subseteq Nat
        /\ nativeSurfaces \in [NativeSurfaces -> NativeRecords]
  BY DEF NativeInv, NativeTypeOK
<1>3. /\ new \in LayerMaps /\ IsFiniteSet(DOMAIN new)
      /\ kind = "tiles" => DOMAIN new = {}
      /\ \A k, j \in DOMAIN new : k = j /\ new[k] = lastLayer + 1 /\ one
  <2>1. CASE one
    <3>1. new = [k \in {AnyTile} |-> lastLayer + 1]
      BY <2>1 DEF AnyTile
    <3>2. lastLayer + 1 \in Nat
      BY <1>2
    <3>3. new \in LayerMaps
      BY <3>1, <3>2, LayerMapFacts
    <3>4. DOMAIN new = {AnyTile} /\ \A k \in {AnyTile} : new[k] = lastLayer + 1
      BY <3>1
    <3>5. IsFiniteSet(DOMAIN new)
      BY <3>4, FS_Singleton
    <3> QED
      BY <2>1, <3>3, <3>4, <3>5
  <2>2. CASE ~one
    <3>1. new = NoLayers
      BY <2>2
    <3> QED
      BY <2>2, <3>1, LayerMapFacts, FS_EmptySet
  <2> QED
    BY <2>1, <2>2
<1>4. /\ now.kind = kind /\ now.layers = new
      /\ now \in NativeRecords
  <2> HIDE DEF new
  <2> QED
    BY <1>3 DEF NativeRecords
<1> HIDE DEF now, new
<1>5. lastLayer' \in Nat /\ lastLayer' >= lastLayer
  BY <1>1, <1>2
<1>6. \A k \in DOMAIN now.layers :
        now.layers[k] = lastLayer + 1 /\ lastLayer' = lastLayer + 1
  BY <1>1, <1>3, <1>4
<1>7. /\ nativeSurfaces' \in [NativeSurfaces -> NativeRecords]
      /\ LayersAreOwn' /\ discarded' \subseteq Nat
  BY <1>1, <1>3, <1>4, <1>5, <1>6, OneSurfaceChanges
<1>8. /\ nativeSurfaces'[s] = now
      /\ \A r \in NativeSurfaces \ {s} : nativeSurfaces'[r] = nativeSurfaces[r]
  BY <1>1, <1>2
<1>9. LiveTiles' = LiveTiles
  <2>1. ASSUME NEW t \in NativeSurfaces \X TileKeys
        PROVE  t \in LiveTiles' <=> t \in LiveTiles
    <3>1. t[1] \in NativeSurfaces
      OBVIOUS
    <3>2. CASE t[1] = s
      <4>1. t \notin LiveTiles
        BY <1>1, <3>2 DEF LiveTiles
      <4>2. t \notin LiveTiles'
        BY <1>3, <1>4, <1>8, <3>2 DEF LiveTiles
      <4> QED
        BY <4>1, <4>2
    <3>3. CASE t[1] # s
      BY <1>8, <3>1, <3>3 DEF LiveTiles
    <3> QED
      BY <3>2, <3>3
  <2> QED
    BY <2>1 DEF LiveTiles
<1>10. IsFiniteSet(LiveTiles)' /\ TilesAreCounted'
  BY <1>1, <1>9 DEF NativeInv, TilesAreCounted
<1>11. mTotalTiles' \in Nat
  BY <1>1, <1>2
<1> QED
  BY <1>1, <1>5, <1>7, <1>10, <1>11, ChangingKeeps DEF NativeInv, NativeTypeOK

(* A surface that is destroyed with tiles left takes them off the count.    *)
LEMMA NativeDestroySurfaceInv ==
  ASSUME NativeInv, NEW s \in NativeSurfaces, NativeDestroySurface(s)
  PROVE  NativeInv'
<1> DEFINE D == DOMAIN nativeSurfaces[s].layers
<1>1. /\ NativeChanging /\ UNCHANGED unchangedBySurfaces
      /\ mTotalTiles' = (IF nativeSurfaces[s].kind = "tiles"
                         THEN mTotalTiles - Cardinality(D) ELSE mTotalTiles)
      /\ nativeSurfaces' = [nativeSurfaces EXCEPT ![s] = Absent]
      /\ UNCHANGED <<lastLayer, discarded>>
  BY DEF NativeDestroySurface, CountAfterDestroy
<1>2. lastLayer \in Nat /\ mTotalTiles \in Nat /\ discarded \subseteq Nat
        /\ nativeSurfaces \in [NativeSurfaces -> NativeRecords]
  BY DEF NativeInv, NativeTypeOK
<1>3. lastLayer' \in Nat /\ lastLayer' >= lastLayer
  BY <1>1, <1>2
<1>4. IsFiniteSet(DOMAIN Absent.layers)
  BY AbsentFacts, FS_EmptySet
<1>5. /\ nativeSurfaces' \in [NativeSurfaces -> NativeRecords]
      /\ LayersAreOwn' /\ discarded' \subseteq Nat
  BY <1>1, <1>3, <1>4, AbsentFacts, OneSurfaceChanges
<1>6. /\ nativeSurfaces'[s] = Absent
      /\ \A r \in NativeSurfaces \ {s} : nativeSurfaces'[r] = nativeSurfaces[r]
  BY <1>1, <1>2
<1>7. /\ IsFiniteSet(D) /\ Cardinality(D) \in Nat
      /\ nativeSurfaces[s].kind = "tiles" => D \subseteq TileKeys
  BY SurfaceFacts, FS_CardinalityType
<1> DEFINE gone == IF nativeSurfaces[s].kind = "tiles" THEN {s} \X D ELSE {}
<1>8. \A t \in gone : t \in LiveTiles /\ t[1] = s
  BY <1>7 DEF LiveTiles
<1>9. \A t \in LiveTiles : t[1] = s => t \in gone
  <2>1. ASSUME NEW t \in LiveTiles, t[1] = s PROVE t \in gone
    <3>1. t \in NativeSurfaces \X TileKeys /\ nativeSurfaces[s].kind = "tiles"
            /\ t[2] \in D
      BY <2>1 DEF LiveTiles
    <3>2. t = <<s, t[2]>>
      BY <2>1, <3>1
    <3> QED
      BY <3>1, <3>2
  <2> QED
    BY <2>1
<1>10. LiveTiles' = LiveTiles \ gone
  <2>1. ASSUME NEW t \in NativeSurfaces \X TileKeys
        PROVE  t \in LiveTiles' <=> t \in LiveTiles \ gone
    <3>1. t[1] \in NativeSurfaces
      OBVIOUS
    <3>2. CASE t[1] = s
      <4>1. t \notin LiveTiles'
        BY <1>6, <3>2, AbsentFacts DEF LiveTiles
      <4> QED
        BY <1>9, <3>2, <4>1
    <3>3. CASE t[1] # s
      <4>1. t \notin gone
        BY <1>8, <3>3
      <4>2. t \in LiveTiles' <=> t \in LiveTiles
        BY <1>6, <3>1, <3>3 DEF LiveTiles
      <4> QED
        BY <4>1, <4>2
    <3> QED
      BY <3>2, <3>3
  <2> QED
    BY <2>1 DEF LiveTiles
<1>11. IsFiniteSet(gone) /\ Cardinality(gone) =
         (IF nativeSurfaces[s].kind = "tiles" THEN Cardinality(D) ELSE 0)
  <2>1. CASE nativeSurfaces[s].kind = "tiles"
    <3>1. IsFiniteSet({s}) /\ Cardinality({s}) = 1
      BY FS_Singleton
    <3> HIDE DEF D
    <3>2. IsFiniteSet({s} \X D) /\ Cardinality({s} \X D) = 1 * Cardinality(D)
      BY <1>7, <3>1, FS_Product
    <3>3. Cardinality({s} \X D) = Cardinality(D)
      BY <1>7, <3>2
    <3> QED
      BY <2>1, <3>2, <3>3
  <2>2. CASE nativeSurfaces[s].kind # "tiles"
    BY <2>2, FS_EmptySet
  <2> QED
    BY <2>1, <2>2
<1> HIDE DEF gone
<1>12. LiveTiles \cap gone = gone
  BY <1>8
<1>13. IsFiniteSet(LiveTiles) /\ mTotalTiles = Cardinality(LiveTiles)
  BY DEF NativeInv, TilesAreCounted
<1>14. /\ IsFiniteSet(LiveTiles \ gone)
       /\ Cardinality(LiveTiles \ gone) = mTotalTiles - Cardinality(gone)
       /\ Cardinality(LiveTiles \ gone) \in Nat
  <2>1. /\ IsFiniteSet(LiveTiles \ gone)
        /\ Cardinality(LiveTiles \ gone) =
             Cardinality(LiveTiles) - Cardinality(LiveTiles \cap gone)
    BY <1>13, FS_Difference
  <2>2. Cardinality(LiveTiles \ gone) \in Nat
    BY <2>1, FS_CardinalityType
  <2> QED
    BY <1>12, <1>13, <2>1, <2>2
<1>15. mTotalTiles' = mTotalTiles - Cardinality(gone)
  BY <1>1, <1>2, <1>11
<1>16. IsFiniteSet(LiveTiles)' /\ TilesAreCounted' /\ mTotalTiles' \in Nat
  BY <1>10, <1>14, <1>15 DEF TilesAreCounted
<1> QED
  BY <1>1, <1>3, <1>5, <1>16, ChangingKeeps DEF NativeInv, NativeTypeOK

(* A new tile has a new layer and is counted.                               *)
LEMMA NativeCreateTileInv ==
  ASSUME NativeInv, NEW s \in NativeSurfaces, NEW k \in TileKeys,
         NativeCreateTile(s, k)
  PROVE  NativeInv'
<1> DEFINE f == nativeSurfaces[s].layers
           new == [t \in DOMAIN f \cup {k} |-> IF t = k THEN lastLayer + 1 ELSE f[t]]
           now == [nativeSurfaces[s] EXCEPT !.layers = new]
<1>1. /\ NativeChanging /\ UNCHANGED unchangedBySurfaces
      /\ nativeSurfaces[s].kind = "tiles" /\ k \notin DOMAIN f
      /\ lastLayer' = lastLayer + 1 /\ mTotalTiles' = mTotalTiles + 1
      /\ nativeSurfaces' = [nativeSurfaces EXCEPT ![s] = now]
      /\ UNCHANGED discarded
  BY DEF NativeCreateTile
<1>2. lastLayer \in Nat /\ mTotalTiles \in Nat /\ discarded \subseteq Nat
        /\ nativeSurfaces \in [NativeSurfaces -> NativeRecords]
  BY DEF NativeInv, NativeTypeOK
<1>3. lastLayer' \in Nat /\ lastLayer' >= lastLayer
  BY <1>1, <1>2
<1>4. /\ f \in LayerMaps /\ DOMAIN f \subseteq TileKeys /\ IsFiniteSet(DOMAIN f)
      /\ nativeSurfaces[s] \in NativeRecords
      /\ \A j \in DOMAIN f : f[j] \in Nat /\ f[j] <= lastLayer
                             /\ f[j] \notin discarded
  BY <1>1, SurfaceFacts
<1>5. new \in LayerMaps
  <2>1. lastLayer + 1 \in Nat
    BY <1>2
  <2> HIDE DEF f
  <2> QED
    BY <1>4, <2>1, LayerMapGrows
<1>6. /\ DOMAIN new = DOMAIN f \cup {k} /\ new[k] = lastLayer + 1
      /\ \A j \in DOMAIN f : new[j] = f[j]
  BY <1>1
<1> HIDE DEF new
<1>7. now.kind = "tiles" /\ now.layers = new /\ now \in NativeRecords
  BY <1>1, <1>4, <1>5 DEF NativeRecords
<1> HIDE DEF now
<1>8. IsFiniteSet(DOMAIN new)
  BY <1>4, <1>6, FS_AddElement
<1>9. \A j \in DOMAIN now.layers :
        \/ /\ j \in DOMAIN f /\ now.layers[j] = f[j]
           /\ now.layers[j] \notin discarded'
        \/ now.layers[j] = lastLayer + 1 /\ lastLayer' = lastLayer + 1
  BY <1>1, <1>4, <1>6, <1>7
<1>10. \A j, i \in DOMAIN now.layers :
         now.layers[j] = lastLayer + 1 /\ now.layers[i] = lastLayer + 1 => j = i
  BY <1>2, <1>4, <1>6, <1>7
<1>11. /\ nativeSurfaces' \in [NativeSurfaces -> NativeRecords]
       /\ LayersAreOwn' /\ discarded' \subseteq Nat
  BY <1>1, <1>3, <1>4, <1>6, <1>7, <1>8, <1>9, <1>10, OneSurfaceChanges
<1>12. /\ nativeSurfaces'[s] = now
       /\ \A r \in NativeSurfaces \ {s} : nativeSurfaces'[r] = nativeSurfaces[r]
  BY <1>1, <1>2
<1>13. LiveTiles' = LiveTiles \cup {<<s, k>>} /\ <<s, k>> \notin LiveTiles
  <2>1. ASSUME NEW t \in NativeSurfaces \X TileKeys
        PROVE  t \in LiveTiles' <=> t \in LiveTiles \/ t = <<s, k>>
    <3>1. t[1] \in NativeSurfaces /\ t = <<t[1], t[2]>>
      OBVIOUS
    <3>2. CASE t[1] = s
      <4>1. t \in LiveTiles' <=> t[2] \in DOMAIN f \cup {k}
        BY <1>6, <1>7, <1>12, <3>2 DEF LiveTiles
      <4>2. t \in LiveTiles <=> t[2] \in DOMAIN f
        BY <1>1, <3>2 DEF LiveTiles
      <4> QED
        BY <3>1, <3>2, <4>1, <4>2
    <3>3. CASE t[1] # s
      BY <1>12, <3>1, <3>3 DEF LiveTiles
    <3> QED
      BY <3>2, <3>3
  <2>2. <<s, k>> \in NativeSurfaces \X TileKeys
    OBVIOUS
  <2>3. <<s, k>> \notin LiveTiles
    BY <1>1 DEF LiveTiles
  <2> QED
    BY <2>1, <2>2, <2>3 DEF LiveTiles
<1>14. IsFiniteSet(LiveTiles) /\ mTotalTiles = Cardinality(LiveTiles)
  BY DEF NativeInv, TilesAreCounted
<1>15. /\ IsFiniteSet(LiveTiles \cup {<<s, k>>})
       /\ Cardinality(LiveTiles \cup {<<s, k>>}) = mTotalTiles + 1
  BY <1>13, <1>14, FS_AddElement
<1>16. IsFiniteSet(LiveTiles)' /\ TilesAreCounted' /\ mTotalTiles' \in Nat
  BY <1>1, <1>2, <1>13, <1>15 DEF TilesAreCounted
<1> QED
  BY <1>1, <1>3, <1>11, <1>16, ChangingKeeps DEF NativeInv, NativeTypeOK

(* A tile that is destroyed is counted no more and its layer is discarded.  *)
LEMMA NativeDestroyTileInv ==
  ASSUME NativeInv, NEW s \in NativeSurfaces, NEW k \in TileKeys,
         NativeDestroyTile(s, k)
  PROVE  NativeInv'
<1> DEFINE f == nativeSurfaces[s].layers
           new == [t \in DOMAIN f \ {k} |-> f[t]]
           now == [nativeSurfaces[s] EXCEPT !.layers = new]
<1>1. /\ NativeChanging /\ UNCHANGED unchangedBySurfaces
      /\ nativeSurfaces[s].kind = "tiles" /\ k \in DOMAIN f
      /\ discarded' = discarded \cup {f[k]} /\ mTotalTiles' = mTotalTiles - 1
      /\ nativeSurfaces' = [nativeSurfaces EXCEPT ![s] = now]
      /\ UNCHANGED lastLayer
  BY DEF NativeDestroyTile
<1>2. lastLayer \in Nat /\ mTotalTiles \in Nat /\ discarded \subseteq Nat
        /\ nativeSurfaces \in [NativeSurfaces -> NativeRecords]
  BY DEF NativeInv, NativeTypeOK
<1>3. lastLayer' \in Nat /\ lastLayer' >= lastLayer
  BY <1>1, <1>2
<1>4. /\ f \in LayerMaps /\ DOMAIN f \subseteq TileKeys /\ IsFiniteSet(DOMAIN f)
      /\ nativeSurfaces[s] \in NativeRecords
      /\ \A j \in DOMAIN f :
           /\ f[j] \in Nat /\ f[j] <= lastLayer /\ f[j] \notin discarded
           /\ \A i \in DOMAIN f : f[i] = f[j] => i = j
  BY <1>1, SurfaceFacts
<1>5. new \in LayerMaps
  <2> HIDE DEF f
  <2> QED
    BY <1>4, LayerMapShrinks
<1>6. DOMAIN new = DOMAIN f \ {k} /\ \A j \in DOMAIN new : new[j] = f[j]
  OBVIOUS
<1> HIDE DEF new
<1>7. now.kind = "tiles" /\ now.layers = new /\ now \in NativeRecords
  BY <1>1, <1>4, <1>5 DEF NativeRecords
<1> HIDE DEF now
<1>8. IsFiniteSet(DOMAIN new)
  BY <1>4, <1>6, FS_RemoveElement
<1>9. \A j \in DOMAIN now.layers :
        /\ j \in DOMAIN f /\ now.layers[j] = f[j]
        /\ now.layers[j] \notin discarded' /\ now.layers[j] # lastLayer + 1
  BY <1>1, <1>2, <1>4, <1>6, <1>7
<1>10. \A l \in discarded' \ discarded : \E j \in DOMAIN f : l = f[j]
  BY <1>1
<1>11. /\ nativeSurfaces' \in [NativeSurfaces -> NativeRecords]
       /\ LayersAreOwn' /\ discarded' \subseteq Nat
  BY <1>1, <1>3, <1>4, <1>6, <1>7, <1>8, <1>9, <1>10, OneSurfaceChanges
<1>12. /\ nativeSurfaces'[s] = now
       /\ \A r \in NativeSurfaces \ {s} : nativeSurfaces'[r] = nativeSurfaces[r]
  BY <1>1, <1>2
<1>13. LiveTiles' = LiveTiles \ {<<s, k>>} /\ <<s, k>> \in LiveTiles
  <2>1. ASSUME NEW t \in NativeSurfaces \X TileKeys
        PROVE  t \in LiveTiles' <=> t \in LiveTiles /\ t # <<s, k>>
    <3>1. t[1] \in NativeSurfaces /\ t = <<t[1], t[2]>>
      OBVIOUS
    <3>2. CASE t[1] = s
      <4>1. t \in LiveTiles' <=> t[2] \in DOMAIN f \ {k}
        BY <1>6, <1>7, <1>12, <3>2 DEF LiveTiles
      <4>2. t \in LiveTiles <=> t[2] \in DOMAIN f
        BY <1>1, <3>2 DEF LiveTiles
      <4> QED
        BY <3>1, <3>2, <4>1, <4>2
    <3>3. CASE t[1] # s
      BY <1>12, <3>1, <3>3 DEF LiveTiles
    <3> QED
      BY <3>2, <3>3
  <2>2. <<s, k>> \in LiveTiles
    BY <1>1 DEF LiveTiles
  <2> QED
    BY <2>1, <2>2 DEF LiveTiles
<1>14. IsFiniteSet(LiveTiles) /\ mTotalTiles = Cardinality(LiveTiles)
  BY DEF NativeInv, TilesAreCounted
<1>15. /\ IsFiniteSet(LiveTiles \ {<<s, k>>})
       /\ Cardinality(LiveTiles \ {<<s, k>>}) = mTotalTiles - 1
  BY <1>13, <1>14, FS_RemoveElement
<1>16. IsFiniteSet(LiveTiles)' /\ TilesAreCounted'
  BY <1>1, <1>13, <1>15 DEF TilesAreCounted
<1>17. mTotalTiles' \in Nat
  BY <1>1, <1>15, FS_CardinalityType
<1> QED
  BY <1>1, <1>3, <1>11, <1>16, <1>17, ChangingKeeps DEF NativeInv, NativeTypeOK

(* Every step, then.                                                        *)
LEMMA NativeStepInv == NativeInv /\ [NativeNext]_nativeVars => NativeInv'
<1> SUFFICES ASSUME NativeInv, [NativeNext]_nativeVars PROVE NativeInv'
  OBVIOUS
<1>1. CASE NativeBeginFrame
  BY <1>1, NativeBeginInv
<1>2. CASE NativeEndOrCancelFrame
  BY <1>2, NativeEndInv
<1>3. CASE Resize
  BY <1>3, ResizeInv
<1>4. CASE UnbindTile
  BY <1>4, UnbindTileInv
<1>5. CASE NativeCompositorBeginFrame
  BY <1>5, NativeFrameBeginInv
<1>6. CASE NativeCompositorEndFrame
  BY <1>6, NativeFrameEndInv
<1>7. ASSUME NEW s \in NativeSurfaces,
             NEW kind \in {"tiles", "external", "backdrop"},
             NativeCreateSurface(s, kind)
      PROVE  NativeInv'
  BY <1>7, NativeCreateSurfaceInv
<1>8. ASSUME NEW s \in NativeSurfaces,
             NativeDestroySurface(s) \/ NativeAddSurface(s)
      PROVE  NativeInv'
  BY <1>8, NativeDestroySurfaceInv, NativeAddInv
<1>9. ASSUME NEW s \in NativeSurfaces, NEW k \in TileKeys,
             NativeCreateTile(s, k) \/ NativeDestroyTile(s, k)
               \/ BindTile(s, k)
      PROVE  NativeInv'
  BY <1>9, NativeCreateTileInv, NativeDestroyTileInv, BindTileInv
<1>10. CASE UNCHANGED nativeVars
  <2>1. LiveTiles' = LiveTiles
    BY <1>10 DEF nativeVars, LiveTiles
  <2> QED
    BY <1>10, <2>1 DEF nativeVars, NativeInv, NativeTypeOK, LayersAreOwn,
         CompositorsDiffer, AddedAreLive, BoundIsMapped,
         WindowFramebufferIsMapped, TilesAreCounted, Window
<1> QED
  BY <1>1, <1>2, <1>3, <1>4, <1>5, <1>6, <1>7, <1>8, <1>9, <1>10
     DEF NativeNext

(* It is enough for the property of the run.                                *)
LEMMA NativeInvConsistent == NativeInv => NativeConsistent
<1> SUFFICES ASSUME NativeInv PROVE NativeConsistent
  OBVIOUS
<1>1. RootIsOfTheFrame
  BY DEF NativeInv, CompositorsDiffer, AddedAreLive, RootIsOfTheFrame
<1> QED
  BY <1>1 DEF NativeInv, NativeConsistent

-----------------------------------------------------------------------------
(* Layers of the software renderer                                          *)

(* The values of a tile and of a surface.                                   *)
LayersTiles ==
  [texture : {"none", "unmade", "lost", "made"},
   mStagingTexture : Textures \cup {NoTexture}, mSurface : BOOLEAN,
   stale : SUBSET Parts, mValidRect : SUBSET Parts]
LayersRecords ==
  [kind : {"none", "tiles", "external"}, image : Images \cup {"none"},
   tile : LayersTiles, tiles : {0, 1}, pool : Seq(Textures)]

(* The values the state takes.                                              *)
LayersTypeOK ==
  /\ mSurfaces \in [Surfaces -> LayersRecords]
  /\ uploadModePref \in Modes
  /\ current \in [surface : Surfaces \cup {"none"}, dirty : SUBSET Parts]
  /\ mCurrentStagingTexture \in Textures \cup {NoTexture}
  /\ mCurrentStagingTextureIsTemp \in BOOLEAN
  /\ busy \subseteq Textures /\ webRenderError \in BOOLEAN

(* The surfaces of a frame are taken while they are added and only then.   *)
FrameInStep ==
  /\ phase \in {"idle", "begun", "adding", "composited"}
  /\ mFrameSurfaces \in Seq(Surfaces)
  /\ drawn \in [added : Seq(Surfaces), shown : Seq(Surfaces)]
  /\ phase # "adding" => mFrameSurfaces = <<>>
  /\ phase = "begun" => drawn.added = <<>>
  /\ phase \in {"begun", "adding"} => drawn.shown = <<>>
  /\ phase = "adding" => mFrameSurfaces = drawn.added
  /\ phase # "begun" => current.surface = "none"
  /\ FramesDrawTheirSurfaces

(* The tile that is mapped: its memory, and the parts that its texture     *)
(* does not show but for those drawn now.                                  *)
MappedTileIsBacked ==
  IF current.surface = "none" THEN mCurrentStagingTexture = NoTexture
  ELSE LET T == mSurfaces[current.surface].tile
       IN /\ T.texture = "none" \/ T.mSurface =>
               mCurrentStagingTexture = NoTexture
          /\ ~webRenderError /\ T.texture # "none" =>
               T.mSurface \/ mCurrentStagingTexture # NoTexture
          /\ ~webRenderError /\ T.texture \in {"unmade", "made"} =>
               (T.stale \ current.dirty) \cap T.mValidRect = {}

(* As long as no error was raised a tile that was made has its memory, a    *)
(* surface or a staging texture; where nobody draws to it, what is valid is *)
(* not stale.                                                               *)
TilesAreBacked ==
  \A s \in Surfaces :
    LET T == mSurfaces[s].tile
    IN /\ T.mSurface => T.mStagingTexture = NoTexture
       /\ ~webRenderError /\ T.texture # "none" =>
            T.mSurface \/ T.mStagingTexture # NoTexture
       /\ ~webRenderError /\ T.texture \in {"unmade", "made"}
            /\ current.surface # s =>
            T.stale \cap T.mValidRect = {}

(* No texture is twice in the pool.                                         *)
Once(pool) == \A i, j \in 1 .. Len(pool) : pool[i] = pool[j] => i = j

(* PooledTexturesAreFree, with indices in place of a cardinality, and what  *)
(* it needs: a temporary texture that is drawn to is no tile's own.         *)
PoolsAreFree ==
  /\ \A s \in Surfaces :
       /\ Once(mSurfaces[s].pool)
       /\ \A r \in Surfaces :
            /\ mSurfaces[r].tile.mStagingTexture \notin ToSet(mSurfaces[s].pool)
            /\ r # s => ToSet(mSurfaces[r].pool) \cap ToSet(mSurfaces[s].pool) = {}
       /\ mCurrentStagingTexture \notin ToSet(mSurfaces[s].pool)
  /\ mCurrentStagingTextureIsTemp /\ mCurrentStagingTexture # NoTexture =>
       \A r \in Surfaces :
         mSurfaces[r].tile.mStagingTexture # mCurrentStagingTexture

(* The inductive invariant.                                                 *)
LayersInv ==
  /\ LayersTypeOK /\ FrameInStep /\ MappedTileIsBacked /\ TilesAreBacked
  /\ PoolsAreFree

(* The least element of a set of numbers is in it.                          *)
LEMMA LeastOf ==
  ASSUME NEW S, S \subseteq Nat, S # {} PROVE Min(S) \in S
<1>1. PICK x \in S : \A y \in S : <<y, x>> \notin OpToRel(<, Nat)
  BY NatLessThanWellFounded, WFMin
<1>2. \A y \in S : ~(y < x)
  BY <1>1 DEF OpToRel
<1>3. \A y \in S : x =< y
  BY <1>2
<1> QED
  BY <1>3 DEF Min

(* A staging texture that is made is nobody's, and if none can be made the  *)
(* error is raised.                                                         *)
LEMMA FreshTexture ==
  ASSUME LayersInv, NEW t \in Textures \cup {NoTexture}, CreateStagingTexture(t)
  PROVE  /\ t \in Unused \/ (t = NoTexture /\ webRenderError' = TRUE)
         /\ webRenderError' \in BOOLEAN
         /\ webRenderError => webRenderError'
<1>1. Textures \subseteq Nat
  BY SoftwareLayersAssumption DEF Textures
<1>2. Unused \subseteq Nat
  BY <1>1 DEF Unused
<1>3. webRenderError \in BOOLEAN
  BY DEF LayersInv, LayersTypeOK
<1>4. CASE Unused # {} /\ t = Min(Unused) /\ UNCHANGED webRenderError
  <2>1. t \in Unused
    BY <1>2, <1>4, LeastOf
  <2>2. webRenderError' = webRenderError
    BY <1>4
  <2>3. webRenderError' \in BOOLEAN
    BY <1>3, <2>2
  <2>4. webRenderError => webRenderError'
    BY <2>2, Zenon
  <2> QED
    BY <2>1, <2>3, <2>4
<1>5. CASE t = NoTexture /\ webRenderError' = TRUE
  BY <1>5
<1> QED
  BY <1>4, <1>5 DEF CreateStagingTexture

(* An unused texture is nobody's.                                          *)
LEMMA UnusedIsNobodys ==
  ASSUME NEW t \in Unused
  PROVE  /\ t \in Textures /\ t \notin busy /\ t # mCurrentStagingTexture
         /\ \A s \in Surfaces : /\ mSurfaces[s].tile.mStagingTexture # t
                               /\ t \notin ToSet(mSurfaces[s].pool)
<1>1. t \in Textures /\ t \notin busy /\ t \notin Held
  BY DEF Unused
<1>2. mCurrentStagingTexture \in Held
  BY DEF Held
<1>3. ASSUME NEW s \in Surfaces PROVE mSurfaces[s].tile.mStagingTexture \in Held
  <2>1. mSurfaces[s].tile.mStagingTexture
          \in {mSurfaces[r].tile.mStagingTexture : r \in Surfaces}
    OBVIOUS
  <2> QED
    BY <2>1 DEF Held
<1>4. ASSUME NEW s \in Surfaces, t \in ToSet(mSurfaces[s].pool) PROVE t \in Held
  <2>1. ToSet(mSurfaces[s].pool) \in {ToSet(mSurfaces[r].pool) : r \in Surfaces}
    OBVIOUS
  <2>2. t \in UNION {ToSet(mSurfaces[r].pool) : r \in Surfaces}
    BY <1>4, <2>1
  <2> QED
    BY <2>2 DEF Held
<1> QED
  BY <1>1, <1>2, <1>3, <1>4

(* No texture is the absent one.                                            *)
LEMMA ZeroIsNoTexture == NoTexture \notin Textures /\ Textures \subseteq Nat
  BY SoftwareLayersAssumption DEF Textures, NoTexture

(* Sequences without repetition.                                           *)
LEMMA OnceCounts ==
  ASSUME NEW S, NEW q \in Seq(S), Once(q)
  PROVE  Cardinality(ToSet(q)) = Len(q)
<1>1. q \in [1 .. Len(q) -> S] /\ Len(q) \in Nat /\ DOMAIN q = 1 .. Len(q)
  BY LenProperties
<1>2. q \in [1 .. Len(q) -> ToSet(q)]
  BY <1>1 DEF ToSet
<1>3. q \in Surjection(1 .. Len(q), ToSet(q))
  BY <1>1, <1>2 DEF Surjection, ToSet
<1>4. q \in Injection(1 .. Len(q), ToSet(q))
  BY <1>1, <1>2 DEF Injection, IsInjective, Once
<1>5. ExistsBijection(1 .. Len(q), ToSet(q))
  BY <1>3, <1>4 DEF ExistsBijection, Bijection
<1>6. IsFiniteSet(1 .. Len(q)) /\ Cardinality(1 .. Len(q)) = Len(q)
  <2>1. Len(q) \in Int /\ 1 \in Int
    BY <1>1
  <2>2. /\ IsFiniteSet(1 .. Len(q))
        /\ Cardinality(1 .. Len(q)) =
             IF 1 > Len(q) THEN 0 ELSE Len(q) - 1 + 1
    BY <2>1, FS_Interval, Zenon
  <2>3. (IF 1 > Len(q) THEN 0 ELSE Len(q) - 1 + 1) = Len(q)
    BY <1>1
  <2> QED
    BY <2>2, <2>3
<1> QED
  BY <1>5, <1>6, FS_Bijection

(* A texture that is not in the pool goes to its end.                       *)
LEMMA OnceAppends ==
  ASSUME NEW S, NEW q \in Seq(S), Once(q), NEW e \in S, e \notin ToSet(q)
  PROVE  /\ Append(q, e) \in Seq(S) /\ Once(Append(q, e))
         /\ ToSet(Append(q, e)) = ToSet(q) \cup {e}
<1>1. /\ Append(q, e) \in Seq(S) /\ Len(Append(q, e)) = Len(q) + 1
      /\ \A i \in 1 .. Len(q) : Append(q, e)[i] = q[i]
      /\ Append(q, e)[Len(q) + 1] = e
      /\ Len(q) \in Nat /\ DOMAIN q = 1 .. Len(q)
      /\ DOMAIN Append(q, e) = 1 .. Len(q) + 1
  OBVIOUS
<1>2. \A i \in 1 .. Len(q) : q[i] # e /\ q[i] \in ToSet(q)
  BY <1>1 DEF ToSet
<1>3. Once(Append(q, e))
  BY <1>1, <1>2 DEF Once
<1>4. ToSet(Append(q, e)) = ToSet(q) \cup {e}
  BY <1>1 DEF ToSet
<1> QED
  BY <1>1, <1>3, <1>4

(* The first texture of the pool is taken out of it.                        *)
LEMMA OnceTail ==
  ASSUME NEW S, NEW q \in Seq(S), Once(q), q # <<>>
  PROVE  /\ Tail(q) \in Seq(S) /\ Once(Tail(q))
         /\ Head(q) \in S /\ Head(q) \in ToSet(q)
         /\ ToSet(Tail(q)) = ToSet(q) \ {Head(q)}
         /\ Head(q) \notin ToSet(Tail(q))
<1>1. /\ Tail(q) \in Seq(S) /\ Len(Tail(q)) = Len(q) - 1 /\ Len(q) \in Nat \ {0}
      /\ \A i \in 1 .. Len(q) - 1 : Tail(q)[i] = q[i + 1]
      /\ Head(q) = q[1] /\ Head(q) \in S /\ DOMAIN q = 1 .. Len(q)
      /\ DOMAIN Tail(q) = 1 .. Len(q) - 1
  OBVIOUS
<1>2. Once(Tail(q))
  BY <1>1 DEF Once
<1>3. Head(q) \in ToSet(q)
  BY <1>1 DEF ToSet
<1>4. \A v : v \in ToSet(Tail(q)) <=> \E i \in 2 .. Len(q) : v = q[i]
  <2>1. ASSUME NEW i \in 2 .. Len(q)
        PROVE  i - 1 \in DOMAIN Tail(q) /\ Tail(q)[i - 1] = q[i]
    BY <1>1
  <2>2. ASSUME NEW i \in DOMAIN Tail(q)
        PROVE  i + 1 \in 2 .. Len(q) /\ Tail(q)[i] = q[i + 1]
    BY <1>1
  <2>3. ASSUME NEW v, v \in ToSet(Tail(q))
        PROVE  \E i \in 2 .. Len(q) : v = q[i]
    <3>1. PICK i \in DOMAIN Tail(q) : v = Tail(q)[i]
      BY <2>3 DEF ToSet
    <3> QED
      BY <2>2, <3>1
  <2>4. ASSUME NEW i \in 2 .. Len(q)
        PROVE  q[i] \in ToSet(Tail(q))
    BY <2>1 DEF ToSet
  <2> QED
    BY <2>3, <2>4
<1>5. \A v : v \in ToSet(q) <=> v = q[1] \/ \E i \in 2 .. Len(q) : v = q[i]
  <2>1. DOMAIN q = {1} \cup (2 .. Len(q))
    BY <1>1
  <2> QED
    BY <2>1 DEF ToSet
<1>6. \A i \in 2 .. Len(q) : q[i] # q[1]
  BY <1>1 DEF Once
<1> QED
  BY <1>1, <1>2, <1>3, <1>4, <1>5, <1>6

(* No surfaces at the start.                                                *)
LEMMA LayersInitInv == LayersInit => LayersInv
<1> SUFFICES ASSUME LayersInit PROVE LayersInv
  OBVIOUS
<1>1. /\ NoSurface \in LayersRecords /\ NoSurface.kind = "none"
      /\ NoSurface.pool = <<>> /\ NoSurface.tile = LayersNoTile
  BY DEF NoSurface, LayersNoTile, Tile, LayersRecords, LayersTiles, NoTexture
<1>2. /\ LayersNoTile.texture = "none" /\ LayersNoTile.mSurface = FALSE
      /\ LayersNoTile.mStagingTexture = NoTexture
  BY DEF LayersNoTile, Tile
<1>3. ToSet(<<>>) = {} /\ Once(<<>>)
  BY DEF ToSet, Once
<1>4. \A s \in Surfaces : mSurfaces[s] = NoSurface
  BY DEF LayersInit
<1> HIDE DEF NoSurface
<1>5. LayersTypeOK
  BY <1>1 DEF LayersInit, LayersTypeOK, NoTexture
<1>6. FrameInStep
  BY <1>3 DEF LayersInit, FrameInStep, FramesDrawTheirSurfaces
<1>7. MappedTileIsBacked
  BY DEF LayersInit, MappedTileIsBacked
<1>8. TilesAreBacked
  BY <1>1, <1>2, <1>4 DEF TilesAreBacked
<1>9. PoolsAreFree
  BY <1>1, <1>3, <1>4 DEF LayersInit, PoolsAreFree
<1> QED
  BY <1>5, <1>6, <1>7, <1>8, <1>9 DEF LayersInv

(* The steps that only move the frame on.                                  *)
LEMMA LayersFrameInv ==
  LayersInv /\ (\/ LayersBeginFrame \/ LayersStartCompositing
                \/ LayersCompositorEndFrame \/ LayersEndOrCancelFrame
                \/ (\E s \in Surfaces : LayersAddSurface(s)))
    => LayersInv'
<1> SUFFICES ASSUME LayersInv,
                    \/ LayersBeginFrame \/ LayersStartCompositing
                    \/ LayersCompositorEndFrame \/ LayersEndOrCancelFrame
                    \/ (\E s \in Surfaces : LayersAddSurface(s))
             PROVE  LayersInv'
  OBVIOUS
<1>1. UNCHANGED <<mSurfaces, uploadModePref, current, mCurrentStagingTexture,
                  mCurrentStagingTextureIsTemp, busy, webRenderError>>
  BY DEF LayersBeginFrame, LayersStartCompositing, LayersCompositorEndFrame,
         LayersEndOrCancelFrame, LayersAddSurface, tileVars, prefVars
<1>2. LayersTypeOK' /\ MappedTileIsBacked' /\ TilesAreBacked' /\ PoolsAreFree'
  BY <1>1 DEF LayersInv, LayersTypeOK, MappedTileIsBacked, TilesAreBacked,
              PoolsAreFree
<1>3. FrameInStep'
  <2> USE DEF LayersInv, FrameInStep, FramesDrawTheirSurfaces
  <2>1. CASE LayersBeginFrame
    <3>1. /\ phase = "idle" /\ phase' = "begun" /\ UNCHANGED mFrameSurfaces
          /\ drawn' = [added |-> <<>>, shown |-> <<>>]
      BY <2>1 DEF LayersBeginFrame
    <3> QED
      BY <1>1, <3>1 DEF ToSet
  <2>2. CASE LayersStartCompositing
    BY <1>1, <2>2 DEF LayersStartCompositing
  <2>3. CASE LayersCompositorEndFrame
    <3>1. /\ phase \in {"begun", "adding"} /\ phase' = "composited"
          /\ current.surface = "none" /\ mFrameSurfaces' = <<>>
          /\ drawn' = IF mCompositingStarted
                      THEN [drawn EXCEPT !.shown = mFrameSurfaces] ELSE drawn
      BY <2>3 DEF LayersCompositorEndFrame, CanAdd, FrameSurfacesAfterEnd
    <3>2. drawn'.added = drawn.added /\ drawn'.shown \in {<<>>, drawn.added}
            /\ drawn' \in [added : Seq(Surfaces), shown : Seq(Surfaces)]
      <4>1. mFrameSurfaces \in {<<>>, drawn.added}
              /\ mFrameSurfaces \in Seq(Surfaces)
        BY <3>1
      <4>2. drawn.shown = <<>>
              /\ drawn \in [added : Seq(Surfaces), shown : Seq(Surfaces)]
        BY <3>1
      <4> QED
        BY <3>1, <4>1, <4>2
    <3>3. ToSet(mFrameSurfaces') = {}
      BY <3>1 DEF ToSet
    <3> QED
      BY <1>1, <3>1, <3>2, <3>3
  <2>4. CASE LayersEndOrCancelFrame
    BY <1>1, <2>4 DEF LayersEndOrCancelFrame
  <2>5. ASSUME NEW s \in Surfaces, LayersAddSurface(s) PROVE FrameInStep'
    <3>1. /\ phase \in {"begun", "adding"} /\ phase' = "adding"
          /\ current.surface = "none" /\ mSurfaces[s].kind # "none"
          /\ mFrameSurfaces' = Append(mFrameSurfaces, s)
          /\ drawn' = [drawn EXCEPT !.added = Append(@, s)]
      BY <2>5 DEF LayersAddSurface, CanAdd
    <3>2. mFrameSurfaces = drawn.added /\ drawn.shown = <<>>
      BY <3>1
    <3>3. /\ drawn' \in [added : Seq(Surfaces), shown : Seq(Surfaces)]
          /\ drawn'.added = Append(mFrameSurfaces, s) /\ drawn'.shown = <<>>
          /\ mFrameSurfaces' \in Seq(Surfaces)
      <4>1. mFrameSurfaces \in Seq(Surfaces)
              /\ drawn \in [added : Seq(Surfaces), shown : Seq(Surfaces)]
        OBVIOUS
      <4>2. mFrameSurfaces' \in Seq(Surfaces)
        BY <3>1, <4>1
      <4>3. drawn' = [added |-> mFrameSurfaces', shown |-> <<>>]
        BY <3>1, <3>2, <4>1
      <4> QED
        BY <3>1, <4>2, <4>3
    <3>4. \A r \in ToSet(mFrameSurfaces') : r = s \/ r \in ToSet(mFrameSurfaces)
      BY <3>1 DEF ToSet
    <3> QED
      BY <1>1, <3>1, <3>3, <3>4
  <2> QED
    BY <2>1, <2>2, <2>3, <2>4, <2>5
<1> QED
  BY <1>2, <1>3 DEF LayersInv

(* While surfaces are made and drawn the frame has not taken any yet.      *)
LEMMA FrameKept ==
  ASSUME LayersInv, phase = "begun", UNCHANGED frameVars PROVE FrameInStep'
<1>1. UNCHANGED <<mFrameSurfaces, drawn, phase>>
  BY DEF frameVars
<1>2. mFrameSurfaces = <<>>
  BY DEF LayersInv, FrameInStep
<1>3. ToSet(mFrameSurfaces') = {}
  BY <1>1, <1>2 DEF ToSet
<1>4. FramesDrawTheirSurfaces'
  BY <1>1, <1>3 DEF LayersInv, FrameInStep, FramesDrawTheirSurfaces
<1> QED
  BY <1>1, <1>4 DEF LayersInv, FrameInStep

(* The pool of one surface, the staging texture of its tile and the one    *)
(* that is mapped change: what enters the pool was nobody's.               *)
LEMMA PoolsStepInv ==
  ASSUME LayersInv, NEW s \in Surfaces, NEW now \in LayersRecords,
         mSurfaces' = [mSurfaces EXCEPT ![s] = now],
         Once(now.pool),
         \A v \in ToSet(now.pool) :
           \/ v \in ToSet(mSurfaces[s].pool)
           \/ \A r \in Surfaces : /\ v \notin ToSet(mSurfaces[r].pool)
                                 /\ v # mSurfaces[r].tile.mStagingTexture,
         now.tile.mStagingTexture \notin ToSet(now.pool),
         \A r \in Surfaces \ {s} :
           now.tile.mStagingTexture \notin ToSet(mSurfaces[r].pool),
         mCurrentStagingTexture' \notin ToSet(now.pool),
         \A r \in Surfaces \ {s} :
           mCurrentStagingTexture' \notin ToSet(mSurfaces[r].pool),
         mCurrentStagingTextureIsTemp' /\ mCurrentStagingTexture' # NoTexture =>
           /\ now.tile.mStagingTexture # mCurrentStagingTexture'
           /\ \A r \in Surfaces \ {s} :
                mSurfaces[r].tile.mStagingTexture # mCurrentStagingTexture'
  PROVE  PoolsAreFree'
<1>1. mSurfaces \in [Surfaces -> LayersRecords]
  BY DEF LayersInv, LayersTypeOK
<1>2. /\ mSurfaces'[s] = now
      /\ \A r \in Surfaces \ {s} : mSurfaces'[r] = mSurfaces[r]
  BY <1>1
<1> DEFINE P(r) == ToSet(mSurfaces[r].pool)
           O(r) == mSurfaces[r].tile.mStagingTexture
<1>3. \A q, r \in Surfaces : O(r) \notin P(q) /\ (r # q => P(r) \cap P(q) = {})
  BY DEF LayersInv, PoolsAreFree
<1>4. \A r \in Surfaces : Once(mSurfaces[r].pool)
  BY DEF LayersInv, PoolsAreFree
<1>5. \A r \in Surfaces : Once(mSurfaces'[r].pool)
  BY <1>2, <1>4
<1>6. \A r \in Surfaces \ {s} : P(r) \cap ToSet(now.pool) = {}
                                /\ O(r) \notin ToSet(now.pool)
  BY <1>3
<1> DEFINE PP(r) == ToSet(mSurfaces'[r].pool)
           OO(r) == mSurfaces'[r].tile.mStagingTexture
<1>7. /\ PP(s) = ToSet(now.pool) /\ OO(s) = now.tile.mStagingTexture
      /\ \A r \in Surfaces \ {s} : PP(r) = P(r) /\ OO(r) = O(r)
  BY <1>2
<1>a. \A r \in Surfaces \ {s} : now.tile.mStagingTexture \notin P(r)
                                 /\ mCurrentStagingTexture' \notin P(r)
  OBVIOUS
<1>b. mCurrentStagingTextureIsTemp' /\ mCurrentStagingTexture' # NoTexture =>
        \A r \in Surfaces \ {s} : O(r) # mCurrentStagingTexture'
  OBVIOUS
<1> HIDE DEF P, O, PP, OO
<1>8. \A q, r \in Surfaces : OO(r) \notin PP(q) /\ (r # q => PP(r) \cap PP(q) = {})
  <2>1. ASSUME NEW q \in Surfaces, NEW r \in Surfaces
        PROVE  OO(r) \notin PP(q) /\ (r # q => PP(r) \cap PP(q) = {})
    <3>1. CASE q = s /\ r = s
      BY <1>7, <3>1
    <3>2. CASE q = s /\ r # s
      BY <1>6, <1>7, <3>2
    <3>3. CASE q # s /\ r = s
      BY <1>6, <1>7, <1>a, <3>3
    <3>4. CASE q # s /\ r # s
      BY <1>3, <1>7, <3>4
    <3> QED
      BY <3>1, <3>2, <3>3, <3>4
  <2> QED
    BY <2>1
<1>9. \A r \in Surfaces : mCurrentStagingTexture' \notin PP(r)
  BY <1>7, <1>a
<1>10. mCurrentStagingTextureIsTemp' /\ mCurrentStagingTexture' # NoTexture =>
         \A r \in Surfaces : OO(r) # mCurrentStagingTexture'
  BY <1>7, <1>b
<1> QED
  BY <1>5, <1>8, <1>9, <1>10 DEF PoolsAreFree, PP, OO

(* A pool holds staging textures only.                                     *)
LEMMA PoolsHoldTextures ==
  ASSUME LayersInv, NEW s \in Surfaces
  PROVE  /\ mSurfaces[s] \in LayersRecords /\ mSurfaces[s].tile \in LayersTiles
         /\ mSurfaces[s].pool \in Seq(Textures)
         /\ Once(mSurfaces[s].pool)
         /\ ToSet(mSurfaces[s].pool) \subseteq Textures
         /\ NoTexture \notin ToSet(mSurfaces[s].pool)
<1>1. /\ mSurfaces[s] \in LayersRecords /\ mSurfaces[s].tile \in LayersTiles
      /\ mSurfaces[s].pool \in Seq(Textures)
  BY DEF LayersInv, LayersTypeOK, LayersRecords
<1>2. ToSet(mSurfaces[s].pool) \subseteq Textures
  BY <1>1 DEF ToSet
<1>3. Once(mSurfaces[s].pool)
  BY DEF LayersInv, PoolsAreFree
<1> QED
  BY <1>1, <1>2, <1>3, ZeroIsNoTexture

(* What holds of a tile that is not mapped.                                *)
TileIsBacked(T, error) ==
  /\ T.mSurface => T.mStagingTexture = NoTexture
  /\ ~error /\ T.texture # "none" =>
       T.mSurface \/ T.mStagingTexture # NoTexture
  /\ ~error /\ T.texture \in {"unmade", "made"} =>
       T.stale \cap T.mValidRect = {}

(* A surface is made, destroyed or changed while no tile is mapped.        *)
LEMMA LayersSurfaceInv ==
  ASSUME LayersInv, LayersChanging, UnchangedBySurfaces, UNCHANGED busy,
         NEW s \in Surfaces, NEW now \in LayersRecords,
         mSurfaces' = [mSurfaces EXCEPT ![s] = now],
         webRenderError' \in BOOLEAN, webRenderError => webRenderError',
         now.pool \in {<<>>, mSurfaces[s].pool},
         \/ now.tile.mStagingTexture \in
              {mSurfaces[s].tile.mStagingTexture, NoTexture}
         \/ now.tile.mStagingTexture \in Unused,
         TileIsBacked(now.tile, webRenderError')
  PROVE  LayersInv'
<1>1. /\ phase = "begun" /\ current.surface = "none" /\ UNCHANGED frameVars
      /\ UNCHANGED <<uploadModePref, current, mCurrentStagingTexture,
                     mCurrentStagingTextureIsTemp>>
  BY DEF LayersChanging, UnchangedBySurfaces, prefVars, tileVars
<1>2. mCurrentStagingTexture = NoTexture
  BY <1>1 DEF LayersInv, MappedTileIsBacked
<1>3. mSurfaces \in [Surfaces -> LayersRecords]
  BY DEF LayersInv, LayersTypeOK
<1>4. LayersTypeOK'
  BY <1>1, <1>3 DEF LayersInv, LayersTypeOK
<1>5. MappedTileIsBacked'
  BY <1>1, <1>2 DEF MappedTileIsBacked
<1>6. /\ mSurfaces'[s] = now
      /\ \A r \in Surfaces \ {s} : mSurfaces'[r] = mSurfaces[r]
  BY <1>3
<1>7. TilesAreBacked'
  <2>1. \A r \in Surfaces \ {s} : TileIsBacked(mSurfaces[r].tile, webRenderError')
    BY <1>1, SoftwareLayersAssumption
       DEF LayersInv, TilesAreBacked, TileIsBacked
  <2>2. \A r \in Surfaces : TileIsBacked(mSurfaces'[r].tile, webRenderError')
    BY <1>6, <2>1
  <2> QED
    BY <2>2 DEF TilesAreBacked, TileIsBacked
<1>8. /\ Once(now.pool) /\ ToSet(now.pool) \subseteq ToSet(mSurfaces[s].pool)
      /\ NoTexture \notin ToSet(now.pool)
  <2>1. Once(<<>>) /\ ToSet(<<>>) = {}
    BY DEF Once, ToSet
  <2>2. CASE now.pool = <<>>
    BY <2>1, <2>2
  <2>3. CASE now.pool = mSurfaces[s].pool
    BY <2>3, PoolsHoldTextures
  <2> QED
    BY <2>2, <2>3
<1>9. \A r \in Surfaces :
        now.tile.mStagingTexture \notin ToSet(mSurfaces[r].pool)
  <2>1. ASSUME NEW r \in Surfaces
        PROVE  now.tile.mStagingTexture \notin ToSet(mSurfaces[r].pool)
    <3>1. CASE now.tile.mStagingTexture = mSurfaces[s].tile.mStagingTexture
      BY <3>1 DEF LayersInv, PoolsAreFree
    <3>2. CASE now.tile.mStagingTexture = NoTexture
      BY <3>2, PoolsHoldTextures
    <3>3. CASE now.tile.mStagingTexture \in Unused
      BY <3>3, UnusedIsNobodys
    <3> QED
      BY <3>1, <3>2, <3>3
  <2> QED
    BY <2>1
<1>10. \A r \in Surfaces : NoTexture \notin ToSet(mSurfaces[r].pool)
  BY PoolsHoldTextures
<1>11. now.tile.mStagingTexture \notin ToSet(now.pool)
  BY <1>8, <1>9
<1>12. PoolsAreFree'
  BY <1>1, <1>2, <1>8, <1>9, <1>10, <1>11, PoolsStepInv
<1>13. FrameInStep'
  BY <1>1, FrameKept
<1> QED
  BY <1>4, <1>5, <1>7, <1>12, <1>13 DEF LayersInv

(* A surface is made, destroyed or given an image, a tile made or destroyed:*)
(* between mappings.                                                        *)
LEMMA LayersChangeInv ==
  ASSUME LayersInv, NEW s \in Surfaces,
         \/ LayersDestroySurface(s) \/ LayersCreateTile(s) \/ LayersDestroyTile(s)
         \/ \E kind \in {"tiles", "external"} : LayersCreateSurface(s, kind)
         \/ \E image \in Images : AttachExternalImage(s, image)
  PROVE  LayersInv'
<1>1. /\ mSurfaces[s] \in LayersRecords /\ mSurfaces[s].tile \in LayersTiles
      /\ mSurfaces \in [Surfaces -> LayersRecords] /\ webRenderError \in BOOLEAN
  BY PoolsHoldTextures DEF LayersInv, LayersTypeOK
<1>2. /\ LayersNoTile \in LayersTiles
      /\ LayersNoTile.mStagingTexture = NoTexture
      /\ TileIsBacked(LayersNoTile, webRenderError')
  BY DEF LayersNoTile, Tile, LayersTiles, NoTexture, TileIsBacked
<1>3. /\ NoSurface \in LayersRecords /\ NoSurface.pool = <<>>
      /\ NoSurface.tile = LayersNoTile
  <2>1. <<>> \in Seq(Textures)
    OBVIOUS
  <2> QED
    BY <1>2, <2>1 DEF NoSurface, LayersRecords
<1> HIDE DEF LayersNoTile, NoSurface
<1>5. CASE LayersDestroySurface(s)
  <2>1. /\ LayersChanging /\ UnchangedBySurfaces
        /\ UNCHANGED busy /\ UNCHANGED webRenderError
        /\ mSurfaces' = [mSurfaces EXCEPT ![s] = NoSurface]
    BY <1>5 DEF LayersDestroySurface
  <2> QED
    BY <1>1, <1>2, <1>3, <2>1, LayersSurfaceInv
<1>6. ASSUME NEW kind \in {"tiles", "external"}, LayersCreateSurface(s, kind)
      PROVE  LayersInv'
  <2> DEFINE now == [NoSurface EXCEPT !.kind = kind]
  <2>1. /\ LayersChanging /\ UnchangedBySurfaces
        /\ UNCHANGED busy /\ UNCHANGED webRenderError
        /\ mSurfaces' = [mSurfaces EXCEPT ![s] = now]
    BY <1>6 DEF LayersCreateSurface
  <2>2. now \in LayersRecords /\ now.pool = <<>> /\ now.tile = LayersNoTile
    BY <1>3 DEF LayersRecords
  <2> HIDE DEF now
  <2> QED
    BY <1>1, <1>2, <2>1, <2>2, LayersSurfaceInv
<1>7. ASSUME NEW image \in Images, AttachExternalImage(s, image)
      PROVE  LayersInv'
  <2> DEFINE now == [mSurfaces[s] EXCEPT !.image = image]
  <2>1. /\ LayersChanging /\ UnchangedBySurfaces
        /\ UNCHANGED busy /\ UNCHANGED webRenderError
        /\ mSurfaces' = [mSurfaces EXCEPT ![s] = now]
    BY <1>7 DEF AttachExternalImage
  <2>2. /\ now \in LayersRecords /\ now.pool = mSurfaces[s].pool
        /\ now.tile = mSurfaces[s].tile
    BY <1>1 DEF LayersRecords
  <2>3. current.surface # s
    BY <2>1, SoftwareLayersAssumption DEF LayersChanging
  <2>4. TileIsBacked(mSurfaces[s].tile, webRenderError)
    BY <2>3 DEF LayersInv, TilesAreBacked, TileIsBacked
  <2>5. TileIsBacked(now.tile, webRenderError')
    BY <2>1, <2>2, <2>4
  <2> HIDE DEF now
  <2> QED
    BY <1>1, <2>1, <2>2, <2>5, LayersSurfaceInv
<1>8. CASE LayersDestroyTile(s)
  <2> DEFINE now == [mSurfaces[s] EXCEPT !.tile = LayersNoTile, !.tiles = 0]
  <2>1. /\ LayersChanging /\ UnchangedBySurfaces
        /\ UNCHANGED busy /\ UNCHANGED webRenderError
        /\ mSurfaces' = [mSurfaces EXCEPT ![s] = now]
    BY <1>1, <1>8 DEF LayersDestroyTile
  <2>2. /\ now \in LayersRecords /\ now.pool = mSurfaces[s].pool
        /\ now.tile = LayersNoTile
    BY <1>1, <1>2 DEF LayersRecords
  <2> HIDE DEF now
  <2> QED
    BY <1>1, <1>2, <2>1, <2>2, LayersSurfaceInv
<1>9. CASE LayersCreateTile(s)
  <2>1. PICK T \in PossibleTiles :
          /\ DoCreateTile(T)
          /\ mSurfaces' = [mSurfaces EXCEPT ![s].tile = T, ![s].tiles = 1]
    BY <1>9 DEF LayersCreateTile
  <2> DEFINE now == [mSurfaces[s] EXCEPT !.tile = T, !.tiles = 1]
  <2>2. /\ LayersChanging /\ UnchangedBySurfaces /\ UNCHANGED busy
        /\ mSurfaces' = [mSurfaces EXCEPT ![s] = now]
    BY <1>1, <1>9, <2>1 DEF LayersCreateTile
  <2> DEFINE TileMade ==
        /\ T \in LayersTiles
        /\ T.mStagingTexture = NoTexture \/ T.mStagingTexture \in Unused
        /\ TileIsBacked(T, webRenderError')
        /\ webRenderError' \in BOOLEAN
        /\ webRenderError => webRenderError'
  <2>3. TileMade
    <3>1. CASE mUploadMode = "immediate"
      <4>1. T = Tile("unmade", NoTexture, TRUE) /\ UNCHANGED webRenderError
        BY <2>1, <3>1 DEF DoCreateTile
      <4>2. T \in LayersTiles /\ T.mStagingTexture = NoTexture /\ T.mSurface
              /\ T.stale = {} /\ T.mValidRect = {}
        BY <4>1 DEF Tile, LayersTiles
      <4>3. TileIsBacked(T, webRenderError')
        BY <4>2 DEF TileIsBacked
      <4>4. webRenderError' \in BOOLEAN
        BY <1>1, <4>1
      <4>5. webRenderError => webRenderError'
        BY <4>1, Zenon
      <4> QED
        BY <4>2, <4>3, <4>4, <4>5
    <3>2. CASE T = LayersNoTile /\ webRenderError' = TRUE
      BY <1>2, <3>2
    <3>3. ASSUME NEW t \in Textures \cup {NoTexture}, CreateStagingTexture(t),
                 T = Tile("made", t, FALSE)
          PROVE  TileMade
      <4>1. /\ t \in Unused \/ (t = NoTexture /\ webRenderError' = TRUE)
            /\ webRenderError' \in BOOLEAN
            /\ webRenderError => webRenderError'
        BY <3>3, FreshTexture
      <4>2. T \in LayersTiles /\ T.mStagingTexture = t /\ T.mSurface = FALSE
              /\ T.stale = {} /\ T.mValidRect = {}
        BY <3>3 DEF Tile, LayersTiles
      <4>3. t \in Unused => t # NoTexture
        BY ZeroIsNoTexture, UnusedIsNobodys
      <4>4. TileIsBacked(T, webRenderError')
        BY <4>1, <4>2, <4>3 DEF TileIsBacked
      <4> QED
        BY <4>1, <4>2, <4>4
    <3> HIDE DEF TileMade
    <3> QED
      BY <2>1, <3>1, <3>2, <3>3 DEF DoCreateTile
  <2>4. /\ now \in LayersRecords /\ now.pool = mSurfaces[s].pool /\ now.tile = T
    BY <1>1, <2>3 DEF LayersRecords
  <2> HIDE DEF now
  <2> QED
    BY <2>2, <2>3, <2>4, LayersSurfaceInv
<1> QED
  BY <1>5, <1>6, <1>7, <1>8, <1>9

(* The GPU finishes a copy, or the preference changes: no texture changes   *)
(* hands.                                                                   *)
LEMMA LayersQuietInv == LayersInv /\ (GpuCopies \/ ChangePref) => LayersInv'
<1> SUFFICES ASSUME LayersInv, GpuCopies \/ ChangePref PROVE LayersInv'
  OBVIOUS
<1>1. /\ UNCHANGED <<frameVars, mSurfaces, tileVars, webRenderError>>
      /\ busy' \subseteq busy
      /\ uploadModePref' \in Modes
  BY DEF GpuCopies, ChangePref, prefVars, LayersInv, LayersTypeOK
<1>2. UNCHANGED <<mFrameSurfaces, drawn, phase, current,
                  mCurrentStagingTexture, mCurrentStagingTextureIsTemp,
                  mSurfaces, webRenderError>>
  BY <1>1 DEF frameVars, tileVars
<1>3. LayersTypeOK' /\ FrameInStep'
  BY <1>1, <1>2 DEF LayersInv, LayersTypeOK, FrameInStep,
                    FramesDrawTheirSurfaces
<1>4. MappedTileIsBacked' /\ TilesAreBacked' /\ PoolsAreFree'
  BY <1>2 DEF LayersInv, MappedTileIsBacked, TilesAreBacked, PoolsAreFree
<1> QED
  BY <1>3, <1>4 DEF LayersInv

(* The memory of the tile that MapTile maps, when its preference says so.  *)
LEMMA ReallocatedFacts ==
  ASSUME NEW old \in LayersTiles, NEW t \in Textures \cup {NoTexture},
         old.mSurface => old.mStagingTexture = NoTexture
  PROVE  LET T == Reallocated(old, t)
         IN /\ T \in LayersTiles /\ T.texture = old.texture
            /\ T.stale = old.stale /\ T.mValidRect = old.mValidRect
            /\ T.mSurface => T.mStagingTexture = NoTexture
            /\ NeedsTexture(old) => T.mStagingTexture = t /\ ~T.mSurface
            /\ ~NeedsTexture(old) =>
                 \/ /\ T.mStagingTexture = old.mStagingTexture
                    /\ T.mSurface = old.mSurface
                 \/ T.mStagingTexture = NoTexture /\ T.mSurface
<1>1. NoTexture \in Textures \cup {NoTexture} /\ TRUE \in BOOLEAN /\ FALSE \in BOOLEAN
  OBVIOUS
<1>2. CASE uploadModePref = "immediate" /\ old.mStagingTexture # NoTexture
  <2>1. Reallocated(old, t) =
          [old EXCEPT !.mStagingTexture = NoTexture, !.mSurface = TRUE]
    BY <1>2 DEF Reallocated
  <2> QED
    BY <1>1, <1>2, <2>1 DEF LayersTiles, NeedsTexture
<1>3. CASE uploadModePref # "immediate" /\ old.mSurface
  <2>1. Reallocated(old, t) =
          [old EXCEPT !.mStagingTexture = t, !.mSurface = FALSE]
    BY <1>3 DEF Reallocated
  <2> QED
    BY <1>1, <1>3, <2>1 DEF LayersTiles, NeedsTexture
<1>4. CASE /\ ~(uploadModePref = "immediate" /\ old.mStagingTexture # NoTexture)
           /\ ~(uploadModePref # "immediate" /\ old.mSurface)
  <2>1. Reallocated(old, t) = old
    BY <1>4 DEF Reallocated
  <2> QED
    BY <1>1, <1>4, <2>1 DEF NeedsTexture
<1> QED
  BY <1>2, <1>3, <1>4

(* MapTile: the texture drawn to is the tile's own, the first of the pool or*)
(* a new one.                                                               *)
LEMMA LayersMapInv ==
  ASSUME LayersInv, NEW s \in Surfaces, NEW dirty \in SUBSET Parts,
         NEW valid \in SUBSET Parts, NEW t \in Textures \cup {NoTexture},
         LayersMapTile(s, dirty, valid, t)
  PROVE  LayersInv'
<1> DEFINE old == mSurfaces[s].tile
           pool == mSurfaces[s].pool
           T == Reallocated(old, t)
           map == MapOf(T.mStagingTexture, pool, t)
           awaited == T.stale \cup dirty
<1>1. /\ mSurfaces[s] \in LayersRecords /\ old \in LayersTiles
      /\ pool \in Seq(Textures) /\ Once(pool) /\ ToSet(pool) \subseteq Textures
      /\ mSurfaces \in [Surfaces -> LayersRecords]
      /\ uploadModePref \in Modes /\ busy \subseteq Textures
      /\ webRenderError \in BOOLEAN
  BY PoolsHoldTextures DEF LayersInv, LayersTypeOK
<1>2. /\ phase = "begun" /\ current.surface = "none"
      /\ current' = [surface |-> s, dirty |-> dirty]
      /\ UNCHANGED frameVars /\ UNCHANGED uploadModePref
      /\ valid \subseteq T.mValidRect \cup dirty
  BY DEF LayersMapTile, LayersChanging, prefVars
<1>3. /\ mCurrentStagingTexture = NoTexture /\ s # "none"
      /\ TileIsBacked(old, webRenderError)
  BY <1>2, SoftwareLayersAssumption
     DEF LayersInv, MappedTileIsBacked, TilesAreBacked, TileIsBacked
<1>4. /\ T \in LayersTiles /\ T.texture = old.texture
      /\ T.stale = old.stale /\ T.mValidRect = old.mValidRect
      /\ T.mSurface => T.mStagingTexture = NoTexture
      /\ NeedsTexture(old) => T.mStagingTexture = t /\ ~T.mSurface
      /\ ~NeedsTexture(old) =>
           \/ /\ T.mStagingTexture = old.mStagingTexture
              /\ T.mSurface = old.mSurface
           \/ T.mStagingTexture = NoTexture /\ T.mSurface
  BY <1>1, <1>3, ReallocatedFacts DEF TileIsBacked
<1>5. \A r \in Surfaces : TileIsBacked(mSurfaces[r].tile, webRenderError)
  BY <1>2, SoftwareLayersAssumption DEF LayersInv, TilesAreBacked, TileIsBacked
<1>6. /\ current'.surface = s /\ current'.dirty = dirty
      /\ current' \in [surface : Surfaces \cup {"none"}, dirty : SUBSET Parts]
  BY <1>2
<1>7. FrameInStep'
  BY <1>2, FrameKept
<1>8. \A r, q \in Surfaces :
        mSurfaces[r].tile.mStagingTexture \notin ToSet(mSurfaces[q].pool)
  BY DEF LayersInv, PoolsAreFree
<1>9. \A r \in Surfaces : NoTexture \notin ToSet(mSurfaces[r].pool)
  BY PoolsHoldTextures
<1>10. NoTexture \notin Textures /\ NoTexture \notin busy
  BY <1>1, ZeroIsNoTexture
<1>11. CASE old.texture = "none"
  <2> DEFINE N == [old EXCEPT !.stale = awaited]
             now == [mSurfaces[s] EXCEPT !.tile = N]
  <2>1. /\ mSurfaces' = [mSurfaces EXCEPT ![s].tile.stale = awaited]
        /\ UNCHANGED <<mCurrentStagingTexture, mCurrentStagingTextureIsTemp,
                       busy, webRenderError>>
    BY <1>11 DEF LayersMapTile
  <2>2. awaited \in SUBSET Parts
    BY <1>1, <1>4 DEF LayersTiles
  <2>3. mSurfaces' = [mSurfaces EXCEPT ![s] = now]
    BY <1>1, <2>1
  <2> HIDE DEF awaited
  <2>4. /\ N \in LayersTiles /\ N.texture = "none"
        /\ N.mSurface = old.mSurface
        /\ N.mStagingTexture = old.mStagingTexture
    BY <1>1, <1>11, <2>2 DEF LayersTiles
  <2> HIDE DEF N
  <2>5. now \in LayersRecords /\ now.tile = N /\ now.pool = pool
    BY <1>1, <2>4 DEF LayersRecords
  <2> HIDE DEF now
  <2>6. /\ mSurfaces'[s] = now
        /\ \A r \in Surfaces \ {s} : mSurfaces'[r] = mSurfaces[r]
    BY <1>1, <2>3
  <2>7. LayersTypeOK'
    BY <1>1, <1>2, <1>6, <2>1, <2>3, <2>5 DEF LayersInv, LayersTypeOK
  <2>8. MappedTileIsBacked'
    BY <1>3, <1>6, <2>1, <2>4, <2>5, <2>6 DEF MappedTileIsBacked
  <2>9. TilesAreBacked'
    <3>1. TileIsBacked(N, webRenderError')
      BY <1>3, <2>4 DEF TileIsBacked
    <3>2. \A r \in Surfaces : TileIsBacked(mSurfaces'[r].tile, webRenderError')
      BY <1>5, <2>1, <2>5, <2>6, <3>1
    <3> QED
      BY <3>2 DEF TilesAreBacked, TileIsBacked
  <2>10. PoolsAreFree'
    <3>1. /\ now.pool = mSurfaces[s].pool
          /\ now.tile.mStagingTexture = mSurfaces[s].tile.mStagingTexture
          /\ mCurrentStagingTexture' = NoTexture
      BY <1>3, <2>1, <2>4, <2>5
    <3>2. Once(now.pool)
      BY <1>1, <3>1
    <3>3. /\ now.tile.mStagingTexture \notin ToSet(now.pool)
          /\ \A r \in Surfaces \ {s} :
               now.tile.mStagingTexture \notin ToSet(mSurfaces[r].pool)
      BY <1>8, <3>1
    <3>4. /\ mCurrentStagingTexture' \notin ToSet(now.pool)
          /\ \A r \in Surfaces \ {s} :
               mCurrentStagingTexture' \notin ToSet(mSurfaces[r].pool)
      BY <1>9, <3>1
    <3>5. \A v \in ToSet(now.pool) : v \in ToSet(mSurfaces[s].pool)
      BY <3>1
    <3> QED
      BY <2>3, <2>5, <3>1, <3>2, <3>3, <3>4, <3>5, PoolsStepInv
  <2> QED
    BY <1>7, <2>7, <2>8, <2>9, <2>10 DEF LayersInv
<1>12. CASE old.texture # "none"
  <2> DEFINE fetches == \/ NeedsTexture(old)
                        \/ NeedsTemporary(T.mStagingTexture, pool)
             mapped == T.mSurface \/ map.texture # NoTexture
             V == IF mapped THEN valid ELSE T.mValidRect
             P == IF T.mSurface THEN pool ELSE map.pool
             C == IF T.mSurface THEN NoTexture ELSE map.texture
             E == IF T.mSurface THEN FALSE ELSE map.temp
             N == [T EXCEPT !.stale = awaited, !.mValidRect = V]
             now == [mSurfaces[s] EXCEPT !.tile = N, !.pool = P]
  <2>1. /\ mSurfaces' = [mSurfaces EXCEPT
             ![s].tile = [T EXCEPT !.stale = awaited,
                !.mValidRect = IF mapped THEN valid ELSE @],
             ![s].pool = IF T.mSurface THEN @ ELSE map.pool]
        /\ mCurrentStagingTexture' = C
        /\ mCurrentStagingTextureIsTemp' = E
        /\ busy' = busy \ {map.texture}
        /\ uploadModePref = "immediate" => T.mSurface
        /\ fetches => CreateStagingTexture(t)
        /\ ~fetches => t = NoTexture /\ UNCHANGED webRenderError
    BY <1>12 DEF LayersMapTile, IsTempAtMap
  <2>2. mSurfaces' = [mSurfaces EXCEPT ![s] = now]
    BY <1>1, <2>1
  <2>3. /\ fetches => t \in Unused \/ (t = NoTexture /\ webRenderError')
        /\ webRenderError' \in BOOLEAN
        /\ webRenderError => webRenderError'
        /\ ~fetches => t = NoTexture
    <3>1. CASE fetches
      BY <2>1, <3>1, FreshTexture
    <3>2. CASE ~fetches
      <4>1. webRenderError' = webRenderError /\ t = NoTexture
        BY <2>1, <3>2
      <4>2. webRenderError => webRenderError'
        BY <4>1, Zenon
      <4> QED
        BY <1>1, <3>2, <4>1, <4>2
    <3> HIDE DEF fetches
    <3> QED
      BY <3>1, <3>2
  <2> DEFINE own == T.mStagingTexture
  <2>4. t \in Unused => /\ t \in Textures /\ t \notin busy /\ t # NoTexture
                        /\ \A r \in Surfaces :
                             /\ mSurfaces[r].tile.mStagingTexture # t
                             /\ t \notin ToSet(mSurfaces[r].pool)
    BY <1>3, UnusedIsNobodys
  <2>5. own \in busy => ~NeedsTexture(old) /\ own = old.mStagingTexture
    BY <1>4, <1>10, <2>3, <2>4
  <2>6. ~T.mSurface =>
          \/ map.texture = own /\ map.temp = FALSE /\ map.pool = pool
          \/ /\ own \in busy /\ pool # <<>>
             /\ map.texture = Head(pool) /\ map.temp = TRUE
             /\ map.pool = Tail(pool)
          \/ /\ own \in busy /\ fetches /\ pool # <<>>
             /\ map.texture = t /\ map.temp = TRUE
             /\ map.pool = Append(Tail(pool), Head(pool))
          \/ /\ own \in busy /\ fetches
             /\ map.texture = t /\ map.temp = TRUE /\ map.pool = pool
    <3> SUFFICES ASSUME ~T.mSurface PROVE <2>6!2
      OBVIOUS
    <3>1. uploadModePref # "immediate"
      BY <2>1
    <3> HIDE DEF T, pool
    <3>2. \/ map.texture = own /\ map.temp = FALSE /\ map.pool = pool
          \/ /\ own \in busy /\ pool # <<>>
             /\ map.texture = Head(pool) /\ map.temp = TRUE
             /\ map.pool = Tail(pool)
          \/ /\ own \in busy /\ NeedsTemporary(own, pool) /\ pool # <<>>
             /\ map.texture = t /\ map.temp = TRUE
             /\ map.pool = Append(Tail(pool), Head(pool))
          \/ /\ own \in busy /\ NeedsTemporary(own, pool)
             /\ map.texture = t /\ map.temp = TRUE /\ map.pool = pool
      <4>1. uploadModePref \in {"staging", "noblock", "pooled"}
        BY <1>1, <3>1, SoftwareLayersAssumption
      <4>2. CASE own \notin busy \/ uploadModePref = "staging"
        BY <4>2 DEF MapOf, IsTempAtMap
      <4>3. CASE /\ own \in busy /\ uploadModePref = "pooled" /\ pool # <<>>
                 /\ Head(pool) \notin busy
        BY <4>3 DEF MapOf
      <4>4. CASE /\ own \in busy /\ uploadModePref = "pooled" /\ pool # <<>>
                 /\ Head(pool) \in busy
        BY <4>4 DEF MapOf, NeedsTemporary
      <4>5. CASE /\ own \in busy
                 /\ \/ uploadModePref = "noblock"
                    \/ uploadModePref = "pooled" /\ pool = <<>>
        BY <4>5 DEF MapOf, NeedsTemporary
      <4> HIDE DEF map, own
      <4> QED
        BY <4>1, <4>2, <4>3, <4>4, <4>5
    <3> HIDE DEF map
    <3> QED
      BY <3>2
  <2>7. ~webRenderError' => T.mSurface \/ own # NoTexture
    BY <1>3, <1>4, <1>12, <2>3, <2>4 DEF TileIsBacked
  <2>8. own \in Textures \cup {NoTexture}
    BY <1>4 DEF LayersTiles
  <2>9. \A r \in Surfaces : own \notin ToSet(mSurfaces[r].pool)
    BY <1>4, <1>8, <1>9, <2>3, <2>4
  <2>10. pool # <<>> =>
           /\ Tail(pool) \in Seq(Textures) /\ Once(Tail(pool))
           /\ Head(pool) \in Textures /\ Head(pool) \in ToSet(pool)
           /\ ToSet(Tail(pool)) = ToSet(pool) \ {Head(pool)}
           /\ Head(pool) \notin ToSet(Tail(pool))
    BY <1>1, OnceTail
  <2>11. pool # <<>> =>
           /\ Append(Tail(pool), Head(pool)) \in Seq(Textures)
           /\ Once(Append(Tail(pool), Head(pool)))
           /\ ToSet(Append(Tail(pool), Head(pool))) = ToSet(pool)
    <3> HIDE DEF pool
    <3>1. ASSUME pool # <<>>
          PROVE  /\ Append(Tail(pool), Head(pool)) \in Seq(Textures)
                 /\ Once(Append(Tail(pool), Head(pool)))
                 /\ ToSet(Append(Tail(pool), Head(pool)))
                      = ToSet(Tail(pool)) \cup {Head(pool)}
      <4> DEFINE q == Tail(pool)
                 e == Head(pool)
      <4>1. q \in Seq(Textures) /\ Once(q) /\ e \in Textures /\ e \notin ToSet(q)
        BY <2>10, <3>1
      <4> HIDE DEF q, e
      <4>2. /\ Append(q, e) \in Seq(Textures) /\ Once(Append(q, e))
            /\ ToSet(Append(q, e)) = ToSet(q) \cup {e}
        BY <4>1, OnceAppends
      <4> QED
        BY <4>2 DEF q, e
    <3> QED
      BY <2>10, <3>1
  <2> HIDE DEF fetches, old, T, map, pool
  (* What the pool and the texture mapped have become. *)
  <2>12. /\ P \in Seq(Textures) /\ Once(P) /\ ToSet(P) \subseteq ToSet(pool)
         /\ C \in Textures \cup {NoTexture} /\ E \in BOOLEAN
         /\ C \notin ToSet(P)
         /\ C = NoTexture \/ C = own \/ C \in ToSet(pool) \/ C \in Unused
         /\ E /\ C # NoTexture =>
              own = mSurfaces[s].tile.mStagingTexture
                /\ (C \in ToSet(pool) \/ C \in Unused)
         /\ ~webRenderError' => T.mSurface \/ C # NoTexture
         /\ T.mSurface => C = NoTexture
    <3>1. CASE T.mSurface
      BY <1>1, <1>9, <3>1 DEF pool
    <3>2. CASE ~T.mSurface /\ map.texture = own /\ map.temp = FALSE /\ map.pool = pool
      BY <1>1, <2>7, <2>8, <2>9, <3>2 DEF pool
    <3>3. CASE /\ ~T.mSurface /\ own \in busy /\ pool # <<>>
               /\ map.texture = Head(pool) /\ map.temp = TRUE
               /\ map.pool = Tail(pool)
      BY <1>1, <1>10, <2>5, <2>10, <3>3 DEF old
    <3>4. CASE /\ ~T.mSurface /\ own \in busy /\ fetches /\ pool # <<>>
               /\ map.texture = t /\ map.temp = TRUE
               /\ map.pool = Append(Tail(pool), Head(pool))
      BY <1>9, <2>3, <2>4, <2>5, <2>11, <3>4 DEF old, pool
    <3>5. CASE /\ ~T.mSurface /\ own \in busy /\ fetches
               /\ map.texture = t /\ map.temp = TRUE /\ map.pool = pool
      BY <1>1, <1>9, <2>3, <2>4, <2>5, <3>5 DEF old, pool
    <3> QED
      BY <2>6, <3>1, <3>2, <3>3, <3>4, <3>5
  <2>13. V \subseteq old.mValidRect \cup dirty /\ V \in SUBSET Parts
    BY <1>1, <1>2, <1>4 DEF LayersTiles, T
  <2>14. awaited = old.stale \cup dirty /\ awaited \in SUBSET Parts
    BY <1>1, <1>4 DEF LayersTiles
  <2> HIDE DEF V, P, C, E, awaited
  <2>15. /\ N \in LayersTiles /\ N.texture = old.texture
         /\ N.mSurface = T.mSurface /\ N.mStagingTexture = own
         /\ N.stale = awaited /\ N.mValidRect = V
    BY <1>4, <2>13, <2>14 DEF LayersTiles
  <2> HIDE DEF N
  <2>16. now \in LayersRecords /\ now.tile = N /\ now.pool = P
    BY <1>1, <2>12, <2>15 DEF LayersRecords
  <2> HIDE DEF now
  <2>17. /\ mSurfaces'[s] = now
         /\ \A r \in Surfaces \ {s} : mSurfaces'[r] = mSurfaces[r]
    BY <1>1, <2>2
  <2>18. LayersTypeOK'
    <3>1. mSurfaces' \in [Surfaces -> LayersRecords]
      BY <1>1, <2>2, <2>16
    <3>2. busy' \subseteq Textures
      BY <1>1, <2>1
    <3> QED
      BY <1>1, <1>2, <1>6, <2>1, <2>3, <2>12, <3>1, <3>2 DEF LayersTypeOK
  <2>19. MappedTileIsBacked'
    <3>1. ~webRenderError' /\ old.texture \in {"unmade", "made"} =>
            (N.stale \ dirty) \cap N.mValidRect = {}
      <4>1. ~webRenderError' /\ old.texture \in {"unmade", "made"} =>
              old.stale \cap old.mValidRect = {}
        BY <1>3, <2>3 DEF TileIsBacked
      <4> QED
        BY <2>13, <2>14, <2>15, <4>1
    <3> QED
      BY <1>3, <1>6, <1>12, <2>1, <2>12, <2>15, <2>16, <2>17, <3>1
         DEF MappedTileIsBacked
  <2>20. TilesAreBacked'
    <3>1. \A r \in Surfaces \ {s} : TileIsBacked(mSurfaces'[r].tile, webRenderError')
      BY <1>5, <2>3, <2>17 DEF TileIsBacked
    <3>2. /\ N.mSurface => N.mStagingTexture = NoTexture
          /\ ~webRenderError' => N.mSurface \/ N.mStagingTexture # NoTexture
      BY <1>4, <2>7, <2>15
    <3> QED
      BY <1>6, <2>16, <2>17, <3>1, <3>2 DEF TilesAreBacked, TileIsBacked
  <2>21. PoolsAreFree'
    <3>1. \A r \in Surfaces \ {s} : C \notin ToSet(mSurfaces[r].pool)
      <4>1. \A r \in Surfaces \ {s} : ToSet(pool) \cap ToSet(mSurfaces[r].pool) = {}
        BY DEF pool, LayersInv, PoolsAreFree
      <4> QED
        BY <1>9, <2>4, <2>9, <2>12, <4>1, UnusedIsNobodys
    <3>2. E /\ C # NoTexture =>
            \A r \in Surfaces : mSurfaces[r].tile.mStagingTexture # C
      <4>1. \A r \in Surfaces : mSurfaces[r].tile.mStagingTexture \notin ToSet(pool)
        BY <1>8 DEF pool
      <4> QED
        BY <2>12, <4>1, UnusedIsNobodys
    <3>3. now.tile.mStagingTexture = own
      BY <2>15, <2>16
    <3>4. own \notin ToSet(P) /\ \A v \in ToSet(P) : v \in ToSet(mSurfaces[s].pool)
      BY <2>9, <2>12 DEF pool
    <3>5. E /\ C # NoTexture => own # C
      BY <2>12, <3>2
    <3> HIDE DEF own
    <3> QED
      BY <2>1, <2>2, <2>9, <2>12, <2>16, <3>1, <3>2, <3>3, <3>4, <3>5,
         PoolsStepInv
  <2> QED
    BY <1>7, <2>18, <2>19, <2>20, <2>21 DEF LayersInv
<1> QED
  BY <1>11, <1>12

(* UnmapTile: a temporary texture goes to the pool, or is dropped when it is*)
(* full; the tile goes back to its own.                                     *)
LEMMA LayersUnmapInv == LayersInv /\ LayersUnmapTile => LayersInv'
<1> SUFFICES ASSUME LayersInv, LayersUnmapTile PROVE LayersInv'
  OBVIOUS
<1> DEFINE s == current.surface
           old == mSurfaces[s].tile
           pool == mSurfaces[s].pool
           t == mCurrentStagingTexture
           still == old.texture = "none" \/ (~old.mSurface /\ t = NoTexture)
<1>1. /\ s # "none" /\ s \in Surfaces /\ phase = "begun"
      /\ current' = [surface |-> "none", dirty |-> {}]
      /\ UNCHANGED <<frameVars, uploadModePref, webRenderError>>
  BY DEF LayersUnmapTile, LayersInv, LayersTypeOK, FrameInStep, prefVars
<1>2. /\ mSurfaces[s] \in LayersRecords /\ old \in LayersTiles
      /\ pool \in Seq(Textures) /\ Once(pool) /\ ToSet(pool) \subseteq Textures
      /\ mSurfaces \in [Surfaces -> LayersRecords]
      /\ busy \subseteq Textures /\ uploadModePref \in Modes
      /\ t \in Textures \cup {NoTexture} /\ mCurrentStagingTextureIsTemp \in BOOLEAN
      /\ webRenderError \in BOOLEAN
  BY <1>1, PoolsHoldTextures DEF LayersInv, LayersTypeOK
<1>3. /\ current'.surface = "none"
      /\ current' \in [surface : Surfaces \cup {"none"}, dirty : SUBSET Parts]
  BY <1>1
<1>4. FrameInStep'
  BY <1>1, FrameKept
<1>5. /\ old.texture = "none" \/ old.mSurface => t = NoTexture
      /\ ~webRenderError /\ old.texture # "none" => old.mSurface \/ t # NoTexture
      /\ ~webRenderError /\ old.texture \in {"unmade", "made"} =>
           (old.stale \ current.dirty) \cap old.mValidRect = {}
  BY <1>1 DEF LayersInv, MappedTileIsBacked
<1>6. /\ old.mSurface => old.mStagingTexture = NoTexture
      /\ ~webRenderError /\ old.texture # "none" =>
           old.mSurface \/ old.mStagingTexture # NoTexture
  BY <1>1 DEF LayersInv, TilesAreBacked
<1>7. \A r \in Surfaces \ {s} : TileIsBacked(mSurfaces[r].tile, webRenderError)
  BY DEF LayersInv, TilesAreBacked, TileIsBacked
<1>8. \A r, q \in Surfaces :
        mSurfaces[r].tile.mStagingTexture \notin ToSet(mSurfaces[q].pool)
  BY DEF LayersInv, PoolsAreFree
<1>9. \A r \in Surfaces : /\ NoTexture \notin ToSet(mSurfaces[r].pool)
                          /\ t \notin ToSet(mSurfaces[r].pool)
  BY PoolsHoldTextures DEF LayersInv, PoolsAreFree
<1>10. mCurrentStagingTextureIsTemp /\ t # NoTexture =>
         \A r \in Surfaces : mSurfaces[r].tile.mStagingTexture # t
  BY DEF LayersInv, PoolsAreFree
<1>11. CASE still
  <2>1. UNCHANGED <<mSurfaces, mCurrentStagingTexture,
                    mCurrentStagingTextureIsTemp, busy>>
    BY <1>11 DEF LayersUnmapTile
  <2>2. t = NoTexture
    BY <1>5, <1>11
  <2>3. LayersTypeOK' /\ MappedTileIsBacked' /\ PoolsAreFree'
    BY <1>1, <1>2, <1>3, <2>1, <2>2
       DEF LayersInv, LayersTypeOK, MappedTileIsBacked, PoolsAreFree
  <2>4. TileIsBacked(old, webRenderError)
    BY <1>5, <1>6, <1>11 DEF TileIsBacked
  <2>5. \A r \in Surfaces : TileIsBacked(mSurfaces[r].tile, webRenderError)
    BY <1>7, <2>4
  <2>6. TilesAreBacked'
    BY <1>1, <2>1, <2>5 DEF TilesAreBacked, TileIsBacked
  <2> QED
    BY <1>4, <2>3, <2>6 DEF LayersInv
<1>12. CASE ~still
  <2> DEFINE copied == IF old.mSurface THEN current.dirty
                       ELSE Copied(old, current.dirty)
             N == IF old.texture = "unmade" /\ ~old.mSurface
                  THEN [old EXCEPT !.texture = "lost"]
                  ELSE [old EXCEPT
                         !.stale = (@ \cup copied) \ current.dirty,
                         !.texture = IF @ = "lost" THEN @ ELSE "made"]
             pooled == /\ mCurrentStagingTextureIsTemp
                       /\ uploadModePref = "pooled" /\ Len(pool) < PoolSize
             P == IF pooled /\ ~old.mSurface THEN Append(pool, t) ELSE pool
             now == [mSurfaces[s] EXCEPT !.tile = N, !.pool = P]
  <2>1. /\ mSurfaces' = [mSurfaces EXCEPT ![s].tile = N,
              ![s].pool = IF pooled /\ ~old.mSurface THEN Append(@, t) ELSE @]
        /\ IF old.mSurface
           THEN UNCHANGED <<mCurrentStagingTexture,
                            mCurrentStagingTextureIsTemp, busy>>
           ELSE /\ busy' = busy \cup {t}
                /\ mCurrentStagingTexture' = NoTexture
                /\ mCurrentStagingTextureIsTemp' = FALSE
    BY <1>12 DEF LayersUnmapTile
  <2>2. mSurfaces' = [mSurfaces EXCEPT ![s] = now]
    BY <1>1, <1>2, <2>1
  <2>3. /\ mCurrentStagingTexture' = NoTexture
        /\ mCurrentStagingTextureIsTemp' \in BOOLEAN
        /\ busy' \subseteq Textures
    BY <1>2, <1>5, <1>12, <2>1
  <2>4. copied = current.dirty
    BY DEF Copied
  <2>5. /\ N \in LayersTiles /\ N.mStagingTexture = old.mStagingTexture
        /\ N.mSurface = old.mSurface /\ N.mValidRect = old.mValidRect
        /\ N.texture # "lost" =>
             N.stale = old.stale \ current.dirty
               /\ old.texture \in {"none", "unmade", "made"}
    <3>1. CASE old.texture = "unmade" /\ ~old.mSurface
      BY <1>2, <3>1 DEF LayersTiles
    <3>2. CASE ~(old.texture = "unmade" /\ ~old.mSurface)
      <4>1. N = [old EXCEPT
                   !.stale = (old.stale \cup current.dirty) \ current.dirty,
                   !.texture = IF old.texture = "lost" THEN "lost" ELSE "made"]
        BY <1>2, <2>4, <3>2 DEF LayersTiles
      <4>2. (old.stale \cup current.dirty) \ current.dirty = old.stale \ current.dirty
        OBVIOUS
      <4>3. old.stale \ current.dirty \in SUBSET Parts
        BY <1>2 DEF LayersTiles
      <4> DEFINE st == old.stale \ current.dirty
      <4>4. N = [old EXCEPT !.stale = st,
                   !.texture = IF old.texture = "lost" THEN "lost" ELSE "made"]
        BY <4>1, <4>2
      <4> HIDE DEF N, st
      <4>5. /\ N \in LayersTiles /\ N.mStagingTexture = old.mStagingTexture
            /\ N.mSurface = old.mSurface /\ N.mValidRect = old.mValidRect
            /\ N.stale = st
            /\ N.texture = IF old.texture = "lost" THEN "lost" ELSE "made"
        BY <1>2, <4>3, <4>4 DEF LayersTiles, st
      <4> QED
        BY <1>2, <4>5 DEF st, LayersTiles
    <3> QED
      BY <3>1, <3>2
  <2>6. N.texture # "lost" => old.texture # "none"
    BY <1>12
  <2>7. TileIsBacked(N, webRenderError)
    <3> HIDE DEF N
    <3> QED
      BY <1>5, <1>6, <1>12, <2>5, <2>6 DEF TileIsBacked
  <2> HIDE DEF N
  <2>8. /\ P \in Seq(Textures) /\ Once(P)
        /\ \A v \in ToSet(P) : v \in ToSet(pool)
             \/ (v = t /\ mCurrentStagingTextureIsTemp /\ t # NoTexture)
        /\ NoTexture \notin ToSet(P)
        /\ old.mStagingTexture \notin ToSet(P)
    <3>1. CASE pooled /\ ~old.mSurface
      <4>1. t \in Textures /\ t # NoTexture /\ mCurrentStagingTextureIsTemp
        BY <1>2, <1>12, <3>1
      <4>2. t \notin ToSet(pool)
        BY <1>1, <1>9
      <4>3. /\ Append(pool, t) \in Seq(Textures) /\ Once(Append(pool, t))
            /\ ToSet(Append(pool, t)) = ToSet(pool) \cup {t}
        BY <1>2, <4>1, <4>2, OnceAppends
      <4> QED
        BY <1>1, <1>8, <1>9, <1>10, <3>1, <4>1, <4>3
    <3>2. CASE ~(pooled /\ ~old.mSurface)
      BY <1>1, <1>2, <1>8, <1>9, <3>2
    <3> QED
      BY <3>1, <3>2
  <2> HIDE DEF P
  <2>9. now \in LayersRecords /\ now.tile = N /\ now.pool = P
    BY <1>2, <2>5, <2>8 DEF LayersRecords
  <2> HIDE DEF now
  <2>10. /\ mSurfaces'[s] = now
         /\ \A r \in Surfaces \ {s} : mSurfaces'[r] = mSurfaces[r]
    BY <1>1, <1>2, <2>2
  <2>11. LayersTypeOK'
    <3>1. mSurfaces' \in [Surfaces -> LayersRecords]
      BY <1>2, <2>2, <2>9
    <3> QED
      BY <1>1, <1>2, <1>3, <2>3, <3>1 DEF LayersTypeOK
  <2>12. MappedTileIsBacked'
    BY <1>3, <2>3 DEF MappedTileIsBacked
  <2>13. TilesAreBacked'
    <3>1. \A r \in Surfaces : TileIsBacked(mSurfaces'[r].tile, webRenderError')
      BY <1>1, <1>7, <2>7, <2>9, <2>10
    <3> QED
      BY <3>1 DEF TilesAreBacked, TileIsBacked
  <2>14. PoolsAreFree'
    <3>1. \A v \in ToSet(P) :
            \/ v \in ToSet(mSurfaces[s].pool)
            \/ \A r \in Surfaces : /\ v \notin ToSet(mSurfaces[r].pool)
                                   /\ v # mSurfaces[r].tile.mStagingTexture
      BY <1>9, <1>10, <2>8
    <3>2. now.tile.mStagingTexture = old.mStagingTexture
      BY <2>5, <2>9
    <3> QED
      BY <1>1, <1>8, <1>9, <2>2, <2>3, <2>8, <2>9, <3>1, <3>2, PoolsStepInv
  <2> QED
    BY <1>4, <2>11, <2>12, <2>13, <2>14 DEF LayersInv
<1> QED
  BY <1>11, <1>12

(* Every step, then.                                                        *)
LEMMA LayersStepInv == LayersInv /\ [LayersNext]_layersVars => LayersInv'
<1> SUFFICES ASSUME LayersInv, [LayersNext]_layersVars PROVE LayersInv'
  OBVIOUS
<1>1. CASE \/ LayersBeginFrame \/ LayersStartCompositing
           \/ LayersCompositorEndFrame \/ LayersEndOrCancelFrame
           \/ (\E s \in Surfaces : LayersAddSurface(s))
  BY <1>1, LayersFrameInv
<1>2. CASE GpuCopies \/ ChangePref
  BY <1>2, LayersQuietInv
<1>3. CASE LayersUnmapTile
  BY <1>3, LayersUnmapInv
<1>4. ASSUME NEW s \in Surfaces,
         \/ LayersDestroySurface(s) \/ LayersCreateTile(s) \/ LayersDestroyTile(s)
         \/ \E kind \in {"tiles", "external"} : LayersCreateSurface(s, kind)
         \/ \E image \in Images : AttachExternalImage(s, image)
      PROVE  LayersInv'
  BY <1>4, LayersChangeInv
<1>5. ASSUME NEW s \in Surfaces, NEW dirty \in SUBSET Parts,
             NEW valid \in SUBSET Parts, NEW t \in Textures \cup {NoTexture},
             LayersMapTile(s, dirty, valid, t)
      PROVE  LayersInv'
  BY <1>5, LayersMapInv
<1>6. CASE UNCHANGED layersVars
  BY <1>6 DEF layersVars, LayersInv, LayersTypeOK, FrameInStep,
       FramesDrawTheirSurfaces, MappedTileIsBacked, TilesAreBacked, PoolsAreFree
<1> QED
  BY <1>1, <1>2, <1>3, <1>4, <1>5, <1>6 DEF LayersNext

(* It is enough for the property of the run: a pool without repetitions is  *)
(* as long as the set of its textures is large.                             *)
LEMMA LayersInvConsistent == LayersInv => LayersConsistent
<1> SUFFICES ASSUME LayersInv PROVE LayersConsistent
  OBVIOUS
<1>1. FramesDrawTheirSurfaces
  BY DEF LayersInv, FrameInStep
<1>2. TilesShowWhatWasDrawn
  BY DEF LayersInv, TilesAreBacked, TilesShowWhatWasDrawn
<1>3. \A s \in Surfaces : Cardinality(ToSet(mSurfaces[s].pool)) = Len(mSurfaces[s].pool)
  BY PoolsHoldTextures, OnceCounts
<1>4. PooledTexturesAreFree
  BY <1>3 DEF LayersInv, PoolsAreFree, PooledTexturesAreFree
<1> QED
  BY <1>1, <1>2, <1>4 DEF LayersConsistent

-----------------------------------------------------------------------------
(* All of them                                                              *)

(***************************************************************************)
(* The invariant of the whole module: each component's own, whatever part  *)
(* a behaviour is about, for they share no state.                          *)
(***************************************************************************)
PlatformsInv ==
  /\ WidgetInv /\ NativeInv /\ LayersInv /\ GLInv
  /\ D3DInv /\ SurfaceInv /\ CacheInv

(* It holds at the start.                                                  *)
LEMMA PlatformsInitInv == Init => PlatformsInv
  BY WidgetInitInv, NativeInitInv, LayersInitInv, GLInitInv, D3DInitInv,
     SurfaceInitInv, CacheInitInv DEF Init, PlatformsInv

(* A step of one component keeps that component's part of it, and is a     *)
(* stuttering step for each of the others.                                 *)
LEMMA PlatformsStepInv == PlatformsInv /\ [Next]_vars => PlatformsInv'
<1> SUFFICES ASSUME PlatformsInv, [Next]_vars PROVE PlatformsInv'
  OBVIOUS
<1>1. /\ [WidgetNext]_widgetVars /\ [NativeNext]_nativeVars
      /\ [LayersNext]_layersVars /\ [GLNext]_glVars
      /\ [D3DNext]_d3dVars /\ [SurfaceNext]_surfVars
      /\ [CacheNext]_cacheVars
  BY DEF Next, WidgetStep, NativeStep, LayersStep, GLStep, D3DStep,
         SurfaceStep, CacheStep, vars, compositorVars, hostVars
<1> QED
  BY <1>1, WidgetStepInv, NativeStepInv, LayersStepInv, GLStepInv,
     D3DStepInv, SurfaceStepInv, CacheStepInv DEF PlatformsInv

(* Every state of every behaviour is in it.                                *)
LEMMA PlatformsInvariant == Spec => []PlatformsInv
<1>1. Init => PlatformsInv
  BY PlatformsInitInv
<1>2. PlatformsInv /\ [Next]_vars => PlatformsInv'
  BY PlatformsStepInv
<1> QED
  BY <1>1, <1>2, PTL DEF Spec

(***************************************************************************)
(* A window that draws into the buffers of its widget: the drawing handed   *)
(* out is the compositor's draw target, with the compositor's dirty region, *)
(* and is given back with it (DrawingKeepsItsRegion); SWGL never draws to   *)
(* memory that is not mapped (FramebufferIsMapped); the region stays within *)
(* the size the frame began with (RegionFitsTheFrame).                      *)
(***************************************************************************)
THEOREM WidgetsCorrect == Spec => []WidgetConsistent
<1>1. PlatformsInv => WidgetConsistent
  BY WidgetInvConsistent DEF PlatformsInv
<1> QED
  BY <1>1, PlatformsInvariant, PTL

(***************************************************************************)
(* The compositor of native layers: the root shows the window's layer alone *)
(* or live layers only (RootIsOfTheFrame), a layer is bound only while it is*)
(* mapped (BoundIsMapped), SWGL's framebuffer is a draw target that is      *)
(* locked (WindowFramebufferIsMapped), and the count of tiles is that of the*)
(* live ones, however surfaces and tiles go (TilesAreCounted).              *)
(***************************************************************************)
THEOREM NativeLayersCorrect == Spec => []NativeConsistent
<1>1. PlatformsInv => NativeConsistent
  BY NativeInvConsistent DEF PlatformsInv
<1> QED
  BY <1>1, PlatformsInvariant, PTL

(***************************************************************************)
(* The layers of the software renderer: a frame draws the surfaces that were*)
(* added for it, a tile shows what was drawn last, and a staging texture in *)
(* a pool is nobody else's (LayersConsistent); where it draws the layers    *)
(* itself, a new EGL surface is drawn whole, its errors are raised and      *)
(* uploads land where they were drawn (GLConsistent).                       *)
(***************************************************************************)
THEOREM SoftwareLayersCorrect == Spec => []SoftwareLayersConsistent
<1>1. PlatformsInv => SoftwareLayersConsistent
  BY LayersInvConsistent, GLInvConsistent
     DEF PlatformsInv, SoftwareLayersConsistent
<1> QED
  BY <1>1, PlatformsInvariant, PTL

(***************************************************************************)
(* The texture hosts of Direct3D, as long as none of the four failures that *)
(* they do not recover from happened: textures given to a GL renderer are   *)
(* all on its device and their keyed mutexes owned (GivenImagesAreOwned),   *)
(* planes given to SWGL were read back for this lock (GivenPlanesAreFresh), *)
(* and between frames nothing is owned or mapped (IdleHostsHoldNothing).    *)
(***************************************************************************)
THEOREM D3DHostsCorrect == Spec => []D3DConsistent
<1>1. PlatformsInv => D3DConsistent
  BY D3DInvConsistent DEF PlatformsInv
<1> QED
  BY <1>1, PlatformsInvariant, PTL

(***************************************************************************)
(* The hosts of GL textures: each use of a SurfaceTexture updates it at most*)
(* once, takes its frame even if it is skipped, and gives no other one      *)
(* (SurfacesConsistent); a texture that is kept is used only after the fence*)
(* or the upload of what was drawn last (CachedConsistent).                 *)
(***************************************************************************)
THEOREM GLHostsCorrect == Spec => []GLHostsConsistent
<1>1. PlatformsInv => GLHostsConsistent
  BY SurfaceInvConsistent DEF PlatformsInv, CacheInv, GLHostsConsistent
<1> QED
  BY <1>1, PlatformsInvariant, PTL
=============================================================================
