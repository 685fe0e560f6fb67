---------------------------- MODULE SoftwareLayers ----------------------------
(***************************************************************************)
(* RenderCompositorLayersSWGL and its Direct3D 11 form: the software       *)
(* renderer draws the dirty part of a tile into memory that is mapped, the  *)
(* compositor copies that part to the tile's texture and draws the textures *)
(* of the surfaces of a frame.  The memory is a staging texture of the     *)
(* tile, a temporary one while the GPU still copies from the tile's own, or *)
(* a data surface, as a preference says that may change at any time.       *)
(***************************************************************************)
EXTENDS Naturals, Sequences, SequencesExt, FiniteSetsExt

CONSTANTS
  Surfaces,     \* native surface ids; each has one tile here
  Images,       \* external images
  Modes,        \* upload modes
  MaxTextures,  \* bound: staging textures alive at once
  PoolSize      \* kMaxPoolSize

ASSUME SoftwareLayersAssumption ==
  /\ Modes \subseteq {"immediate", "staging", "noblock", "pooled"}
  /\ MaxTextures \in Nat /\ PoolSize \in Nat /\ "none" \notin Surfaces

VARIABLES
  mInFrame, mCompositingStarted, mFrameSurfaces,
  mSurfaces,     \* [kind, image, tile, pool], kind "none": not created
  mUploadMode, uploadModePref,
  current,       \* mCurrentTile and its dirty parts
  mCurrentStagingTexture, mCurrentStagingTextureIsTemp,
  busy,          \* staging textures the GPU still copies from
  drawn,         \* the frame's surfaces and those it drew
  webRenderError,
  phase          \* "idle", "begun", "adding", "composited"

layersVars == <<mInFrame, mCompositingStarted, mFrameSurfaces, mSurfaces,
                mUploadMode, uploadModePref, current, mCurrentStagingTexture,
                mCurrentStagingTextureIsTemp, busy, drawn, webRenderError,
                phase>>
frameVars == <<mInFrame, mCompositingStarted, mFrameSurfaces, drawn, phase>>
tileVars == <<current, mCurrentStagingTexture, mCurrentStagingTextureIsTemp>>
prefVars == <<mUploadMode, uploadModePref>>

Parts == {1, 2}              \* of a tile
Textures == 1 .. MaxTextures
NoTexture == 0

(* A tile: its texture (a source made in immediate mode is "unmade" until    *)
(* its first update, and "lost" if staging memory is copied to it before),   *)
(* its memory, and the parts where the texture does not show what WebRender *)
(* drew there last.                                                         *)
Tile(texture, own, surface) ==
  [texture |-> texture, mStagingTexture |-> own, mSurface |-> surface,
   stale |-> {}, mValidRect |-> {}]
LayersNoTile == Tile("none", NoTexture, FALSE)
NoSurface == [kind |-> "none", image |-> "none", tile |-> LayersNoTile,
              tiles |-> 0, pool |-> <<>>]

LayersInit ==
  /\ mInFrame = FALSE /\ mCompositingStarted = FALSE /\ mFrameSurfaces = <<>>
  /\ mSurfaces = [s \in Surfaces |-> NoSurface]
  /\ uploadModePref \in Modes /\ mUploadMode = uploadModePref
  /\ current = [surface |-> "none", dirty |-> {}]
  /\ mCurrentStagingTexture = NoTexture
  /\ mCurrentStagingTextureIsTemp = FALSE
  /\ busy = {}
  /\ drawn = [added |-> <<>>, shown |-> <<>>]
  /\ webRenderError = FALSE /\ phase = "idle"

-----------------------------------------------------------------------------
(* The frame                                                                *)

LayersBeginFrame ==
  /\ phase = "idle" /\ phase' = "begun" /\ mInFrame' = TRUE
  /\ mUploadMode' = uploadModePref
  /\ drawn' = [added |-> <<>>, shown |-> <<>>]
  /\ UNCHANGED <<mCompositingStarted, mFrameSurfaces, mSurfaces,
                 uploadModePref, tileVars, busy, webRenderError>>

CanAdd == phase \in {"begun", "adding"} /\ current.surface = "none"

LayersAddSurface(s) ==
  /\ CanAdd /\ phase' = "adding" /\ mSurfaces[s].kind # "none"
  /\ s \notin ToSet(drawn.added)
  /\ mFrameSurfaces' = Append(mFrameSurfaces, s)
  /\ drawn' = [drawn EXCEPT !.added = Append(@, s)]
  /\ UNCHANGED <<mInFrame, mCompositingStarted, mSurfaces, prefVars,
                 tileVars, busy, webRenderError>>

(* Without a dirty rect, or when the compositor cannot begin a frame for    *)
(* the window, nothing is composited.                                       *)
LayersStartCompositing ==
  /\ phase = "adding" /\ ~mCompositingStarted /\ mInFrame
  /\ mCompositingStarted' = TRUE
  /\ UNCHANGED <<mInFrame, mFrameSurfaces, drawn, phase, mSurfaces, prefVars,
                 tileVars, busy, webRenderError>>

(* CompositorEndFrame takes the surfaces of this frame, drawn or not.       *)
FrameSurfacesAfterEnd_IfStarted ==
  IF mCompositingStarted THEN <<>> ELSE mFrameSurfaces
FrameSurfacesAfterEnd == <<>>

LayersCompositorEndFrame ==
  /\ CanAdd /\ phase' = "composited"
  /\ mFrameSurfaces' = FrameSurfacesAfterEnd
  /\ drawn' = IF mCompositingStarted
              THEN [drawn EXCEPT !.shown = mFrameSurfaces] ELSE drawn
  /\ UNCHANGED <<mInFrame, mCompositingStarted, mSurfaces, prefVars,
                 tileVars, busy, webRenderError>>

(* EndFrame and CancelFrame end, or cancel, the compositor's frame.         *)
LayersEndOrCancelFrame ==
  /\ phase \in {"begun", "composited"} /\ current.surface = "none"
  /\ phase' = "idle" /\ mInFrame' = FALSE /\ mCompositingStarted' = FALSE
  /\ UNCHANGED <<mFrameSurfaces, drawn, mSurfaces, prefVars,
                 tileVars, busy, webRenderError>>

-----------------------------------------------------------------------------
(* Surfaces and tiles                                                       *)

LayersChanging == phase = "begun" /\ current.surface = "none"
UnchangedBySurfaces == UNCHANGED <<frameVars, prefVars, tileVars>>

(* A staging texture exists while a tile, a pool or a mapping holds it; a   *)
(* new one gets the first free name.                                        *)
Held == {mSurfaces[s].tile.mStagingTexture : s \in Surfaces}
        \union (UNION {ToSet(mSurfaces[s].pool) : s \in Surfaces})
        \union {mCurrentStagingTexture}
Unused == Textures \ (Held \union busy)

(* CreateStagingTexture fails with an error for the parent process.         *)
CreateStagingTexture(t) ==
  \/ Unused # {} /\ t = Min(Unused) /\ UNCHANGED webRenderError
  \/ t = NoTexture /\ webRenderError' = TRUE

LayersCreateSurface(s, kind) ==
  /\ LayersChanging /\ mSurfaces[s].kind = "none"
  /\ mSurfaces' = [mSurfaces EXCEPT ![s] = [NoSurface EXCEPT !.kind = kind]]
  /\ UNCHANGED <<busy, webRenderError>> /\ UnchangedBySurfaces

LayersDestroySurface(s) ==
  /\ LayersChanging /\ mSurfaces[s].kind # "none"
  /\ mSurfaces' = [mSurfaces EXCEPT ![s] = NoSurface]
  /\ UNCHANGED <<busy, webRenderError>> /\ UnchangedBySurfaces

(* A tile whose texture cannot be made stays without one: it is not valid.  *)
DoCreateTile(tile) ==
  IF mUploadMode = "immediate"
  THEN tile = Tile("unmade", NoTexture, TRUE) /\ UNCHANGED webRenderError
  ELSE \/ tile = LayersNoTile /\ webRenderError' = TRUE
       \/ \E t \in Textures \union {NoTexture} :
             CreateStagingTexture(t) /\ tile = Tile("made", t, FALSE)

PossibleTiles ==
  {LayersNoTile, Tile("unmade", NoTexture, TRUE)} \union
  {Tile("made", t, FALSE) : t \in Textures \union {NoTexture}}

LayersCreateTile(s) ==
  /\ LayersChanging /\ mSurfaces[s].kind = "tiles" /\ mSurfaces[s].tiles = 0
  /\ \E tile \in PossibleTiles :
        /\ DoCreateTile(tile)
        /\ mSurfaces' = [mSurfaces EXCEPT ![s].tile = tile, ![s].tiles = 1]
  /\ UNCHANGED busy /\ UnchangedBySurfaces

LayersDestroyTile(s) ==
  /\ LayersChanging /\ mSurfaces[s].tiles = 1
  /\ mSurfaces' = [mSurfaces EXCEPT ![s].tile = LayersNoTile, ![s].tiles = 0]
  /\ UNCHANGED <<busy, webRenderError>> /\ UnchangedBySurfaces

(* An image that is not registered leaves the surface as it was.            *)
AttachExternalImage(s, image) ==
  /\ LayersChanging /\ mSurfaces[s].kind = "external"
  /\ mSurfaces' = [mSurfaces EXCEPT ![s].image = image]
  /\ UNCHANGED <<busy, webRenderError>> /\ UnchangedBySurfaces

-----------------------------------------------------------------------------
(* Drawing a tile                                                           *)

(* The tile's memory becomes that of the mode the preference says now.      *)
Reallocated(tile, t) ==
  CASE uploadModePref = "immediate" /\ tile.mStagingTexture # NoTexture ->
         [tile EXCEPT !.mStagingTexture = NoTexture, !.mSurface = TRUE]
    [] uploadModePref # "immediate" /\ tile.mSurface ->
         [tile EXCEPT !.mStagingTexture = t, !.mSurface = FALSE]
    [] OTHER -> tile
NeedsTexture(tile) == uploadModePref # "immediate" /\ tile.mSurface

(* What MapTile leaves: the texture mapped, whether it is a temporary one,   *)
(* and the pool.  The front of the pool is tried once; a busy one goes to    *)
(* the end and a new texture is made.                                       *)
IsTempAtMap_Kept == mCurrentStagingTextureIsTemp
IsTempAtMap == FALSE

MapOf(own, pool, t) ==
  IF own \notin busy \/ uploadModePref = "staging"
  THEN [texture |-> own, temp |-> IsTempAtMap, pool |-> pool]
  ELSE IF uploadModePref # "pooled" \/ pool = <<>>
  THEN [texture |-> t, temp |-> TRUE, pool |-> pool]
  ELSE IF Head(pool) \in busy
  THEN [texture |-> t, temp |-> TRUE, pool |-> Append(Tail(pool), Head(pool))]
  ELSE [texture |-> Head(pool), temp |-> TRUE, pool |-> Tail(pool)]
NeedsTemporary(own, pool) ==
  /\ own \in busy /\ uploadModePref \in {"noblock", "pooled"}
  /\ ~(uploadModePref = "pooled" /\ pool # <<>> /\ Head(pool) \notin busy)

(* WebRender redraws what became valid.  A blocking map waits for the GPU's *)
(* copies.  A tile without a texture, or without memory to map, is left as  *)
(* it was: WebRender's pixels are lost.  (A tile with neither memory nor an   *)
(* error handled in time would crash in immediate mode.)                    *)
LayersMapTile(s, dirty, valid, t) ==
  LET surface == mSurfaces[s]
      tile == Reallocated(surface.tile, t)
      map  == MapOf(tile.mStagingTexture, surface.pool, t)
      awaited == tile.stale \union dirty
      fetches == NeedsTexture(surface.tile)
                 \/ NeedsTemporary(tile.mStagingTexture, surface.pool)
  IN /\ LayersChanging /\ surface.tiles = 1
     /\ dirty # {} /\ dirty \subseteq valid
     /\ valid \subseteq tile.mValidRect \union dirty
     /\ current' = [surface |-> s, dirty |-> dirty]
     /\ UNCHANGED <<frameVars, prefVars>>
     /\ IF surface.tile.texture = "none"
        THEN /\ t = NoTexture
             /\ mSurfaces' = [mSurfaces EXCEPT ![s].tile.stale = awaited]
             /\ UNCHANGED <<mCurrentStagingTexture,
                            mCurrentStagingTextureIsTemp, busy,
                            webRenderError>>
        ELSE /\ IF fetches THEN CreateStagingTexture(t)
                ELSE t = NoTexture /\ UNCHANGED webRenderError
             /\ (uploadModePref = "immediate" => tile.mSurface)
             /\ LET mapped == tile.mSurface \/ map.texture # NoTexture
                IN /\ mSurfaces' = [mSurfaces EXCEPT
                        ![s].tile = [tile EXCEPT !.stale = awaited,
                           !.mValidRect = IF mapped THEN valid ELSE @],
                        ![s].pool = IF tile.mSurface THEN @ ELSE map.pool]
                   /\ mCurrentStagingTexture' =
                        IF tile.mSurface THEN NoTexture ELSE map.texture
                   /\ mCurrentStagingTextureIsTemp' =
                        IF tile.mSurface THEN IsTempAtMap ELSE map.temp
                   /\ busy' = busy \ {map.texture}

(* Only the dirty box is copied to the texture: WebRender has not drawn the *)
(* rest of the memory it was given.                                         *)
Copied_Valid(tile, dirty) == tile.mValidRect
Copied(tile, dirty) == dirty

LayersUnmapTile ==
  LET s == current.surface
      tile == mSurfaces[s].tile
      t == mCurrentStagingTexture
      copied == IF tile.mSurface THEN current.dirty
                ELSE Copied(tile, current.dirty)
      updated == IF tile.texture = "unmade" /\ ~tile.mSurface
                 THEN [tile EXCEPT !.texture = "lost"]
                 ELSE [tile EXCEPT
                        !.stale = (@ \union copied) \ current.dirty,
                        !.texture = IF @ = "lost" THEN @ ELSE "made"]
      pooled == /\ mCurrentStagingTextureIsTemp /\ uploadModePref = "pooled"
                /\ Len(mSurfaces[s].pool) < PoolSize
  IN /\ s # "none" /\ current' = [surface |-> "none", dirty |-> {}]
     /\ IF tile.texture = "none" \/ (~tile.mSurface /\ t = NoTexture)
        THEN UNCHANGED <<mSurfaces, mCurrentStagingTexture,
                         mCurrentStagingTextureIsTemp, busy>>
        ELSE /\ mSurfaces' = [mSurfaces EXCEPT ![s].tile = updated,
                  ![s].pool = IF pooled /\ ~tile.mSurface
                              THEN Append(@, t) ELSE @]
             /\ IF tile.mSurface
                THEN UNCHANGED <<mCurrentStagingTexture,
                                 mCurrentStagingTextureIsTemp, busy>>
                ELSE /\ busy' = busy \union {t}
                     /\ mCurrentStagingTexture' = NoTexture
                     /\ mCurrentStagingTextureIsTemp' = FALSE
     /\ UNCHANGED <<frameVars, prefVars, webRenderError>>

(* The GPU is done with a copy; the preference is changed.                   *)
GpuCopies ==
  /\ \E t \in busy : busy' = busy \ {t}
  /\ UNCHANGED <<frameVars, mSurfaces, prefVars, tileVars,
                 webRenderError>>

ChangePref ==
  /\ \E m \in Modes \ {uploadModePref} : uploadModePref' = m
  /\ UNCHANGED <<frameVars, mSurfaces, mUploadMode, tileVars, busy,
                 webRenderError>>

LayersNext ==
  \/ LayersBeginFrame \/ LayersStartCompositing \/ LayersCompositorEndFrame
  \/ LayersEndOrCancelFrame \/ LayersUnmapTile \/ GpuCopies \/ ChangePref
  \/ \E s \in Surfaces :
        \/ LayersAddSurface(s) \/ LayersCreateTile(s) \/ LayersDestroySurface(s)
        \/ LayersDestroyTile(s)
        \/ \E kind \in {"tiles", "external"} : LayersCreateSurface(s, kind)
        \/ \E image \in Images : AttachExternalImage(s, image)
        \/ \E dirty \in SUBSET Parts, valid \in SUBSET Parts,
              t \in Textures \union {NoTexture} :
              LayersMapTile(s, dirty, valid, t)

-----------------------------------------------------------------------------
(* What a frame draws is what was added for it: no surface is carried over  *)
(* from a frame that was not composited, so that CompositorEndFrame's       *)
(* release assert finds each of them.                                       *)
FramesDrawTheirSurfaces ==
  /\ drawn.shown \in {<<>>, drawn.added}
  /\ \A s \in ToSet(mFrameSurfaces) : mSurfaces[s].kind # "none"

(* As long as no error was raised and the tile's texture exists, the valid  *)
(* part of the texture shows what WebRender drew last, whichever memory the *)
(* draws went through and however the mode changed meanwhile.               *)
TilesShowWhatWasDrawn ==
  \A s \in Surfaces :
    LET tile == mSurfaces[s].tile
    IN ~webRenderError /\ tile.texture = "made" /\ current.surface # s =>
         tile.stale \intersect tile.mValidRect = {}

(* Map's comment: the staging texture of the real tile remains untouched and *)
(* the tile goes back to it.  A temporary texture is nobody's own: the pool  *)
(* of a surface holds no tile's staging texture, and holds each one once.   *)
PooledTexturesAreFree ==
  \A s \in Surfaces :
    LET pool == mSurfaces[s].pool
    IN /\ Cardinality(ToSet(pool)) = Len(pool)
       /\ \A r \in Surfaces :
            /\ mSurfaces[r].tile.mStagingTexture \notin ToSet(pool)
            /\ r # s => ToSet(mSurfaces[r].pool) \intersect ToSet(pool) = {}
       /\ mCurrentStagingTexture \notin ToSet(pool)

LayersConsistent ==
  FramesDrawTheirSurfaces /\ TilesShowWhatWasDrawn /\ PooledTexturesAreFree
=============================================================================
