------------------------- MODULE CachedTextureHosts --------------------------
(***************************************************************************)
(* Three hosts that make a GL texture once and keep it while the memory     *)
(* behind it is drawn to again by someone else:                             *)
(* RenderAndroidHardwareBufferTextureHost, whose buffer carries the fence   *)
(* of its writer, RenderEGLImageTextureHost, made with a sync object, and   *)
(* RenderExternalTextureHost, which uploads the client's memory.            *)
(***************************************************************************)

VARIABLES
  cacheKind,    \* "hardware", "image" or "external"
  cacheHost,    \* the members of the host
  cacheFence,   \* the hardware buffer carries an acquire fence
  cacheUnread,  \* the writer's last drawing is not known to be complete, or
                \* is not in the texture
  cacheFrame,   \* what a renderer was given in its frame
  cacheTrouble  \* a sync object could not be made or waited for

cacheVars == <<cacheKind, cacheHost, cacheFence, cacheUnread, cacheFrame,
               cacheTrouble>>

CacheTypeOK ==
  /\ cacheKind \in {"hardware", "image", "external"}
  /\ cacheHost \in [gl : BOOLEAN, handle : BOOLEAN, sync : BOOLEAN,
                    updateNeeded : BOOLEAN, readback : BOOLEAN]
  /\ cacheFence \in BOOLEAN /\ cacheUnread \in BOOLEAN
  /\ cacheFrame \in {"none", "refused", "texture", "mapped", "source"}
  /\ cacheTrouble \in BOOLEAN

CacheInit ==
  /\ cacheKind \in {"hardware", "image", "external"}
  /\ \E sync \in BOOLEAN :
       /\ cacheHost = [gl |-> FALSE, handle |-> FALSE,
                       sync |-> sync /\ cacheKind = "image",
                       updateNeeded |-> cacheKind = "external",
                       readback |-> FALSE]
       /\ cacheFence = (sync /\ cacheKind = "hardware")
       /\ cacheUnread = (sync \/ cacheKind = "external")
  /\ cacheFrame = "none" /\ cacheTrouble = FALSE

(* EnsureLockable takes the fence whether or not the texture exists.        *)
TakesFence_Once == cacheFence /\ ~cacheHost.handle
TakesFence == cacheFence

(* WaitSync forgets the sync object, even one it failed to wait for.        *)
TakesSync == cacheHost.sync

(* UpdateTextures, for all the planes.                                      *)
Uploads_Once == cacheHost.updateNeeded /\ ~cacheHost.handle
Uploads == cacheHost.updateNeeded

(* A texture for GL, as Lock and ReadTexImage make it: whether it can be    *)
(* used, and the state after.  The fence of a hardware buffer whose sync    *)
(* object cannot be made is lost; a failed wait refuses the image.          *)
MakeTexture(synced, frame) ==
  LET waited == (TakesFence \/ TakesSync) /\ synced
      refused == TakesSync /\ ~synced
  IN /\ cacheHost' = [cacheHost EXCEPT !.gl = TRUE, !.sync = FALSE,
                        !.handle = @ \/ ~refused, !.updateNeeded = FALSE,
                        !.readback = frame = "mapped" /\ ~refused]
     /\ cacheFence' = (cacheFence /\ ~TakesFence)
     /\ cacheUnread' = (cacheUnread /\ ~waited /\ ~Uploads)
     /\ cacheTrouble' = (cacheTrouble \/ ((TakesFence \/ TakesSync) /\ ~synced))
     /\ cacheFrame' = IF refused THEN "refused" ELSE frame

(* The context cannot be made current, or there is no memory.               *)
Refuse ==
  /\ cacheFrame' = "refused"
  /\ cacheHost' = [cacheHost EXCEPT !.gl = TRUE]
  /\ UNCHANGED <<cacheFence, cacheUnread, cacheTrouble>>

(* Lock by a renderer that draws with GL.                                   *)
CacheLock ==
  /\ cacheFrame \in {"none", "refused"}
  /\ Refuse \/ \E synced \in BOOLEAN : MakeTexture(synced, "texture")
  /\ UNCHANGED cacheKind

(* MapPlane reads the texture back for a software renderer.  The external   *)
(* host, which has the memory, needs no texture for this.                   *)
CacheMapPlane ==
  /\ cacheFrame \in {"none", "refused"} /\ cacheKind # "external"
  /\ Refuse \/ \E synced \in BOOLEAN : MakeTexture(synced, "mapped")
  /\ UNCHANGED cacheKind

(* CreateTextureSource, for a layer drawn with GL.  That of an EGL image    *)
(* has a texture of its own and waits for the same sync object; that of a   *)
(* hardware buffer waits for nothing and leaves the fence on it, for       *)
(* the source, which is not this code's, to take when it is drawn.          *)
SourceWaits_Not == FALSE
SourceWaits == cacheHost.sync
CacheCreateTextureSource ==
  /\ cacheFrame \in {"none", "refused"} /\ cacheKind # "external"
  /\ \E synced \in BOOLEAN :
       /\ cacheFrame' = IF SourceWaits /\ ~synced THEN "refused" ELSE "source"
       /\ cacheUnread' = (cacheUnread /\ ~(SourceWaits /\ synced))
       /\ cacheTrouble' = (cacheTrouble \/ (SourceWaits /\ ~synced))
  /\ cacheHost' = [cacheHost EXCEPT !.gl = @ \/ cacheKind = "image",
                                    !.sync = @ /\ ~SourceWaits]
  /\ UNCHANGED <<cacheKind, cacheFence>>

(* Unlock does nothing; UnmapPlanes drops the read-back.                    *)
CacheUnlock ==
  /\ cacheFrame # "none" /\ cacheFrame' = "none"
  /\ cacheHost' = [cacheHost EXCEPT !.readback = FALSE]
  /\ UNCHANGED <<cacheKind, cacheFence, cacheUnread, cacheTrouble>>

(* The writer draws again to what nobody reads.  A hardware buffer gets a   *)
(* new fence, the external host is told by PrepareForUse; the host of an    *)
(* EGL image is not used again.                                             *)
CacheWrite ==
  /\ cacheFrame = "none" /\ cacheKind # "image"
  /\ cacheUnread' = TRUE
  /\ cacheFence' = (cacheKind = "hardware")
  /\ cacheHost' = [cacheHost EXCEPT !.updateNeeded = cacheKind = "external"]
  /\ UNCHANGED <<cacheKind, cacheFrame, cacheTrouble>>

CacheNext ==
  \/ CacheLock \/ CacheMapPlane \/ CacheCreateTextureSource
  \/ CacheUnlock \/ CacheWrite

(* Whatever a renderer is given, texture, read-back or texture source, and  *)
(* however often the host was used before, shows what the writer drew last: *)
(* its fence or sync object was waited for, or its memory uploaded          *)
(* (EnsureLockable, WaitSync, UpdateTextures), or the source still finds    *)
(* the fence on the buffer, unless a sync object failed.                    *)
CachedConsistent ==
  /\ CacheTypeOK
  /\ cacheFrame \in {"texture", "mapped", "source"} /\ ~cacheTrouble =>
       ~cacheUnread \/ (cacheFrame = "source" /\ cacheFence)
=============================================================================
