--------------------------- MODULE D3DTextureHosts ---------------------------
(***************************************************************************)
(* RenderDXGITextureHost and RenderDXGIYCbCrTextureHost                     *)
(* (RenderD3D11TextureHost.cpp) with the planes a software renderer maps    *)
(* (RenderTextureHostSWGL.cpp): one host of a texture that a content        *)
(* process draws.  The shared textures are opened on a device, read under   *)
(* their keyed mutexes, wrapped in GL textures for ANGLE or copied to       *)
(* staging textures for SWGL.  Devices and their GL contexts are numbered   *)
(* from 1; 0 is none.                                                       *)
(***************************************************************************)
EXTENDS Naturals, FiniteSets

CONSTANTS
  MaxDevices,  \* bound: devices the process uses, one after the other
  MaxWrites    \* bound: times the content process draws

ASSUME D3DHostsAssumption == MaxDevices \in Nat \ {0} /\ MaxWrites \in Nat

VARIABLES
  d3dKind,    \* "dxgi": one texture, "ycbcr": one for each plane
  d3dKeyed,   \* the textures have keyed mutexes
  d3dHost,    \* the members of the host, see the type invariant
  d3dOwned,   \* the textures whose mutex this process owns
  d3dDevice,  \* the device of the renderers, and its GL context
  d3dMode,    \* "gl" or "software": what the renderers draw with
  d3dFrame,   \* what a renderer has done with the image in its frame
  d3dWritten, \* what the content process drew last
  d3dTrouble  \* what failed half-way before

d3dVars == <<d3dKind, d3dKeyed, d3dHost, d3dOwned, d3dDevice, d3dMode,
             d3dFrame, d3dWritten, d3dTrouble>>

SharedTextures == IF d3dKind = "dxgi" THEN {1} ELSE 1..3
LastPlane == Cardinality(SharedTextures)
Devices == 0..MaxDevices

D3DTypeOK ==
  /\ d3dKind \in {"dxgi", "ycbcr"} /\ d3dKeyed \in BOOLEAN
  /\ d3dHost \in [gl : Devices, handle : Devices, context : 0..2,
                  textures : [SharedTextures -> Devices], mutexes : BOOLEAN,
                  locked : BOOLEAN, swLocked : BOOLEAN,
                  cpu : [SharedTextures -> BOOLEAN],
                  data : [SharedTextures -> 0..MaxWrites + 1]]
  /\ d3dOwned \subseteq SharedTextures
  /\ d3dDevice \in 1..MaxDevices /\ d3dMode \in {"gl", "software"}
  /\ d3dFrame \in [phase : {"none", "gl", "mapping", "swgl"},
                   given : BOOLEAN, next : 1..3, since : 1..MaxWrites + 1]
  /\ d3dWritten \in 1..MaxWrites + 1
  /\ d3dTrouble \subseteq {"context", "timeout", "staging", "map"}

NoFrame == [phase |-> "none", given |-> FALSE, next |-> 1, since |-> 1]

(* The host is made without a GL context, a texture or a plane.             *)
D3DInit ==
  /\ d3dKind \in {"dxgi", "ycbcr"} /\ d3dKeyed \in BOOLEAN
  /\ d3dHost = [gl |-> 0, handle |-> 0, context |-> 0,
                textures |-> [t \in SharedTextures |-> 0], mutexes |-> FALSE,
                locked |-> FALSE, swLocked |-> FALSE,
                cpu |-> [t \in SharedTextures |-> FALSE],
                data |-> [t \in SharedTextures |-> 0]]
  /\ d3dOwned = {} /\ d3dDevice = 1 /\ d3dMode \in {"gl", "software"}
  /\ d3dFrame = NoFrame /\ d3dWritten = 1 /\ d3dTrouble = {}

(* DeleteTextureHandle.  The context may be lost: then the YCbCr host keeps *)
(* its handles and textures, and the other one forgets them all the same.   *)
Deleted_OnlyIfCurrent(h, current) ==
  IF h.handle = 0 \/ h.gl = 0 \/ ~current THEN h
  ELSE [h EXCEPT !.handle = 0, !.textures = [t \in SharedTextures |-> 0],
                 !.mutexes = FALSE]
Deleted(h, current) ==
  IF h.handle = 0 \/ h.gl = 0 \/ (d3dKind = "ycbcr" /\ ~current) THEN h
  ELSE [h EXCEPT !.handle = 0, !.textures = [t \in SharedTextures |-> 0],
                 !.mutexes = FALSE]
Stale(h, current) ==
  IF d3dKind = "ycbcr" /\ h.handle # 0 /\ (h.gl = 0 \/ ~current)
  THEN {"context"} ELSE {}

(* A mutex goes with the texture it belongs to.                             *)
StillOwned(h) == {t \in d3dOwned : h.textures[t] # 0}

(* EnsureD3D11Texture2D when the first k shared textures can be opened.     *)
Reopens(h) ==
  IF d3dKind = "dxgi" THEN h.textures[1] = 0
  ELSE h.handle = 0 /\ h.textures[1] \in {0, d3dDevice}
Opened(h, k) ==
  IF ~Reopens(h) THEN h
  ELSE [h EXCEPT !.textures = [t \in SharedTextures |->
                                IF t <= k THEN d3dDevice
                                ELSE IF t = k + 1 THEN 0 ELSE @[t]],
                 !.mutexes = IF k = LastPlane THEN d3dKeyed ELSE @]
(* An obsolete device is refused.                                           *)
IsOpen(h) == \A t \in SharedTextures : h.textures[t] = d3dDevice

(* LockInternal when the first k mutexes are acquired in time.              *)
Acquires(h) == ~h.locked /\ h.mutexes
Acquired(h, k) == IF Acquires(h) THEN 1..k ELSE {}
InTime_NotChecked(h, k) == TRUE
InTime(h, k) == Acquires(h) => k = LastPlane
LeftAcquired(h, k) == IF Acquires(h) /\ k \in 1..LastPlane - 1
                      THEN {"timeout"} ELSE {}

(* Unlock.                                                                  *)
Released_NotByPlanes(h) == IF h.locked /\ d3dKind = "dxgi" THEN {}
                           ELSE d3dOwned
Released(h) == IF h.locked /\ h.mutexes THEN {} ELSE d3dOwned

(***************************************************************************)
(* Lock and Unlock by a renderer that draws with GL.                        *)
(***************************************************************************)
(* The textures of the previous GL context go with it.                      *)
Switched(current) ==
  IF d3dHost.gl = d3dDevice THEN d3dHost
  ELSE [Deleted(d3dHost, current) EXCEPT !.gl = d3dDevice]

(* EnsureLockable: the GL textures are made once, over streams that refuse  *)
(* a texture of another device; a stream that fails drops everything.       *)
Wrapped(h, k, streams, current) ==
  IF h.handle # 0 THEN h
  ELSE LET opened == Opened(h, k)
           made == [opened EXCEPT !.handle = d3dDevice]
       IN IF \E t \in SharedTextures : opened.textures[t] = 0 THEN opened
          ELSE IF streams /\ IsOpen(opened) THEN made
          ELSE IF d3dKind = "ycbcr" /\ ~IsOpen(opened) THEN opened
          ELSE Deleted(made, current)
Lockable(h, k, streams) ==
  \/ h.handle # 0
  \/ streams /\ IsOpen(Opened(h, k))

D3DLock ==
  /\ d3dMode = "gl" /\ d3dFrame.phase \in {"none", "gl"}
  /\ \E k, a \in 0..LastPlane, streams, current \in BOOLEAN :
       LET h0 == Switched(current)
           h1 == Wrapped(h0, k, streams, current)
           ok == Lockable(h0, k, streams)
           given == ok /\ InTime(h1, a)
       IN /\ d3dHost' = [h1 EXCEPT !.locked = @ \/ given]
          /\ d3dOwned' = StillOwned(h1) \cup
                           (IF ok THEN Acquired(h1, a) ELSE {})
          /\ d3dFrame' = [d3dFrame EXCEPT !.phase = "gl", !.given = given]
          /\ d3dTrouble' = d3dTrouble
               \cup (IF h0.handle # 0 /\ d3dHost.gl # d3dDevice
                     THEN Stale(d3dHost, current) ELSE {})
               \cup (IF ok THEN LeftAcquired(h1, a)
                     ELSE IF h1.handle # 0 THEN {"context"} ELSE {})
  /\ UNCHANGED <<d3dKind, d3dKeyed, d3dDevice, d3dMode, d3dWritten>>

D3DUnlock ==
  /\ d3dFrame.phase = "gl"
  /\ d3dOwned' = Released(d3dHost)
  /\ d3dHost' = [d3dHost EXCEPT !.locked = FALSE]
  /\ d3dFrame' = NoFrame
  /\ UNCHANGED <<d3dKind, d3dKeyed, d3dDevice, d3dMode, d3dWritten,
                 d3dTrouble>>

(* GetD3D11Texture2DWithGL, for a video overlay.                            *)
D3DGetTexture ==
  /\ d3dMode = "gl" /\ d3dKind = "dxgi" /\ d3dFrame.phase \in {"none", "gl"}
  /\ d3dHost.textures[1] = 0
  /\ \E k \in 0..1 :
       d3dHost' = Opened([d3dHost EXCEPT !.gl = IF @ = 0 THEN d3dDevice
                                                ELSE @], k)
  /\ UNCHANGED <<d3dKind, d3dKeyed, d3dOwned, d3dDevice, d3dMode, d3dFrame,
                 d3dWritten, d3dTrouble>>

(***************************************************************************)
(* LockSWGL and UnlockSWGL by a software renderer, whose window has the     *)
(* SWGL context c.  The planes are read back one after the other.           *)
(***************************************************************************)
D3DLockSWGL ==
  /\ d3dMode = "software" /\ ~d3dHost.swLocked
  /\ \/ d3dFrame.phase = "none" /\ \E c \in {1, 2} :
          d3dHost' = [d3dHost EXCEPT !.context = c]
     \/ d3dFrame.phase = "swgl" /\ UNCHANGED d3dHost
  /\ d3dFrame' = [phase |-> "mapping", given |-> FALSE, next |-> 1,
                  since |-> d3dWritten]
  /\ UNCHANGED <<d3dKind, d3dKeyed, d3dOwned, d3dDevice, d3dMode, d3dWritten,
                 d3dTrouble>>

(* The host once plane i was copied; the mutexes are released again.        *)
ReadBack(h, i) ==
  [h EXCEPT !.locked = FALSE, !.cpu[i] = TRUE, !.data[i] = d3dWritten]

(* UnmapPlanes.                                                             *)
Unmapped_OnlyData(h) ==
  IF d3dKind = "dxgi" THEN h
  ELSE [h EXCEPT !.data = [t \in SharedTextures |-> 0]]
Unmapped(h) ==
  [h EXCEPT !.cpu = [t \in SharedTextures |-> FALSE],
            !.data = [t \in SharedTextures |-> 0]]

(* MapPlane: the DXGI host keeps a staging texture it has, whether or not   *)
(* it could be mapped.                                                      *)
KeepsStaging == d3dKind = "dxgi" /\ d3dHost.cpu[1]

NextPlane(h) ==
  IF d3dFrame.next = LastPlane
  THEN /\ d3dHost' = [h EXCEPT !.swLocked = TRUE]
       /\ d3dFrame' = [d3dFrame EXCEPT !.phase = "swgl", !.given = TRUE]
  ELSE /\ d3dHost' = h
       /\ d3dFrame' = [d3dFrame EXCEPT !.next = @ + 1]

D3DMapPlane ==
  /\ d3dFrame.phase = "mapping"
  /\ LET h == Opened(d3dHost, LastPlane)
     IN /\ KeepsStaging \/ IsOpen(h)
        /\ NextPlane(IF KeepsStaging THEN d3dHost
                     ELSE ReadBack(h, d3dFrame.next))
        /\ d3dOwned' = IF KeepsStaging THEN d3dOwned
                       ELSE Released([h EXCEPT !.locked = TRUE])
  /\ UNCHANGED <<d3dKind, d3dKeyed, d3dDevice, d3dMode, d3dWritten,
                 d3dTrouble>>

(* The planes mapped before are unmapped, if the first one was.             *)
AfterFailure_Left(h) == h
AfterFailure(h) == IF d3dFrame.next > 1 THEN Unmapped(h) ELSE h

(* The texture is not opened, not acquired in time, not copied or not       *)
(* mapped.                                                                  *)
D3DMapPlaneFails ==
  /\ d3dFrame.phase = "mapping" /\ ~KeepsStaging
  /\ \E k, a \in 0..LastPlane, staging \in BOOLEAN :
       LET i == d3dFrame.next
           h == Opened(d3dHost, k)
           open == IsOpen(h)
           copied == open /\ InTime(h, a) /\ staging
       IN /\ d3dHost' = AfterFailure(
               IF copied THEN [ReadBack(h, i) EXCEPT !.data[i] = 0]
               ELSE [h EXCEPT !.locked = @ \/ (open /\ InTime(h, a))])
          /\ d3dOwned' = IF copied THEN Released([h EXCEPT !.locked = TRUE])
                         ELSE IF open THEN StillOwned(h) \cup Acquired(h, a)
                         ELSE StillOwned(h)
          /\ d3dTrouble' = d3dTrouble \cup
               (IF ~open THEN {}
                ELSE IF ~InTime(h, a) THEN LeftAcquired(h, a)
                ELSE IF staging THEN {"map"} ELSE {"staging"})
  /\ d3dFrame' = [d3dFrame EXCEPT !.phase = "swgl"]
  /\ UNCHANGED <<d3dKind, d3dKeyed, d3dDevice, d3dMode, d3dWritten>>

D3DUnlockSWGL ==
  /\ d3dFrame.phase = "swgl"
  /\ d3dHost' = IF d3dHost.swLocked
                THEN [Unmapped(d3dHost) EXCEPT !.swLocked = FALSE]
                ELSE d3dHost
  /\ d3dFrame' = NoFrame
  /\ UNCHANGED <<d3dKind, d3dKeyed, d3dOwned, d3dDevice, d3dMode, d3dWritten,
                 d3dTrouble>>

(***************************************************************************)
(* The rest of the process and the content process.                         *)
(***************************************************************************)
(* A device reset or a WebRender error clears what the host caches; the     *)
(* renderers that come next may use another device, or draw in software.    *)
D3DClearCachedResources ==
  /\ d3dFrame.phase = "none"
  /\ \E current \in BOOLEAN :
       LET h == Deleted(d3dHost, current)
       IN /\ d3dHost' = [h EXCEPT !.gl = 0]
          /\ d3dOwned' = StillOwned(h)
          /\ d3dTrouble' = d3dTrouble \cup Stale(d3dHost, current)
  /\ d3dDevice' \in {d3dDevice, d3dDevice + 1} \cap Devices
  /\ d3dMode' \in {d3dMode, "software"}
  /\ UNCHANGED <<d3dKind, d3dKeyed, d3dFrame, d3dWritten>>

(* Without a keyed mutex the content process is kept from a texture that a  *)
(* frame uses by a sync object.                                             *)
D3DWrite ==
  /\ d3dWritten <= MaxWrites
  /\ IF d3dKeyed THEN d3dOwned = {} ELSE d3dFrame.phase = "none"
  /\ d3dWritten' = d3dWritten + 1
  /\ UNCHANGED <<d3dKind, d3dKeyed, d3dHost, d3dOwned, d3dDevice, d3dMode,
                 d3dFrame, d3dTrouble>>

D3DNext ==
  \/ D3DLock \/ D3DUnlock \/ D3DGetTexture
  \/ D3DLockSWGL \/ D3DMapPlane \/ D3DMapPlaneFails \/ D3DUnlockSWGL
  \/ D3DClearCachedResources \/ D3DWrite

(***************************************************************************)
(* Properties.  Four failures leave a host in a state it does not recover   *)
(* from (d3dTrouble, see the README); what follows holds until one happens. *)
(***************************************************************************)
(* An image that a GL renderer draws has all its textures on the device of  *)
(* the renderer, under its GL context and, if they have keyed mutexes, owns *)
(* every one of them: through resets, overlays, refused streams and locks   *)
(* that timed out (Lock, EnsureLockable, LockInternal, DeleteTextureHandle).*)
GivenImagesAreOwned ==
  d3dFrame.phase = "gl" /\ d3dFrame.given =>
    /\ d3dHost.handle = d3dDevice /\ IsOpen(d3dHost)
    /\ d3dKeyed => d3dOwned = SharedTextures

(* Every plane that SWGL samples is mapped and was read back for this lock, *)
(* not for an earlier one (UpdatePlanes, MapPlane, UnmapPlanes).            *)
GivenPlanesAreFresh ==
  d3dFrame.phase = "swgl" /\ d3dFrame.given =>
    \A t \in SharedTextures :
      d3dHost.cpu[t] /\ d3dHost.data[t] >= d3dFrame.since

(* Between frames no mutex is owned, so that the content process can draw,  *)
(* and nothing is left mapped (Unlock, MapTexture, UnlockSWGL).             *)
IdleHostsHoldNothing ==
  d3dFrame.phase = "none" =>
    /\ d3dOwned = {} /\ ~d3dHost.locked
    /\ \A t \in SharedTextures : ~d3dHost.cpu[t]

(* RenderD3D11TextureHost.cpp: what a host gives to a renderer is current,  *)
(* and what it does not give it does not keep.                              *)
D3DConsistent ==
  /\ D3DTypeOK
  /\ d3dTrouble = {} =>
       GivenImagesAreOwned /\ GivenPlanesAreFresh /\ IdleHostsHoldNothing
=============================================================================
