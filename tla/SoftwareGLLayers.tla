--------------------------- MODULE SoftwareGLLayers ---------------------------
(***************************************************************************)
(* RenderCompositorOGLSWGL on Android: the window's EGL surface, which      *)
(* comes and goes with the activity, the full renders that a new surface   *)
(* needs, and tiles that reach their textures through a pixel buffer, a    *)
(* memory surface of the tile's size or the top left of it used as scratch. *)
(***************************************************************************)
EXTENDS Naturals

VARIABLES
  mEGLSurface, mFullRender, mHandlingNewSurfaceError,
  failures,        \* surfaces not created in a row
  raised,          \* WebRenderError::NEW_SURFACE was raised since
  begun,           \* mInFrame
  render,          \* of this frame: "none", "partial" or "full"
  composited,      \* the compositor's frame was begun (BeginFrameForWindow)
  whole,           \* each pixel of the surface has been drawn
  refused,         \* a full render was not composited
  tile             \* the tile and its texture, see GLNoTile

glVars == <<mEGLSurface, mFullRender, mHandlingNewSurfaceError, failures,
            raised, begun, render, composited, whole, refused, tile>>
glSurfaceVars == <<mEGLSurface, mHandlingNewSurfaceError, failures, raised>>
glFrameVars == <<begun, render, composited, whole, refused, mFullRender>>

(* Where the memory given to WebRender starts in the tile and how it is      *)
(* uploaded: "placed" at the dirty part's own place, or "scratch".           *)
GLNoTile == [exists |-> FALSE, pbo |-> FALSE, texture |-> FALSE,
           mapped |-> "none", scratch |-> FALSE, misplaced |-> FALSE]

GLInit ==
  /\ mEGLSurface = FALSE /\ mFullRender = FALSE
  /\ mHandlingNewSurfaceError = FALSE /\ failures = 0 /\ raised = FALSE
  /\ begun = FALSE /\ render = "none" /\ composited = FALSE
  /\ whole = FALSE /\ refused = FALSE /\ tile = GLNoTile

-----------------------------------------------------------------------------
(* The EGL surface                                                          *)

(* "The subsequent render after creating a new surface must be a full        *)
(* render", whether the surface could be created or not.                     *)
FullRenderAfterCreate_OnPause == mFullRender
FullRenderAfterCreate == TRUE

(* The first failure gives the widget a chance to bring another surface; the *)
(* next one raises an error.                                                 *)
RaisesNewSurface_First == TRUE
RaisesNewSurface == mHandlingNewSurfaceError

(* The old surface is destroyed first; a window larger than a texture may be *)
(* gets none.                                                                *)
GLResume(tooBig, created) ==
  /\ ~begun /\ mEGLSurface' = (~tooBig /\ created)
  /\ whole' = FALSE /\ refused' = FALSE
  /\ IF tooBig
     THEN UNCHANGED <<mFullRender, mHandlingNewSurfaceError, failures, raised>>
     ELSE /\ mFullRender' = FullRenderAfterCreate
          /\ mHandlingNewSurfaceError' = ~created
          /\ failures' = IF created THEN 0 ELSE IF failures = 2 THEN 2
                         ELSE failures + 1
          /\ raised' = (~created /\ RaisesNewSurface)
  /\ UNCHANGED <<begun, render, composited, tile>>

Pause ==
  /\ ~begun /\ mEGLSurface /\ mEGLSurface' = FALSE
  /\ whole' = FALSE /\ refused' = FALSE
  /\ UNCHANGED <<mFullRender, mHandlingNewSurfaceError, failures, raised,
                 begun, render, composited, tile>>

(* The render thread draws no frame of a renderer that is paused.            *)
GLBeginFrame ==
  /\ ~begun /\ mEGLSurface /\ begun' = TRUE
  /\ render' = "none" /\ composited' = FALSE
  /\ UNCHANGED <<glSurfaceVars, whole, refused, mFullRender, tile>>

(* wr_renderer_render, full if the compositor requests it; the compositor    *)
(* may not begin a frame for the window.                                     *)
Render(full, started) ==
  /\ begun /\ render = "none" /\ tile.mapped = "none"
  /\ mFullRender => full
  /\ render' = (IF full THEN "full" ELSE "partial") /\ composited' = started
  /\ UNCHANGED <<glSurfaceVars, begun, whole, refused, mFullRender, tile>>

EndFrame ==
  /\ begun /\ render # "none" /\ begun' = FALSE /\ mFullRender' = FALSE
  /\ whole' = (whole \/ (composited /\ render = "full"))
  /\ refused' = (refused \/ (render = "full" /\ ~composited))
  /\ UNCHANGED <<glSurfaceVars, render, composited, tile>>

(* A render that failed.                                                     *)
CancelFrame ==
  /\ begun /\ tile.mapped = "none" /\ begun' = FALSE
  /\ UNCHANGED <<glSurfaceVars, render, composited, whole, refused,
                 mFullRender, tile>>

-----------------------------------------------------------------------------
(* Tiles                                                                    *)

(* With pixel buffer state in the GL context there is a buffer, otherwise a  *)
(* memory surface.                                                           *)
GLCreateTile ==
  /\ begun /\ render = "none" /\ ~tile.exists
  /\ \E pbo \in BOOLEAN :
        tile' = [GLNoTile EXCEPT !.exists = TRUE, !.pbo = pbo]
  /\ UNCHANGED <<glSurfaceVars, glFrameVars>>

GLDestroyTile ==
  /\ begun /\ render = "none" /\ tile.exists /\ tile.mapped = "none"
  /\ tile' = GLNoTile
  /\ UNCHANGED <<glSurfaceVars, glFrameVars>>

(* Without a buffer WebRender draws in place until the texture exists, as    *)
(* the whole surface is uploaded then; later on in the top left.             *)
PlaceAtMap_Scratch == IF tile.pbo THEN "placed" ELSE "scratch"
PlaceAtMap ==
  IF tile.pbo \/ ~tile.texture THEN "placed" ELSE "scratch"

(* mSubSurface remembers at Unmap how the tile was mapped.                   *)
ScratchAfterMap == ~tile.pbo /\ tile.texture

GLMapTile ==
  /\ begun /\ render = "none" /\ tile.exists /\ tile.mapped = "none"
  /\ tile' = [tile EXCEPT !.mapped = PlaceAtMap, !.scratch = ScratchAfterMap]
  /\ UNCHANGED <<glSurfaceVars, glFrameVars>>

(* The sub-surface is uploaded to the dirty rect's place, anything else from *)
(* where it lies.                                                            *)
Misplaces == tile.scratch # (tile.mapped = "scratch")

GLUnmapTile ==
  /\ tile.mapped # "none"
  /\ tile' = [tile EXCEPT !.mapped = "none", !.texture = TRUE,
                          !.misplaced = @ \/ Misplaces,
                          !.scratch = FALSE]
  /\ UNCHANGED <<glSurfaceVars, glFrameVars>>

GLNext ==
  \/ Pause \/ GLBeginFrame \/ EndFrame \/ CancelFrame
  \/ GLCreateTile \/ GLDestroyTile \/ GLMapTile \/ GLUnmapTile
  \/ \E a, b \in BOOLEAN : GLResume(a, b) \/ Render(a, b)

-----------------------------------------------------------------------------
(* The comment of CreateEGLSurface, as far as it holds: between frames a     *)
(* surface that is not whole still waits for its full render, unless the     *)
(* full render was made and the compositor did not take it.                  *)
NewSurfacesAreDrawnWhole ==
  mEGLSurface /\ ~begun => whole \/ mFullRender \/ refused

(* Resume's comment: a first failure is left to the widget, a second one in  *)
(* a row is raised, with however many pauses and large windows in between.   *)
NewSurfaceErrorsAreRaised == raised <=> failures >= 2

(* What is uploaded lands where WebRender drew it.                           *)
UploadsAreInPlace == ~tile.misplaced

GLConsistent ==
  /\ NewSurfacesAreDrawnWhole /\ NewSurfaceErrorsAreRaised
  /\ UploadsAreInPlace
=============================================================================
