------------------------------ MODULE MCPlatforms ------------------------------
(***************************************************************************)
(* The compositors of the software renderer and the texture hosts of three  *)
(* platforms.  They share no state: each behaviour here is that of the      *)
(* compositor of one window, of one texture, or of the hosts of one         *)
(* SurfaceTexture, and the state of the others stays what it was.           *)
(***************************************************************************)
EXTENDS WidgetBuffers, NativeLayers, SoftwareLayers, SoftwareGLLayers,
        D3DTextureHosts, SurfaceTextureHosts, CachedTextureHosts

CONSTANT Checked  \* the parts that a behaviour may be about

VARIABLE part

compositorVars == <<widgetVars, nativeVars, layersVars, glVars>>
hostVars == <<d3dVars, surfVars, cacheVars>>
vars == <<part, compositorVars, hostVars>>

(* The choices the others make when they start do not matter.               *)
Init ==
  /\ part \in Checked
  /\ WidgetInit /\ NativeInit /\ LayersInit /\ GLInit
  /\ D3DInit /\ SurfaceInit /\ CacheInit
  /\ part # "widget" =>
       ~gtk /\ widget.size = CHOOSE z \in WidgetSizes : TRUE
  /\ part # "native" =>
       /\ ~swgl /\ ~shouldUseNativeCompositor
       /\ clientArea = CHOOSE z \in WindowSizes : TRUE
  /\ part # "layers" => mUploadMode = CHOOSE m \in Modes : TRUE
  /\ part # "d3d" => d3dKind = "dxgi" /\ ~d3dKeyed /\ d3dMode = "gl"
  /\ part # "surface" => ~surfSingle /\ ~surfRemote
  /\ part # "cached" => cacheKind = "image" /\ ~cacheUnread

WidgetStep ==
  /\ part = "widget" /\ WidgetNext
  /\ UNCHANGED <<part, nativeVars, layersVars, glVars, hostVars>>
NativeStep ==
  /\ part = "native" /\ NativeNext
  /\ UNCHANGED <<part, widgetVars, layersVars, glVars, hostVars>>
LayersStep ==
  /\ part = "layers" /\ LayersNext
  /\ UNCHANGED <<part, widgetVars, nativeVars, glVars, hostVars>>
GLStep ==
  /\ part = "gl" /\ GLNext
  /\ UNCHANGED <<part, widgetVars, nativeVars, layersVars, hostVars>>
D3DStep ==
  /\ part = "d3d" /\ D3DNext
  /\ UNCHANGED <<part, surfVars, cacheVars, compositorVars>>
SurfaceStep ==
  /\ part = "surface" /\ SurfaceNext
  /\ UNCHANGED <<part, d3dVars, cacheVars, compositorVars>>
CacheStep ==
  /\ part = "cached" /\ CacheNext
  /\ UNCHANGED <<part, d3dVars, surfVars, compositorVars>>

Next == WidgetStep \/ NativeStep \/ LayersStep \/ GLStep
          \/ D3DStep \/ SurfaceStep \/ CacheStep

Spec == Init /\ [][Next]_vars

(* Both compositors of layers: the tree, the tiles and the textures of the  *)
(* software renderer's layers on Direct3D, Wayland or Core Animation        *)
(* (LayersConsistent), and those it draws itself with GL (GLConsistent).    *)
SoftwareLayersConsistent == LayersConsistent /\ GLConsistent

(* The hosts of GL textures: each video frame is latched once and in turn   *)
(* (SurfacesConsistent), and a texture that is kept is used only after the  *)
(* fence or the upload of what was drawn last (CachedConsistent).           *)
GLHostsConsistent == SurfacesConsistent /\ CachedConsistent
=============================================================================
