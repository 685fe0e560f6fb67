# Formal models of WebRender's Gecko bindings

This directory holds TLA+ models of `webrender_bindings`, the layer between Gecko's
compositor (`gfx/layers`) and the `webrender` crate, the TLC configurations that check
them on small instances, and proofs of their main theorems for the TLA+ proof system.
Paths such as `RenderThread.cpp:490` are relative to the repository's root;
`src/bindings.rs` is the Rust side.

`PROJECT.json` says for every definition which lines it stands for (`map`), lists the
runs, for each property a mutation of the code that breaks it (`mutants`), the hazards
the properties are for, and the theorems.

## 1. The system

| component | state | operations | with whom it interacts |
|---|---|---|---|
| **Render thread** `RenderThread.{cpp,h}` | `mRenderers`, `mWindowInfos` (per window: pending frames, frames being built, pending notifier events, destroyed flag), `mWrNotifierEventsQueues`, the error flags, thread pools | `AddRenderer`, `RemoveRenderer`, `WrNotifierEvent_*`, `HandleWrNotifierEvents`, `HandleFrameOneDoc`, `UpdateAndRender`, `Inc/DecPendingFrameCount`, `TooManyPendingFrames`, `SetClearColor`, `Pause`, `Resume`, `ShutDown` | called from the compositor thread, from one render backend thread per window, and from the main thread; posts runnables to itself and to the compositor thread |
| **WebRenderAPI** `WebRenderAPI.{cpp,h}` | document handle, queue of transactions waiting for remote textures, `mRendererDestroyed` | `Create`, `DestroyRenderer`, `WaitFlushed`, `SendTransactions`, display list building | sends messages down the api channel to the backend, blocks on `SynchronousTask` |
| **Notifier / C API** `src/bindings.rs`, `webrender_ffi.h` | none of its own | `CppNotifier`, `wr_*` functions | called by the webrender crate, calls `wr_notifier_*` |
| **Texture registry** `RenderThread.cpp:1028-1260`, `RenderTextureHost*` | `mRenderTextures`, `mSyncObjectNeededRenderTextures`, `mRenderTexturesDeferred`, `mRenderTextureOps` under `mRenderTextureMapLock` | `RegisterExternalImage`, `UnregisterExternalImage`, `PrepareForUse`, `NotifyForUse`, `NotifyNotUsed`, `HandleRenderTextureOps`, `DeferredRenderTextureHostDestroy` | texture hosts of `gfx/layers` register from the compositor thread; `RendererOGL` looks textures up while rendering |
| **RendererOGL** | the crate's renderer, recording, frame start time, paused or not | `UpdateAndRender`, `Update`, `Pause`, `Resume`, `CheckGraphicsResetStatus`, `WaitForGPU` | render thread; its `RenderCompositor` |
| **Render compositors** `RenderCompositor*` | `mLatestRenderFrameId`, queries of presented frames, release fence, native surfaces and tiles | `BeginFrame`, `EndFrame`, `CancelFrame`, `WaitForGPU`, `GetLastCompletedFrameId`, `Bind`, `Unbind`, `AddSurface` | driver and OS compositor; `AsyncImagePipelineManager` recycles textures by the frame ids |
| **DCLayerTree** | surfaces, tiles, video swap chain, layers | `CreateSurface`, `CreateTile`, `AddSurface`, `CompositorEndFrame` | DirectComposition |
| **Texture hosts** `Render*TextureHost*` | the platform image and whether it is locked, attached, prepared | `Lock`, `Unlock`, `PrepareForUse`, `NotifyForUse`, `NotifyNotUsed`, `ClearCachedResources` | texture registry, `RendererOGL` |
| **Program cache** `src/program_cache.rs` | names of files not yet loaded, disk files, list of startup shaders | load at startup, save on change, on a worker pool | file system |
| **Blob images** `src/moz2d_renderer.rs`, `Moz2DImageRenderer.cpp` | blob commands by key, font tables behind a lock | `merge_blob_images`, `rasterize`, `prepare_resources`, `AddFontData`, `DeleteFontData` | scene builder and rasteriser threads |
| **Types, SWGL, screenshots, build** | counters | conversions | - |

Behaviour that is hard, and where it sits:

* *Three threads and a queue per window.* The compositor thread counts a frame, a
  backend thread announces it, the render thread handles it; each step takes the lock
  for itself, so tests made under one lock are used under another.
* *A handler that erases the queue it is iterating over.* `RemoveRenderer` is an event
  of the window it removes.
* *Blocking calls.* `Create`, `WaitFlushed` and `DestroyRenderer` block the compositor
  thread on an event that goes through the backend and the render thread.
* *Failure.* A lost device stops all rendering of the process until every session has
  been closed; nothing but the removal of the last renderer clears the flags.
* *Shutdown.* The main thread sets `mHasShutdown` while everyone else goes on.
* *Texture lifetime.* Textures are registered, used and dropped by different threads;
  GL resources may be released on the render thread only.
* *Frame ids.* Textures are recycled when a frame is known to be complete on the GPU.

## 2. Modules

| module | models | with |
|---|---|---|
| `RenderThread` | windows, notifier events, frames, errors, shutdown | `RendererEvents` (abstract), `RenderThreadInvariant`, proofs |
| `RenderTextures` | texture registry, deferred release, texture ops, buffers, wrappers | `RenderTexturesInvariant`, proofs |
| `PendingTransactions` | `WebRenderAPI` 473-653: transactions held back for remote textures | `TransactionOrder` (abstract), proofs |
| `RendererFrames` | one window's `UpdateAndRender` with `RendererOGL` and the render compositors: frame ids, waits, presents, epochs | proofs |
| `DCLayerTree`, `DCSurfaceVideo` | the DirectComposition tree; its video and handle surfaces | composed by `DirectComposition`, proofs |
| `WidgetBuffers`, `NativeLayers`, `SoftwareLayers`, `SoftwareGLLayers` | the compositors of the software renderer (and of macOS) | `MCPlatforms`, `PlatformsProofs` |
| `D3DTextureHosts`, `SurfaceTextureHosts`, `CachedTextureHosts` | texture hosts of Windows and Android, and those that upload | `MCPlatforms`, `PlatformsProofs` |
| `BlobImages`, `BlobFonts` | recordings of blob images, merged and rasterized; the fonts they name | `MCContent`, `ContentProofs` |
| `DisplayLists` | `DisplayListBuilder`: spaces, clip chains, the clip leaf, groups of items | `MCContent`, `ContentProofs` |
| `ProgramDiskCache` | shader programs on disk | `MCContent`, `ContentProofs` |

`RenderThread` keeps of a frame only its outcome; `RendererFrames` is what happens inside
the step between `StartRender` and `FinishRender`. `RenderTextures` keeps of a host only
who references it; the modules of the hosts are what its `Lock`, `Unlock` and operations
do. They are kept apart because they meet in few places, and composing them would
multiply their states: the outcome of a frame is a free choice in `RenderThread`, and
the texture operations of a host come in any order the registry allows.

Every safety invariant that a run checks has a theorem (section 5). What is left to do:
the components of section 6.

## 3. The models

### RenderThread

Threads are actions. Every critical section (a `DataMutex` scope), dispatch and channel
send of the code is one step or part of one; a function that takes the lock twice is two
steps (`wr_notifier_new_frame_ready`: `FrameBuilt`, then `NewFrameReady`).

| state | code |
|---|---|
| `mWindowInfos` and five functions | the map and the fields of `WindowInfo`; a window id is never used twice (`NewWindowId` counts), so the fields of a removed entry are reset |
| `mWrNotifierEventsQueues`, `events` | the queues only the render thread touches |
| `mThread` | runnables of the `nsIThread`, first in first out |
| `pc`, `cur`, `frame` | where `HandleWrNotifierEvents(cur)` stands and the `PendingFrameInfo` it copied |
| `comp`, `taskDone` | the compositor thread between two calls, or blocked on a `SynchronousTask` |
| `life`, `docHandle` | the `WebRenderAPI` of each window and whether `wr_window_new` gave a handle |
| `backend`, `busy`, `stopped` | the api channel of each window's render backend, the frame it has counted and not yet announced, and whether it has been stopped |
| `skipped`, `retries` | `WebRenderBridgeParent`'s skipped composite, and `RetrySkippedComposite` runnables on the compositor thread |
| `main` | `ShutDown`: flag set, task posted, thread joined |
| `sessionsLost` | the GPUProcessManager has been told to close all sessions |
| `issued`, `built` | history: frames asked for and built; they number the frames |

Actions are named for the functions they model. What is not under the repository's root
is modelled from how the code uses it and marked external: the compositor's decision to
composite, the backend thread, the event loops, the GPUProcessManager.

Abstractions, and what they rest on:

* A WakeUp or NewFrameReady event may or may not need a composite; both outcomes of
  `UpdateAndRender` notify the compositor alike, so the flag is left out.
* The backend takes the messages of one window in order. External events pass through
  the scene builder, so in the crate a later non-blocking message may overtake one;
  every message of the model that could be overtaken is followed by a wait.
* One `GenerateFrame` leads to one `NewFrameReady`.
* `SetFrameStartTime` stands for all external events nobody waits for.
* `SetClearColor` is the runnable that reaches the thread outside the event queues; one
  is under way per window (a bound).
* `Create` is not called once the main thread is in `ShutDown`, which the same thread
  drives. After the join nothing runs (`sRenderThread` is null).
* A device or a render may fail at any frame (`AllowErrors`), not outside of one.
* GPU resources, `ClearSingletonGL`, textures, statistics and logging are left out.

Bounds: `MaxFrames` composites accepted per window, `MaxQueue` in `MoreEvents` (wake-ups
and start times are sent only while the window's queues hold at most that many events).
Frames are limited to two in flight by the code itself, so three frames show one that is
skipped, retried and accepted after the first is done; two windows show every sharing of
the thread (a third is another copy of the second), and one window per run is enough
where the property speaks of one window and the others only delay it.

### RendererEvents

The promise to the senders of events: each window has an inbox, handled one by one in
order, nothing lost, closed by its RemoveRenderer event; an event somebody waits for is
answered when it is handled and not before. `RenderThread` implements it with `Inbox` =
the current batch followed by the pending events, the windows with an entry that are not
closed as the open inboxes (`OpenWindows`), and the completed task of a flush or
destruction as the answer (`EventsInOrder`). After `ShutDown`, `RemoveRenderer` leaves the
window's entry behind, but answers `DestroyRenderer` all the same, so the window counts
as closed (`Closed`). The step that swaps the pending events into an empty batch is a
stutter.

### RenderTextures

The registry of external images, which `RenderThread` keeps under
`mRenderTextureMapLock` beside the windows. A scope that holds the lock is one step. The
threads of `gfx/layers` that register, unregister and notify are not told apart, since
each call is one critical section; the one that blocks
(`DestroyExternalImagesSyncWait`) has its own state.

| state | code |
|---|---|
| `mRenderTextures`, `mSyncObjectNeededRenderTextures`, `mRenderTexturesDeferred` | the maps and the list, as sets of images: an image stands for its id and for the host registered under it (ids are not used twice) |
| `mRenderTextureOps`, `mRenderTextureOpsRunnable` | the operations added, and whether a runnable is queued for them |
| `renderTextureOps`, `nextOp` | the list `HandleRenderTextureOps` has swapped out, and how far it has got |
| `mTextureHost` | the host a `RenderTextureHostWrapper` found when it was made |
| `mDestroyed` | buffers whose `Destroy()` has run |
| `hosts`, `waiting`, `taskDone`, `freed` | `DestroyExternalImages`: the hosts looked up, the images waited for, the completed task, and the buffers whose owner has been told |
| `mThread`, `pc` | the runnables of the render thread and where the current one stands |
| `sentFrames`, `framesRunnable`, `frames` | frames on their way, whether a runnable is due for them, those being handled. A frame is the images it locks and the number of operations added before it was sent |
| `synced`, `locked` | of the frame being rendered: has it synchronised, what has it locked |
| `cached`, `stale` | hosts that hold GL resources, and those of a device that was lost |
| `used`, `issued`, `applied` | history: ids used, operations added and run |
| `dropped` | history: hosts an error destroyed in the middle of the frame |

`Held` and `Alive` say which hosts are referenced, the reference a wrapper holds
included; they take the place of reference counts. "Released" means leaving `Alive`.

Abstractions, and what they rest on:

* A wrapper is made and registered in one step, and wraps no wrapper: assumptions about
  `gfx/layers`, which makes them.
* The way of a frame from the backend to its handling is cut short to one queue and one
  runnable that takes what has come; `RenderThread` models it in full. A frame locks
  images that were registered when it was sent.
* Nobody unregisters an image while its destruction is waited for: the buffer is the
  waiting caller's (an assumption about `gfx/layers`).
* `UnregisterOnRenderThread` is the other branch of `UnregisterExternalImage`, taken when
  a runnable of another component calls it.
* `BeginFrame` is that of `RenderCompositorANGLE`, the only one that uses the sync object.
* A lost device is found where the code looks for it, in `BeginFrame` and after the frame
  is rendered. `HandleWebRenderError` comes from more places: `BeginFrame` and
  `wr_renderer_render` that fail end the frame (`RenderFails`); a compositor whose
  `BeginDraw` or tile fails reports it in the middle of the frame, whatever is locked, and
  the frame goes on (`CompositorFails`: `DCLayerTree.cpp:2139`,
  `RenderCompositorD3D11SWGL.cpp:404` and `442`); and one fails between frames, when it is
  made or resumed (`CompositorFailsWhenIdle`). `LastRendererRemoved` stands for the removal
  of all windows.
* Not modelled: `GetOrMergeUsageInfo`, and `UnregisterExternalImageDuringShutdown`, which
  erases from a map that `ShutDownTask` has already cleared.

Bounds: `MaxOps` operations in all, `MaxFrames` frames in flight at a time (`SendFrame`;
their number over time is not bounded). Two operations are needed for an order, two
frames for one that was sent before an operation and one after it; one wrapper and two
images for a wrapper that outlives the image it wraps.

### PendingTransactions and TransactionOrder

`WebRenderAPI` objects on the compositor thread, one of them the root. A transaction
stands for its `wr::Transaction*`, numbered in the order sent; 0 is the fresh one that
`Take()` leaves in the builder, so that an operation attached to a stale pointer shows.

| state | code |
|---|---|
| `mPendingRemoteTextureInfoList`, `mPendingAsyncImagePipelineOps` | what callers have asked for and not yet sent |
| `mPendingWrTransactionEvents` | the queue of `WrTransactionEvent` |
| `call` | the `HandleWrTransactionEvents` in progress and its `RemoteTextureWaitType` |
| `callbacks`, `ready`, `suppressed` | `RemoteTextureMap` (external): per texture whom it will wake, whether it is ready or no longer checked |
| `runnables` | per API, the callbacks dispatched to the compositor thread |
| `sent`, `applied` | what reached WebRender, and the operations applied to each |

Each event handled is a step, so that producers on other threads make textures ready in
between; the check and the registration of a callback are one step, because
`CheckRemoteTextureReady` holds the map's lock. `TransactionOrder` is the abstract
specification: a transaction is sent at once if nothing is held, or held and sent when
all its textures are settled, in order. `SentInOrder` says that the queue of events
implements it, `held` being the transactions in the queue. Bounds: `MaxTxns`, `MaxOps`,
`MaxFlushes`; three transactions, so that one can be held, one behind it and one after
the queue has run empty; two textures, so that a list of two can be half ready.

### RendererFrames

One window of each platform; a behaviour picks one. `framePc` goes from `idle` through
`render`, `endAll` or `endPart` (WebRender drew all of the window, or parts), `wait`
(`waitAll` after the native compositor was switched off) and `report` back to `idle`;
`noId` is the way of a frame that was not drawn.

| state | code |
|---|---|
| `mLatestRenderFrameId`, `mLastCompletedFrameId`, `mWaitForPresentQueries`, `mRecycledQuery` | `RenderCompositor`, `RenderCompositorANGLE` |
| `mSwapChain`, `mBufferSize`, `mFullRender`, `mUsePartialPresent`, `mDisablingNativeCompositor` | ANGLE's buffers; `whole`: every pixel of them has been drawn |
| `mEGLSurface`, `mHandlingNewSurfaceError`, `mReleaseFenceFd` | EGL |
| `mThisFrameDoneSync`, `mPreviousFrameDoneSync` | `RenderCompositorNativeOGL` |
| `sent`, `applied`, `flushed`, `mLastPipelineInfo` | display lists by epoch: on their way, used by WebRender, told by it, in the last `PipelineInfo` |
| `gpuDone`, `lost` | the GPU (external): frames whose commands have run, device removed |
| `updates`, `reported`, `released`, `handedOver` | `AsyncImagePipelineManager` (external), which releases images when the frame they were replaced in is completed |

The driver may fail a wait, a query, a resize, a present, a surface and a render at any
time. One outcome ends the process and the behaviour (`crashed`): a window whose native
compositor is switched off and whose swap chain cannot be made has no buffer to end that
frame with. Bounds: `MaxFrames` ids, `MaxEpochs` display lists. Three frames are
needed for triple buffering; two display lists for one that replaces another.

### DCLayerTree, DCSurfaceVideo, DirectComposition

`DCLayerTree` is the tree of a window: surfaces and tiles, the layers of this frame and
the last, the children of the root visual and what was committed (`shown`), what `Trim`
kept of a virtual surface (`kept`), the drawing between `Bind` and `Unbind`, the cache of
framebuffers by size and age, and `DisableNativeCompositor`. A `BeginDraw` that fails gives
WebRender framebuffer 0 and is reported, but stops neither this frame nor the next:
`RenderThread.cpp:627` and `RendererOGL.cpp:168` ask for `mHandlingDeviceReset` only.
`filled` and `refused` are history: the buffers that had a `BeginDraw`, and those whose
first one failed. `DCSurfaceVideo` is one
external surface: the wrapper that picks a video or a handle surface for its first image,
the video's swap chain with format, size, DRM and HDR, the video processor, and
`PresentVideo` in its parts, each of which may fail. `DirectComposition` puts a video
into the tree, where adding it presents it, its overlay counts for the slow commits, and
destroying its surface releases its chain.

WebRender's use of the tree is an assumption taken from the calls: a surface id is not
used again, a tile is drawn at most once in a frame, images are attached before layers
are added. What the code ends with a release assertion or a null pointer ends the
behaviour (`crashed`). Bounds: `MaxFrames`; `MaxAge` stands for the 60 frames a
framebuffer may be unused, `MaxSlowCommits` and `MaxSlowPresents` for the limits of 5, at
1 each. Textures of a video are given only a DRM flag; two sizes are enough for a chain
made anew.

### WidgetBuffers, NativeLayers, SoftwareLayers, SoftwareGLLayers

Four compositors, of which a window has one (`MCPlatforms`).

* `WidgetBuffers` is `RenderCompositorSWGL`: draw target, data surface, dirty region,
  SWGL's default framebuffer and the region the widget handed out. A region is a set of
  parts of the window, which may resize at any time.
* `NativeLayers` is `RenderCompositorNative` with its GL and SWGL forms: layers of
  surfaces and tiles, the one layer for an entire window, which is bound and mapped,
  what the root shows, and the count of tiles. `MaxLayers` bounds the layers made.
* `SoftwareLayers` is `RenderCompositorLayersSWGL` with its Direct3D form: the surfaces
  of a frame, the staging texture of a tile, a temporary one, the pool, and the upload
  mode. A tile has two parts; `stale` names those whose texture is behind what was
  drawn. `MaxTextures` bounds the staging textures alive.
* `SoftwareGLLayers` is `RenderCompositorOGLSWGL` on Android: the EGL surface, full
  renders, errors, and the way a tile's pixels reach its texture.

### D3DTextureHosts, SurfaceTextureHosts, CachedTextureHosts

Each behaviour of `MCPlatforms` that is about hosts is that of one texture.

* `D3DTextureHosts` is one DXGI or YCbCr host: textures opened on a device, keyed
  mutexes, GL textures, and the planes mapped for SWGL one by one, each readback under
  the mutexes. Four failures leave the host in a state the code does not recover from:
  a mutex that times out after others of the same host were acquired; a GL context that
  cannot be made current, so that handles are kept; a staging texture that cannot be
  made while the mutex is held; a `Map` that fails and leaves the staging texture, which
  the DXGI host then takes for mapped. `d3dTrouble` records them; `D3DConsistent` is
  stated until the first one, and the hazard in `PROJECT.json` says so.
* `SurfaceTextureHosts` is the protocol of an Android `SurfaceTexture`: `PrepareForUse`,
  `NotifyForUse`, `Lock` and `NotifyNotUsed`, with errors that refuse the attachment.
* `CachedTextureHosts` is what three hosts share that keep a texture while its memory is
  written again: `AHardwareBuffer` with its fence, an EGL image with its sync object,
  external textures with their upload. Where a sync object cannot be made or waited for,
  the code forgets it (`cacheTrouble`), and nothing is claimed from there on. The texture
  source of an `AHardwareBuffer` (`RenderAndroidHardwareBufferTextureHost.cpp:249`) waits
  for nothing: it takes the buffer with the fence on it, and drawing it is not this code's.

### BlobImages, BlobFonts

* `BlobImages` is one key of `Moz2dBlobImageHandler` and a rasterizer made from it. A
  recording is what the code reads: a stream of data and an index with the end of each
  item's commands and of its fonts; bytes are single tokens, and the footer with the
  offset of the index is left out. Rectangles are sets of pixels of a plane with one
  dimension, which is all that `contains_box` and the intersections tell apart here. The
  partial recording (`Partial`) and what holds of the old and the new list (`Promised`)
  are what the comment of `merge_blob_images` says of `gfx/layers`; the model takes every
  pair of lists that keeps the promise. An item that the merge cannot find is a panic. The
  reader's cache is the set of the entries that wait in it: its keys are bounds and the
  order of insertion, which is the order of the list, and the first of some bounds is taken.
* `BlobFonts` is the two tables of `Moz2DImageRenderer.cpp` and the log of deletions, with
  `prepare_request` at work on the thread of the handlers (one critical section a step),
  rasterizers that make fonts, and `ClearAllBlobImageResources` of the render thread in
  between. `fontReady` and `fontDeletions` are history. That handlers take turns is how
  the crate calls them: on the thread that sends transactions to WebRender.

### DisplayLists

The members of `DisplayListBuilder` (`dl`), the list that WebRender gets (`wr`), its copies
of the groups and the slots of the `DisplayItemCache`. An item of the client is a record of
its scroll view, clip, leaf and operations; `listNext` is the operation that comes next,
then `FinishGroup`, then `EndItem`, where the client takes its leaf off. `Asking` says what
an item has asked for before each operation, without any ids: the regions of the scopes
that are open, the scope of the first shadow, and what is to be shown. `listAsked`, which
is history, gathers what the items of the list asked for. The client closes scopes and
shadows in the reverse order (`WellNested`): scopes are objects of C++, and
`TextDrawTarget` pushes and pops the shadows of one text. All pushes are one action: they
differ in what they forward. `CancelGroup` keeps what was pushed since `StartGroup` and gives
up the slot only, because `aDiscard` is false at all four calls (`WebRenderAPI.cpp:1235`,
`1261`, `1272`, `1287`). The comment at `WebRenderAPI.h:797` says that it "discards all the
display items pushed between the |StartGroup()| and |CancelGroup()| calls"; the code does
that only with an argument nobody passes, and the items of a client that defines a clip
would vanish if it did. `ListsConsistent` asks for what the code does here, so it passes
against that comment. The ids of clips are positions in the list, so an id of an
earlier list means something else or nothing. Up to `MaxShown` items are shown in each of
`MaxLists` lists.

### ProgramDiskCache

One file for each digest, the list of startup shaders, the workers' tasks, and runs of the
program that end at any moment. A file is a sequence of parts; a writer goes on at its own
position whoever has emptied or extended the file meanwhile. The hash is taken to tell any
two contents apart. A removed directory comes back with the next run only. Digests are two,
one of them with two binaries that share a part.

## 4. Runs

Nine runs pass; the states are those TLC finds distinct.

| run | instance | states | shows |
|---|---|---|---|
| `frames` | 1 window, 3 frames, 1 more event, errors, `ShutDown` at any time, fair | 422 832 | `IInv`, the invariant of the proofs; the frame handled is the front of `mPendingFrames` and no counter underflows (`FramesAccounted`); at most 2 pending and 1 in construction (`PendingFramesBounded`); a window with events has a runnable or a handler (`NoLostWakeup`); `WaitFlushed` returns with all frames handled (`FlushedMeansHandled`); no renderer is made without thread pools (`PoolOutlivesNewRenderers`); while nothing is shut down, every synchronous call returns (`CallsReturn`) and every skipped composite is made (`SkippedCompositesAreMade`) |
| `windows` | 2 windows, 1 frame each, errors, fair | 54 308 | nothing is used after `RemoveRenderer` or `DestroyRenderer` (`QueueOutlivesHandler`, `NoRenderAfterDestroy`); the queues refine `RendererEvents` (`EventsInOrder`); the thread gets over resets and errors (`ThreadRecovers`) |
| `textures_frames` | 2 images, one with a sync object, 2 operations, 2 frames | 1.73 million | operations run once, in order (`OpsRunInOrder`), and before the frame that needs them locks (`OpsRunBeforeLock`); a frame that locks a host in need of it has synchronised (`SyncedBeforeLock`) |
| `textures_lifetime` | a buffer's image and a wrapper of it, errors, `ShutDown` at any time, fair | 626 671 | who releases a host, when and on which thread (`LockedHostsAreAlive`, `ReleasedOnRenderThread`, `UnregisteredAreReleased`, `NothingLeftAtExit`); nothing freed or of a lost device is used (`FreedBuffersAreNotRead`, `LockedHostsAreNotStale`); `OpsAreRun`, `DestroyReturns` |
| `pending` | 2 APIs, 3 transactions, 2 textures, 1 flush, fair | 261 812 | refinement of `TransactionOrder` (`SentInOrder`); operations reach their own transaction (`OpsReachTheirTransaction`); a held queue has what wakes it (`HeldIsWokenUp`) and is sent in the end (`HeldAreSent`) |
| `dcomp` | 2 surfaces of tiles, or one and a video, 3 frames | 2 275 786 | the screen shows the layers, trimmed surfaces keep what is valid, the first draw of a buffer is a full one unless an earlier one failed, no framebuffer is lost, and frames go on when a `BeginDraw` fails (`TreeConsistent`); a video shows its texture, in a chain that fits it, and closes its handles (`VideoConsistent`) |
| `renderer_frames` | 5 platforms, 3 frame ids, 2 display lists, 2 sizes | 4 303 245 | images given back are read by no command still to run (`ReleasedAreNotRead`); a window presented in parts has been drawn whole (`PresentedIsWhole`); queries, fences, syncs, surface errors and epochs are handed over once (`RendererConsistent`) |
| `platforms` | the four compositors, 1 to 3 sizes, up to 3 layers or textures; the hosts of three platforms, 2 devices, 2 writes | 1 220 292 | buffers, layers, tiles and uploads agree with the frames, whatever resizes, fails or is busy (`WidgetConsistent`, `NativeConsistent`, `SoftwareLayersConsistent`); mutexes and planes are given back and what is read is current (`D3DConsistent`); each video frame is latched once and in turn, and a cached texture is used only after its fence or upload (`GLHostsConsistent`) |
| `content` | lists of up to 3 of 4 items, 3 dirty and 2 visible rectangles; 3 fonts, 3 instances, a log of 2 and 3 deletions; 3 display lists of 2 of 5 items; 3 binaries, 2 saves in each of 2 runs | 863 572 | a recording merged any number of times is that of the last list, no thread panics, a rasterizer draws the list it was made for, its fonts are found, font data is held once and the log explains what is missing (`BlobImagesConsistent`); a display list shows what its items ask for, pushed or reused (`ListsConsistent`); what is loaded was saved whole by this version, and once (`ProgramsConsistent`) |

Three runs expect a violation, each of a sentence in the code:

* `first_draw` (`FirstDrawIsFull`): the comment at `DCLayerTree.cpp:725` says that
  DirectComposition requires the first `BeginDraw` of a tile's own surface to be the full
  size. `mNeedsFullDraw` is cleared before the call (732) and stays so when it fails; no
  frame is held back after the error, and the next one draws the tile in part.
* `video_fallback` (`FallsBackToRgb`): when a YUV swap chain cannot be made, the comment
  at `DCLayerTree.cpp:1488` says that an RGB one is tried. The format is not computed
  again, so the one that failed is tried twice; RGB comes with the next frame.
* `surface_release` (`ReleasedAreAttached`): `RenderAndroidSurfaceTextureHost.cpp:184`
  asserts that the host is attached when its buffer is released. `PrepareForUse` ignores
  that attaching was refused, and `NotifyNotUsed` then makes a null context current.

Several properties are conjunctions of named parts, one for each thing that must stay in
step; each part is stated, with a comment, in its module, and `mutants` has a mutation of
the code for most of them. Deadlock is not checked: the systems rest when nobody asks for
anything, or when a bound is used up. No run uses symmetry.

Fairness (`FairSpec`): each thread goes on while it can. Weak fairness for the render
thread and each backend, which are never disabled by others once they have work; for the
compositor between counting and sending a frame and for the return of a wait. Strong
fairness for runnables on the compositor thread (`RetrySkippedComposite`), because that
thread is also blocked by waits in between: its queue is first in first out, so a queued
runnable has its turn. When a device is lost, the GPUProcessManager closes all sessions
(`DestroyRenderer`, strong, only while `sessionsLost`) and reports when it is done
(`SessionsRebuilt`). That is what `HandleDeviceReset`'s comment says of it
(`RenderThread.cpp:1340`). No composite, flush, creation or wake-up is ever forced.
`CallsReturn` and `SkippedCompositesAreMade` are stated of behaviours in which the thread is
never shut down (`NeverShutDown`); `windows` has no `ShutDown`.

In `RenderTextures` the render thread runs what is queued and goes on with what it has
begun (weak fairness of `RenderThreadStep`; `LastRendererRemoved` and
`UnregisterOnRenderThread`, which others ask for, are never forced), and a thread whose
task is done goes on (weak fairness of `DestroyExternalImagesReturns`). `DestroyReturns`
holds through shutdown, because the runnables queued before the join are still run.

In `PendingTransactions` a handler that runs goes on (weak), a runnable dispatched to the
compositor thread has its turn although other calls come first (strong, as that queue is
first in first out), and each texture is delivered in the end (weak), without which a
transaction waits for ever, as it does in the code. The other modules state safety only.

## 5. Proofs

`RenderThreadInvariant` defines the inductive invariant, and `RenderThreadProofs`
proves, for every set of windows and all bounds, from the two assumptions `WindowsAssumption` and `BoundsAssumption`:

* `Invariant`: `Spec => []IInv`
* `TypeCorrect`: `Spec => []TypeOK`
* `FramesAreAccounted`: `Spec => []FramesAccounted`
* `PendingFramesAreBounded`: `Spec => []PendingFramesBounded`

`FramesAccounted` is not inductive: that the event at the front of the queue belongs to
the front of `mPendingFrames` depends on everything still on its way. `IInv` numbers the
frames: `mPendingFrames` is exactly `Done+1 .. issued` (`Counts`); those not yet built
are still messages or in the backend's hands, at most one (`InBackend`); those announced
lie in strictly ascending order in the current batch and then in the pending events
(`InOrder`); and until shutdown none in between is missing (`NoneMissing`), so the first
frame in the batch must be `Done+1` (lemma `OldestFirst`). `Accepted` carries the answer
of `TooManyPendingFrames` over to `IncPendingFrameCount`: only the compositor thread adds
frames, and it is in between. `AddedOnce` says that a window's entry is made once and its
fields are clean when it is. `TypeOK` is not inductive either, since `Tail` of an empty
queue has no type: the step lemma `StepTypeOK` uses `Handling` from `IInv`. Each of the
four parts has its own step lemma, with one step per action.

`RenderThreadQueueProofs` builds on `IInv`, from the same assumptions:

* `WakeupsAreNotLost`: `Spec => []NoLostWakeup`
* `PoolsOutliveRenderers`: `Spec => []PoolOutlivesNewRenderers`
* `QueuesOutliveHandlers`: `Spec => []QueueOutlivesHandler`
* `NoneRenderedAfterDestroy`: `Spec => []NoRenderAfterDestroy`
* `FlushesAreWhole`: `Spec => []FlushedMeansHandled`
* `EventsStayInOrder`: `Spec => RendererEvents!Spec`, the refinement without its fairness

A handler takes the window's list and clears the flag of the runnable in two steps of one
lock, and others post in between handlers; `Awake` says that a set flag has its handler
queued, that events in the list have a flag set or a handler at work, and that a window
without an entry has neither. `PoolsGoLast` places `ShutDownTask`: it is posted after the
flag that stops new windows, hence behind every `NewRenderer`. That no handler outlives the
queue takes a whole protocol (`LastEvent`): `DestroyRenderer` sends the removal once,
behind `Stop`; from then on the backend says nothing of the window, so the removal stays
the last of its events in every list it passes through. With it, and since a handler at
work has another one queued only for events that came later (`FlagMeansPending`,
`HandlerOnce`), none is queued when the removal is handled.

The last two say what a caller may rely on when its `SynchronousTask` is complete. A task is
completed by an event or runnable of its kind, and one of that kind is on its way only
while that very call waits (`AnswersTheCall`). A `WaitFlushed` on its way has no frame of its
window behind it, in the message queue, the pending events or the batch (`LastFlush`), and a
frame that is not built yet is still asked for (`StillAsked`), so by the counts of `IInv`
there is none left when the event is handled (lemma `FlushedIsEmpty`). A window is `Closed` when
its removal was handled or its creation failed; but for one left by `ShutDown` it has no
entry then and gets none again (`AnswerMeans`). A handler renders only what has its entry (`RendersWhatIsThere`), and the
removal is run by the handler itself, so it does not come between test and render.

For the refinement, each group of actions has a lemma that names its step of
`RendererEvents` or says that it stutters (`StartMaps` to `CloseMaps`). What the steps rest
on and the invariants above do not say is `EInv`: an entry goes with its events, so nothing
is lost when it is erased (`ListedForEvents`); the backend of a closed window has nothing to
say any more, so whatever is posted goes to an open window (`ClosedIsSilent`, from
`HasBackend`); what is rendered was asked for by a frame or a wake-up, so no answer is due
when it is popped (`HandlesFrame`); and only frames carry a number, within the bound
(`PlainQueues`, `FewFrames`). By `LastEvent` nothing is posted behind the removal, and when
it is run it is all that the inbox holds.

`RenderTexturesInvariant` and `RenderTexturesProofs` do the same for the texture
registry, from `ImagesAssumption` and `BoundsAssumption`, for any images, wrappers and
buffers:

* `TypeCorrect`: `Spec => []TypeOK`, and `Invariant`: `Spec => []Inv`
* `LockedHostsStayAlive`: `Spec => []LockedHostsAreAlive`, up to an error in mid-frame
* `FreedBuffersStayUnread`: `Spec => []FreedBuffersAreNotRead`
* `HostsReleasedOnRenderThread`: `Spec => ReleasedOnRenderThread`
* `OpsInvariant`: `Spec => []OpsInv`, and from it
* `OperationsRunInOrder`: `Spec => []OpsRunInOrder`
* `OperationsRunBeforeLock`: `Spec => []OpsRunBeforeLock`
* `LockedHostsStayFresh`: `Spec => []LockedHostsAreNotStale`
* `NothingIsLeftAtExit`: `Spec => []NothingLeftAtExit`
* `LocksAreSynced`: `Spec => SyncedBeforeLock`

`Inv` has five parts. What a frame has locked is referenced by `mRenderTextures` or
`mRenderTexturesDeferred`, or `dropped` (`LockedIsReferenced`); it is the second that makes
the plain pointer safe, as long as nothing clears it while a frame has something locked. One
thing does: the first WebRender error, when a compositor reports it in the middle of the
frame (`CompositorFails`). So `locked \subseteq Alive` is false of the code, and what holds is
`LockedHostsAreAlive`, in which `dropped` has the hosts that this error destroyed, those that
were unregistered before and waited for their release. No source states the stronger
sentence, so there is no run against it; TLC finds it violated in ten states: another
thread unregisters a host that the frame has locked, and a `BeginDraw` fails. The same error
makes the hosts that are still registered drop their GL resources, locked or not
(`ClearCachedResources`). The wrappers
among the locked hosts need `HeldWasRegistered`: registering writes `mTextureHost` of a
new id only, so no referenced wrapper loses its host. A buffer that is freed has either
been destroyed, or `ShutDown` has come and no frame will be rendered any more
(`DestroyedOrNoMoreFrames`); that in turn rests on a single destruction being on its way
from the queue to the task (`OneDestruction`), and on the map being whole until
`ShutDownTask`, which is queued after the flag is set (`ShutDownTaskOnlyOnceShut`).

`OpsInv`, the second invariant, is about what the frames find and what is left. What was
added is what was run, the rest of the list in hand and the list to come, in this order
(`OpsRunInOrder`, inductive together with `OpsListInUse`); so when `HandleFrameOneDoc` has
taken the list, the frame's operations are run or in hand, and after the list they are run
(`FramesFollowOps`). A frame locks ids that were registered when it was sent, so one
registered after `BeginFrame` decided whether to synchronise is none of them
(`FramesAreSynced`). The hosts that have resources of a lost device are not registered
(`NoneIsStale`): those that were have been told, also those behind wrappers, and a wrapper
made later finds only what is registered. `ShutDownTask` is queued once
(`OneShutDownTask`), and behind it nothing can be put into the emptied maps, operations
included, since they are added for what is registered only (`EmptiedAtExit`, lemma
`EmptyStays`). TLC finds `OpsInv` true on both instances.

`PendingTransactionsProofs`, for any APIs, textures and bounds, from `RootAssumption` and
`BoundsAssumption`:

* `Invariant`: `Spec => []IInv`, and `TypeCorrect`: `Spec => []TypeOK`
* `HeldStayWokenUp`: `Spec => []HeldIsWokenUp`
* `OpsStayWithTheirTransaction`: `Spec => []OpsReachTheirTransaction`
* `SentInGivenOrder`: `Spec => []SentAscend`
* `SendsInOrder`: `Spec => SentInOrder`, the refinement of `TransactionOrder`

`HeldIsWokenUp` says nothing of the queue whose handler runs; `OthersWokenUp` is the
part that a step of one API's handler must not disturb for the others. That operations reach
their own transaction is not inductive, since the code keeps a raw pointer to it in the
queue: `OpsInv` says that a transaction is held in one place and unsent (`HeldOnce`,
`HeldIsUnsent`), that operations lie right in front of their transaction and are complete
(`OpsBeforeTxn`), and that a transaction without them has had them applied
(`AppliedOrAhead`), so it cannot be sent early. For the order, what is held ascends and
lies behind what was sent (`HeldAscend`, `SentBeforeHeld`): a transaction that need not
wait goes around the queue only when it is empty.

The refinement map keeps of a queue its transactions, `TxnsOf`, a recursive function on
the queue's length; what it makes of an event put at the end (`TxnsOfHold`) or taken from
the front (`TxnsOfTail`) is proved by induction, which here is a least counterexample
(lemma `Induct`). Events of other kinds change nothing of it. Then `SendTransaction` is
`Hold` or, past an empty queue, `SendNow`; a texture that gets ready or is given up is
`Settle`; and the handler that reaches a transaction is `SendHeld`, which asks that its
textures are settled. The handler does not look at them again: it comes to the transaction
because nothing is in front of it any more. So `TexturesInv` says that each texture a held
transaction asked for is settled or in an event in front of it, which an early return from
the handler, in the middle of the list of textures, must keep. TLC finds it true in the
261 812 states of `pending`.

`RendererFramesProofs`, for any platforms, sizes and bounds, from `FramesAssumption`:

* `Invariant`: `Spec => []IInv`
* `ReleasedStayUnread`: `Spec => []ReleasedAreNotRead`
* `PresentedStaysWhole`: `Spec => []PresentedIsWhole`
* `RendererStaysConsistent`: `Spec => []RendererConsistent`

Between the frame that reads an image last and the hand-back lie WebRender's epochs, the
pipeline info and the manager's list of updates. `EpochsInOrder` says that a display list
is used, told and given back in this order; `ReadsAreOld` that a frame reads the list in
use only, and has got an id before the next update is reported, also if it was skipped or
failed; so no frame after the one reported with a removal reads what was removed
(`UpdatesCoverReads`), and the id that a query completes covers them all
(`CompletedIsDone`). Queries that could not be made or were given up only make that id
older. `WholeOrFull` says of a window presented in parts that each pixel was drawn, or a
full frame is asked for, or comes by itself: the first one, or one into new buffers.

The five parts of `RendererConsistent` hold of the platforms together, each with an
invariant of its own. A query is known by the number of the frame it was made for, and
making one never repeats a number (`QueriesInv`): so the one kept for reuse is none of
those waited for, although a frame may have none and the wait may be given up. A release
fence is that of the frame at its end and is handed over in the next step (`FencesInv`).
On Android the flag that remembers a first failure stands for the count of failures
(`SurfacesInv`). On macOS the sync objects are those of the two frames drawn last,
which differs from what they are in the middle of `EndFrame` (`DrawnInv`). Each display list
that was taken into use is reported or in the pipeline info that will be
(`ReportedInv`): frames that are skipped or fail flush and report it as well.

`DirectCompositionProofs`, for any surfaces, tiles, sizes, rectangles and textures, from
`TreeAssumption`, `VideoAssumption` and `CompositionAssumption`:

* `TreeCorrect`: `Spec => []TreeConsistent`
* `VideoCorrect`: `Spec => []VideoConsistent`

The invariant is `DCInv`, a `TreeInv` of the tree and a `VideoInv` of the surface that the
two share by its id; TLC finds it true in the states of `dcomp`. Of the tree,
that the screen shows the layers of the last frame is not inductive, since surfaces are
destroyed while they are shown: the root is `mPrevLayers` as long as all of those are
alive, and `CompositorEndFrame` rebuilds it when the list differs, which it must if one
is gone, since layers are added of living surfaces only (`LayersInv`). A surface whose
allocated rectangle is not dirty was trimmed to its tiles as they are now, and
shown surfaces are not dirty (`TrimInv`): each change of a tile's rectangle makes it dirty
and each frame trims what it shows. A tile that was never drawn is still marked for a full
drawing, or its first `BeginDraw` has failed (`DrawInv`). The cache of framebuffers has one of each size, with distinct numbers,
and GL's are these (`FbosInv`); a number for a new one is left because there are as many as sizes
(lemma `NewFboIsNew`, from cardinalities). Of the video, `VideoConsistent` is inductive with
the types and the formats that `CreateVideoSwapChain` tries in turn (lemma `FormatsFacts`).

`PlatformsProofs`, for any sizes, surfaces, tiles, textures and devices, from
the assumptions of the modules that `MCPlatforms` puts together:

* `WidgetsCorrect`: `Spec => []WidgetConsistent`
* `NativeLayersCorrect`: `Spec => []NativeConsistent`
* `SoftwareLayersCorrect`: `Spec => []SoftwareLayersConsistent`
* `D3DHostsCorrect`: `Spec => []D3DConsistent`
* `GLHostsCorrect`: `Spec => []GLHostsConsistent`

The components share no state: `PlatformsInv` is the conjunction of their seven
invariants, and a step of one stutters for the others. What each adds to its property:

* Widget buffers (`WidgetInv`): the draw target, what is mapped, what SWGL draws to and the
  region exist together, in each phase of a frame, and none outlives it.
* Native layers (`NativeInv`): each live tile has a layer of its own, older than the
  counter of layers and never discarded (`LayersAreOwn`), and what was added to a frame is
  live until it is composited (`AddedAreLive`). That the count of tiles is the number of
  live ones needs cardinalities: destroying a surface takes as many as its map had.
* Software layers (`LayersInv`): the tile that is mapped is valid where it is not about to
  be drawn (`MappedTileIsBacked`), every other one where it says so (`TilesAreBacked`); a
  staging texture is in one place, a pool of one surface, a tile, or in use
  (`PoolsAreFree`), where a temporary one is no tile's.
* Layers drawn with GL (`GLInv`): a new EGL surface keeps its request for a full render
  until one was made.
* Direct3D (`D3DInv`): textures and mutexes are of the device of the context
  (`HandlesAreWhole`), mutexes are owned all together by a locked frame
  (`MutexesGoWithTheLock`), planes are mapped in turn and at most as old as the lock
  (`PlanesAreMappedInTurn`). These hold until one of the four failures that the hosts do not
  recover from, which `d3dTrouble` records.
* SurfaceTextures (`SurfaceInv`): the status of a host and the number of updates of this use
  go together, through the lazy attaching (lemmas `AttachedFollows`, `LatchFollows`).
* Kept textures (`CacheInv`): what is still to be read has a fence, a sync object or a
  pending upload, each in its kind of host.

`ContentProofs` proves what `MCContent` checks of its four parts, from `BlobsAssumption`,
`FontsAssumption`, `ListsAssumption` and `ProgramsAssumption`:

* `BlobImagesAreConsistent`: `Spec => []BlobImagesConsistent`, for any items, rectangles,
  fonts and length of the log
* `ListsAreConsistent`: `Spec => []ListsConsistent`, for any items of the client, with any
  number of operations that are well nested, any lists, views and rectangles
* `ProgramsAreConsistent`: `Spec => []ProgramsConsistent`, for any programs, runs and saves

The parts share no state: `ContentInv` is the conjunction of their invariants.

* Recordings (`BlobInv`): the handler's recording is `Whole`: its entries are those of the
  display list, in order, each with its item's words behind the end of the one before
  (`PartOf`, `Holds`). That a merge keeps this (`MergeIsWhole`) is an induction over the
  entries of the partial recording. After n of them (`MergedOf`) the result is whole as far
  as the first n items, and each entry of the old list whose item is clean is either taken
  by one of them, or unread, or waits in the cache (`Waits`). Since clean items of equal
  bounds overlap, the promise of `gfx/layers` makes the first of them that is left the next
  item's (`NextIsFirst`), and since what is clean is never passed over for good, the reader
  finds just that entry (`NextEntryIs`): so nothing panics. What a rasterizer replays
  follows from its copy being whole (`WholeContent`, `WholeReplay`).
* Fonts (`FontInv`): what a request has asked for is in the table unless it was cleared
  (`RequestOK`), and the log is a ring: the entry n steps back is the n-th last deletion as
  long as there were that many (`RingOf`), from which the entry that `Find` meets first is
  the last reason for a font (`RingExplains`).
* Display lists (`ListInv`): between items the builder is at rest (`AtRest`), and what the
  list shows is `listAsked`. Within an item (`Underway`) the builder and the list keep up
  with `SoFar`, what the item has asked for until then. Spaces and the builder's map of
  views are each other's inverse (`SpacesKnown`, hence one space for a view); the current
  place, the saved places of the open scopes and the one suspended with the leaf have the
  view and the regions that were asked for (`IsPlace`, `ScopesAreHeld`, `LeafIsHeld`); what
  has been pushed shows what was asked for, in the list or in the group (`HasPushed`).
  Defining a clip adds a chain and flushes the group, after which every earlier id means
  what it did (`DefineFlushes`, `GrownItems`). So an item that still has its group has
  defined no clip, and all of its group has the space and chain of the item: what such a
  group shows depends on the view and region of that one place only (`Keeps`, `ShownAt`).
  An item is reused only when its place has the same ids, which in this list have its view
  and clip because it was prepared there (`PreparedIsReady`); so the group shows what the
  item asks for, though ids mean something else in each list (`ReusedIsUnderway`). Without
  the cancelling in `DefineClipChain` that step fails. Each operation has a lemma of its own
  (`OpPush` to `OpUnclip`).
* Programs (`ProgramInv`): the second part of a file, where the hash goes, is a gap or the
  hash of a program of the file's name, since whoever writes to a file has a program of that
  name (`IsFile`, `WritersOK`). A file that passes the test then has the data of that
  program, whichever writers its parts came from; the version is tested by itself. Once
  tried, a name is not among those that may be loaded (`LoadsOK`).

The library's induction theorems cannot be used here, as they take a predicate; `Induct` is
the same for a set of numbers, from the least element of a set (`MinIsLeast`), and
`RecordedExists`, `MergedExists` and `AskingExists` show with it that the recursive
functions of `Partial`, `merge_blob_images` and `Asking` exist.

Left to TLC: liveness (`CallsReturn`, `SkippedCompositesAreMade`, `ThreadRecovers`,
`UnregisteredAreReleased`, `OpsAreRun`, `DestroyReturns`, `HeldAreSent` and the fairness
part of `EventsInOrder`), which the prover cannot treat.

## 6. Not modelled

* Of display list building: the tracker of fixed position scroll targets, the inherited
  clip chain and opacity, stacking contexts, `Save` and `Restore`, `CancelGroup(true)`, which
  nothing calls, and the text context, which are used in bracketed pairs by layout code outside the
  repository.
* Of blob images: what Moz2D draws, the buffers of tiles, which thread pool is used, and the
  lengths that the readers assert.
* DMABUF, IOSurface, shared-surface and Dcomp texture hosts, which lock a platform image
  and release it; `mAcquireFence`; `mContinuousUpdate`, which only the constructor's caller chooses.
* Screenshots, recording and readback of frames, the profiler, memory reports, battery
  state, telemetry and logging, which read; the choice and creation of GL contexts.
* `GetOrMergeUsageInfo` of the registry, `UnregisterExternalImageDuringShutdown`, which
  erases from a map that `ShutDownTask` has cleared; `SimulateDeviceReset`, for tests.
* Drawing itself (GL, Direct3D, SWGL rasterisation), which has no protocol of its own at
  this level, and the C API's forwarding of arguments.
* The order in which `gfx/layers` and the GPU process shut down before
  `RenderThread::ShutDown` is called.

Code that the survey found doubtful and no property states, beside the hazards of
`PROJECT.json` that carry a note:

* `RenderCompositor::GetLastCompletedFrameId` (`RenderCompositor.h:63`) returns the frame
  before the latest, on platforms without queries: that the GPU has run it is taken on
  trust, so `ReleasedAreNotRead` is stated for Windows.
* `RenderCompositorEGL::EndFrame` (135) returns a new frame id without a swap when the
  widget is hidden.
* `~DCLayerTree` after `DisableNativeCompositor` deletes framebuffers a second time
  (`DCLayerTree.cpp` 280-290).
* After a first `Present` that fails the chain of a video stays blank although
  `mPrevTexture` is set (`DCLayerTree.cpp:1550`).
* A Direct3D tile in the immediate upload mode has neither a staging texture nor a
  surface when the latter cannot be made, and is mapped all the same
  (`RenderCompositorD3D11SWGL.cpp:218`).
* `RequestFullRender` (`RenderCompositorSWGL.cpp:274`) and `mFullRender`
  (`RenderCompositorOGLSWGL.cpp:180`) are cleared before, or although not, the frame is
  composited.
* `RenderDXGITextureHost` opened without a handle keeps its texture in
  `ClearCachedResources` (`RenderD3D11TextureHost.cpp:433`).
