--------------------------- MODULE MCRenderThread ---------------------------
(* RenderThread on small instances, with the invariant of the proofs.       *)
EXTENDS RenderThreadInvariant
=============================================================================
