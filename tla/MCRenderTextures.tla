-------------------------- MODULE MCRenderTextures --------------------------
(* RenderTextures on small instances, with the invariant of the proofs.     *)
EXTENDS RenderTexturesInvariant
=============================================================================
