---------------------------- MODULE MCPNGeodesic ----------------------------
(* Small galaxies for PNGeodesic. *)
EXTENDS PNGeodesic, TLC

CONSTANTS a, b, g1, g2

\* Two stars in a loop, the geodesic back with initial particles.
LoopSrc == (g1 :> a) @@ (g2 :> b)
LoopDst == (g1 :> b) @@ (g2 :> a)
LoopInit == (g1 :> 0) @@ (g2 :> 1)
=============================================================================
