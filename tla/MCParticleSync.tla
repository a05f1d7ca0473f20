--------------------------- MODULE MCParticleSync ---------------------------
(* ParticleSync on small grids of blocks *)
EXTENDS ParticleSync, MCGrid

(* Particles are smaller than the subdomains. *)
ASSUME SmallerThanBlocks == SmallParticles

(* Steps are shorter than the subdomains. *)
ASSUME ShortSteps == SmallSteps
=============================================================================
