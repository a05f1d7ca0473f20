------------------------- MODULE MCPropertyExchange -------------------------
(* PropertyExchange on small grids of blocks *)
EXTENDS PropertyExchange, MCGrid

(* Particles are smaller than the subdomains. *)
ASSUME SmallerThanBlocks == SmallParticles

(* A step does not take a particle beyond the neighbours of its process. *)
ASSUME ShortSteps == StepsToNeighbors
=============================================================================
