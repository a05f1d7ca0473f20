-------------------------- MODULE MCGhostOwnerSync --------------------------
(* GhostOwnerSync on small grids of blocks *)
EXTENDS GhostOwnerSync, MCGrid

(* Every process sees a particle of the domain at the same place. *)
ASSUME SamePlaces == ImagesAgree

(* The sphere has met a neighbour before its centre gets there. *)
ASSUME GhostBeforeOwner == StepsSeen
=============================================================================
