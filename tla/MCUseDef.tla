------------------------------ MODULE MCUseDef ------------------------------
(***************************************************************************)
(* An instance of UseDef for TLC: an alloca, a load, a phi, a store, a     *)
(* constant and a basic block.  The phi takes two incoming pairs           *)
(* (MaxOps = 4).                                                           *)
(***************************************************************************)
EXTENDS UseDef

CONSTANTS alloca1, load1, phi1, store1, c1, bb1

MCInstr == {alloca1, load1, phi1, store1}
MCPhi == {phi1}
MCVoid == {store1}
MCAlloca == {alloca1}
MCLeaf == {c1, bb1}
MCBlock == {bb1}
=============================================================================
