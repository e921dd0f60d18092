------------------------------ MODULE MCBlockCursor ------------------------------
(***************************************************************************)
(* Values for BlockCursor.                                                 *)
(***************************************************************************)
EXTENDS BlockCursor

MCDeployment == <<1, 3>>
=============================================================================
