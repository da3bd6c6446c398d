---------------------------- MODULE MCPbzip2Two ----------------------------
(***************************************************************************)
(* Two files for pbzip2, the second one with fewer blocks.                 *)
(***************************************************************************)
EXTENDS Pbzip2

TwoOne == <<2, 1>>

============================================================================
