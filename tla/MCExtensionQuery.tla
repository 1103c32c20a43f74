--------------------------- MODULE MCExtensionQuery ---------------------------
(***************************************************************************)
(* Instances of ExtensionQuery for TLC.                                    *)
(***************************************************************************)
EXTENDS ExtensionQuery

CONSTANTS ext1, ext2
===============================================================================
