-------------------------- MODULE MCExtensionService --------------------------
(* ExtensionService on small instances. *)
EXTENDS ExtensionService
CONSTANTS a, b
OneExt == {a}
TwoExts == {a, b}
NoDistro == {}
===============================================================================
