--------------------------- MODULE MCHandlerTable ---------------------------
(***************************************************************************)
(* TLC instance of HandlerTable: three message types compete for two slots.*)
(***************************************************************************)
EXTENDS HandlerTable, TLC

Symmetric == Permutations(Type) \union Permutations(Callback)
=============================================================================
