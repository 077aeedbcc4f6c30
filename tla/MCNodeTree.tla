------------------------------ MODULE MCNodeTree ------------------------------
(***************************************************************************)
(* Documents of a few nodes with two keys, one or two names, and paths of  *)
(* one and two elements.                                                   *)
(***************************************************************************)
EXTENDS NodeTree

CONSTANTS k1, k2

MCKeys == {k1, k2}
MCPaths == {<<k1>>, <<0>>, <<k1, 0>>}
MCOneKey == {k1}
MCOnePath == {<<k1>>}
=============================================================================
