----------------------------- MODULE MCSimpleDb -----------------------------
(* Instances of SimpleDb with leaves of three cells.                       *)
EXTENDS SimpleDb

MCPads == {0, 255}
=============================================================================
