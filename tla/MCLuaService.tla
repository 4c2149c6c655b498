---------------------------- MODULE MCLuaService ----------------------------
(* TLC instance of LuaService. *)
EXTENDS LuaService

\* A service, and two that want the same unique name.
MCUniqueName == <<NotUnique, "db", "db">>
=============================================================================
