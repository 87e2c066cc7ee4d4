---------------------------- MODULE MCSchemaRate -----------------------------
(* An instance of SchemaRate for TLC: one VM over two windows.             *)
EXTENDS SchemaRate
=============================================================================
