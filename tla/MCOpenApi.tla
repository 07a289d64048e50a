------------------------------ MODULE MCOpenApi ------------------------------
(* An instance of OpenApi for TLC. *)
EXTENDS OpenApi, MCSchemas

TheApi == {Unset}
=============================================================================
