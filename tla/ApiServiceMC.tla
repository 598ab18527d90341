---------------------------- MODULE ApiServiceMC ----------------------------
(* A small instance of ApiService: two requests at a time in one process   *)
(* (another revokes keys too), and one key that may read.                  *)
EXTENDS ApiService

MCKeyScopes == {{"read"}}
=============================================================================
