------------------------------ MODULE MCJsClient ------------------------------
(* Instances of JsClient for TLC. *)
EXTENDS JsClient

CONSTANTS room
=============================================================================
