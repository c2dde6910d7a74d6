---- MODULE MCEventQueue ----
(* EventQueue for TLC: two events, fired and dispatched in any            *)
(* interleaving, with one dispatch nested in a handler.                    *)
EXTENDS EventQueue
====
