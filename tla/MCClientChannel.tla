---- MODULE MCClientChannel ----
(* ClientChannel for TLC: calls from handlers or from another thread,      *)
(* chosen by the configuration.                                            *)
EXTENDS ClientChannel
====
