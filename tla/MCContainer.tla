----------------------------- MODULE MCContainer -----------------------------
(* A small instance of Container for TLC. *)
EXTENDS Container, TLC

CONSTANTS a, b, r

(* Two singletons, one of them also bound as transient, and a request bean. *)
MCBindings == {<<a, "singleton">>, <<b, "singleton">>, <<b, "transient">>,
               <<r, "request">>}
=============================================================================
