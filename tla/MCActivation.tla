----------------------------- MODULE MCActivation -----------------------------
(* Three plugins, two of which are started with the host. *)
EXTENDS Activation

MCPlugins == 1 .. 3
MCStartupPlugins == {1, 3}
===============================================================================
