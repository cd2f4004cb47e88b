---------------------------- MODULE MCReloadTimer ----------------------------
(* An instance of ReloadTimer for TLC: a half of three bits. *)
EXTENDS ReloadTimer

=============================================================================
