------------------------- MODULE MCHetznerLifecycle -------------------------
(* One control plane and one worker; a handful of commands.                  *)
EXTENDS HetznerLifecycle
=============================================================================
