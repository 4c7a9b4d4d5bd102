---------------------------- MODULE MCMigrations ----------------------------
(* Three processes of an older and a newer binary open one file.  There is  *)
(* no symmetry: a liveness property is checked.                             *)
EXTENDS Migrations
=============================================================================
