---------------------------- MODULE ForwardOnly ----------------------------
(***************************************************************************)
(* What the migrations package promises of one database file, whoever      *)
(* opens it and whenever: the migrations run one after the other, each     *)
(* exactly once, in the order of their versions, and none is ever undone.  *)
(***************************************************************************)
EXTENDS Naturals, Sequences

CONSTANT Latest   \* the newest migration any binary ships

VARIABLE ran      \* the migrations the file has been through, in order

AbsInit == ran = << >>

Migrate ==
  /\ Len(ran) < Latest
  /\ ran' = Append(ran, Len(ran) + 1)

AbsSpec == AbsInit /\ [][Migrate]_ran
=============================================================================
