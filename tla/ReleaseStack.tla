---------------------------- MODULE ReleaseStack ----------------------------
(***************************************************************************)
(* What activation and rollback promise the operator: releases form a      *)
(* stack, the newest one is served, and a rollback returns to the one      *)
(* below it.                                                               *)
(***************************************************************************)
EXTENDS Naturals, Sequences

CONSTANTS Releases, None

VARIABLES
  stack,   \* the releases that were activated and not rolled back
  serving  \* the release that is served, or None

Init ==
  /\ stack \in Seq(Releases)
  /\ serving = IF stack = <<>> THEN None ELSE stack[Len(stack)]

Activate(r) ==
  /\ stack' = Append(stack, r)
  /\ serving' = r

Rollback ==
  /\ Len(stack) > 1
  /\ stack' = SubSeq(stack, 1, Len(stack) - 1)
  /\ serving' = stack[Len(stack) - 1]

Next == Rollback \/ \E r \in Releases : Activate(r)

Spec == Init /\ [][Next]_<<stack, serving>>
=============================================================================
