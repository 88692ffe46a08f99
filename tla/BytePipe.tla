------------------------------- MODULE BytePipe -------------------------------
(***************************************************************************)
(* What the send side of a session promises of the bytes it holds: it      *)
(* takes some at the end and passes some on from the front. None is lost,  *)
(* repeated or overtaken.                                                  *)
(***************************************************************************)
EXTENDS Naturals, Sequences

VARIABLES
  held,  (* bytes taken and not passed on yet *)
  out    (* bytes passed on                   *)

Init == held = <<>> /\ out = <<>>

Take == Len(held) <= Len(held') /\ held = SubSeq(held', 1, Len(held)) /\ out' = out

PassOn == Len(out) <= Len(out') /\ out' \o held' = out \o held

Spec == Init /\ [][Take \/ PassOn]_<<held, out>>
=============================================================================
