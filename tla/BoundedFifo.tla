----------------------------- MODULE BoundedFifo -----------------------------
(***************************************************************************)
(* What a ring of a fixed size promises: items come out in the order they  *)
(* went in, a call takes all it asks for or nothing, and it is refused     *)
(* exactly when there is no room, or not enough to take. An empty one may   *)
(* get another size.                                                       *)
(***************************************************************************)
EXTENDS Naturals, Sequences

VARIABLES
  capacity, (* how many items there is room for                            *)
  items,    (* what is in the ring, oldest first                           *)
  call      (* the last call: its name, what it was given, the number it   *)
            (* asked for, whether it succeeded and what it returned        *)

Front(n) == SubSeq(items, 1, n)
Rest(n)  == SubSeq(items, n + 1, Len(items))

Init == items = <<>>

Put ==
  /\ call'.op = "put"
  /\ call'.ok = (Len(items) + Len(call'.given) <= capacity)
  /\ items' = IF call'.ok THEN items \o call'.given ELSE items
  /\ capacity' = capacity

(* Takes n items off, returns them, or both. *)
Fetch ==
  /\ call'.op \in {"get", "look", "skip"}
  /\ call'.ok = (call'.n <= Len(items))
  /\ items' = IF call'.ok /\ call'.op # "look" THEN Rest(call'.n) ELSE items
  /\ call'.ok /\ call'.op # "skip" => call'.got = Front(call'.n)
  /\ capacity' = capacity

Clear == call'.op = "clear" /\ items' = <<>> /\ capacity' = capacity

Resize == call'.op = "resize" /\ items = <<>> /\ items' = <<>> /\ capacity' = call'.n

Spec == Init /\ [][Put \/ Fetch \/ Clear \/ Resize]_<<capacity, items, call>>
=============================================================================
