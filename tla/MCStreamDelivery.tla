-------------------------- MODULE MCStreamDelivery ---------------------------
(* A small instance of StreamDelivery: pieces that name the right model, the  *)
(* wrong one or none, one of them blank, one that fills the probe on its own. *)
EXTENDS StreamDelivery

Piece(names, size) == [names |-> names, size |-> size, blank |-> FALSE]

MCPieces ==
  {[Piece("", 1) EXCEPT !.blank = TRUE], Piece("", 3), Piece("same", 1), Piece("other", 1)}

MCExpectations == {"none", "tolerant", "strict"}
==============================================================================
