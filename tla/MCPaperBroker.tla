--------------------------- MODULE MCPaperBroker ---------------------------
(* Instances of PaperBroker for TLC: the resting orders that may be placed. *)
EXTENDS PaperBroker

Template(kind, sd, tif, reduce, priced) ==
  [kind |-> kind, side |-> sd, qty |-> 2, tif |-> tif, reduce |-> reduce, priced |-> priced]

\* A pair and a stop behind a long, a post-only entry.
Exits ==
  {Template("oco", "sell", "GTC", TRUE, FALSE), Template("oco", "sell", "GTC", TRUE, TRUE),
   Template("stop", "sell", "GTC", FALSE, FALSE), Template("limit", "buy", "POST", FALSE, TRUE)}

\* A bound: resting orders and manual orders are not mixed in one behaviour.
Apart == orders = <<>> \/ api.made = 0
=============================================================================
