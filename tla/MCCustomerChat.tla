--------------------------- MODULE MCCustomerChat ---------------------------
(* Two orders of one product: enough for a session and a negotiation about  *)
(* different orders.                                                        *)
EXTENDS CustomerChat

=============================================================================
