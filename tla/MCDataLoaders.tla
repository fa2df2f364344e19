--------------------------- MODULE MCDataLoaders ---------------------------
(* A load through all layers, and a request by another user of the client. *)
EXTENDS DataLoaders, TLC

CONSTANTS a, b

Through == a :> Setup @@ b :> Client
=============================================================================
