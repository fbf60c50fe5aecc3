------------------------- MODULE MCContainerRefresh -------------------------
(* Model values and bounds for checking ContainerRefresh. *)
EXTENDS ContainerRefresh, TLC
=============================================================================
