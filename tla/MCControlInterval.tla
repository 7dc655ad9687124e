------------------------- MODULE MCControlInterval -------------------------
(* Model values and bounds for the runs of ControlInterval. *)
EXTENDS ControlInterval

MCStepLags == {0, 1, 2}

MCLatchLags == {0, 1}

=============================================================================
