---------------------- MODULE MCSimulationTransaction ----------------------
(* A small instance: setting 2 applies only when setting 1 has its second  *)
(* value.                                                                  *)
EXTENDS SimulationTransaction

MCPresent(i, f) == i = 2 => f[1] = 2
=============================================================================
