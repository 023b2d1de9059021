---- MODULE MCDteClose ----
(* Small instances of DteClose. *)
EXTENDS DteClose

====
