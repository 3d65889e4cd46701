------------------------------ MODULE MCCamera ------------------------------
(* Model checking the camera component on its own.                         *)
EXTENDS OrbbecBaseCamera
=============================================================================
