----------------------------- MODULE MCCapture -----------------------------
(* Model checking the capturer together with its cameras.                  *)
EXTENDS OrbbecBaseCapture

=============================================================================
