------------------------------ MODULE MCCycle ------------------------------
(* Model checking the cycle with framesets that may lack an image, or have *)
(* one in another format.                                                  *)
EXTENDS CaptureCycle

MCFrameImages == {{"depth", "color"}, {"depth"}, {"color"}, {"depth", "color", "other"}}
=============================================================================
