-------------------------- MODULE PointCloudSource --------------------------
(***************************************************************************)
(* What a capturer promises to an application that calls its operations    *)
(* one at a time: between start() and stop() there is at most one finished *)
(* point cloud, waiting to be fetched.  It holds the points of one capture *)
(* cycle, of every camera, a later cycle than that of any cloud handed out *)
(* before; it stays until it is fetched, once, or until stop().            *)
(***************************************************************************)
EXTENDS Naturals, Sequences

CONSTANTS
  Cameras,
  Cycles      \* the cycles for which the cameras have framesets

VARIABLES
  streaming,
  ready,      \* the finished cloud: a set of at most one
  given       \* the clouds handed out

Cloud(n) == [c \in Cameras |-> n]

Init ==
  /\ streaming = FALSE
  /\ ready = {}
  /\ given = << >>

Start ==
  /\ ~streaming
  /\ streaming' = TRUE
  /\ UNCHANGED << ready, given >>

Produce ==
  /\ streaming
  /\ ready = {}
  /\ \E n \in Cycles :
       /\ \A i \in DOMAIN given : \A c \in Cameras : given[i][c] < n
       /\ ready' = {Cloud(n)}
  /\ UNCHANGED << streaming, given >>

Deliver ==
  /\ streaming
  /\ \E x \in ready : given' = Append(given, x)
  /\ ready' = {}
  /\ UNCHANGED streaming

Stop ==
  /\ streaming
  /\ streaming' = FALSE
  /\ ready' = {}
  /\ UNCHANGED given

Next == Start \/ Produce \/ Deliver \/ Stop

Spec == Init /\ [][Next]_<< streaming, ready, given >>
=============================================================================
