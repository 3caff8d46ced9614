----------------------------- MODULE MCHttpConn ------------------------------
(* Small instances of HttpConn for TLC.                                     *)
EXTENDS HttpConn, TLC

CONSTANTS c1, c2

(* The first client streams; the second waits for a file, or asks for what  *)
(* is at hand.                                                              *)
MCKindOf == (c1 :> {"wav"}) @@ (c2 :> {"buffered", "simple"})
MCFaults == FaultKinds \ {"window"}
MCTakes == {0, 2}
=============================================================================
