---------------------------- MODULE MCChunkChain -----------------------------
(* Small instances of ChunkChain for TLC.                                   *)
EXTENDS ChunkChain

FirstChunk == {0}
LastChunk == {N - 1}
EndChunks == {0, N - 1}
LaterChunks == 1 .. N - 1
NoChunk == {}
NoFault == {}
AllFaults == FaultKinds
OnlyFull == {"full"}
RetryFull == {"retryfull"}
=============================================================================
