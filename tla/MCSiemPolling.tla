--------------------------- MODULE MCSiemPolling ---------------------------
(* Small instances of SiemPolling.                                          *)
EXTENDS SiemPolling, TLC

CONSTANTS e1, e2, e3

Interchangeable == Permutations(Event \ Looked)
=============================================================================
