---------------------------- MODULE MCFfiBuffers ----------------------------
(* FfiBuffers with two polling threads and a counter that wraps.           *)
EXTENDS FfiBuffers
=============================================================================
