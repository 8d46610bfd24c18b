------------------------- MODULE MCProviderManager -------------------------
(* ProviderManager with two attempts that need up to two secrets each over *)
(* a channel of one request.                                               *)
EXTENDS ProviderManager
=============================================================================
