---------------------------- MODULE MCRateLimit ----------------------------
(* Instances of RateLimit for TLC: one client with up to three requests in flight. *)
EXTENDS RateLimit

=============================================================================
