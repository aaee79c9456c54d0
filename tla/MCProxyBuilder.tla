---------------------------- MODULE MCProxyBuilder ----------------------------
(* Instances of ProxyBuilder for TLC. *)
EXTENDS ProxyBuilder

CONSTANTS front, rpc
TwoEndpoints == <<front, rpc>>
=============================================================================
