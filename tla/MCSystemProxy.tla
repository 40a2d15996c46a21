--------------------------- MODULE MCSystemProxy ---------------------------
(* Instances of SystemProxy: two pids for the managed core, and two values  *)
(* of ProxyServer besides MioProxy's own.                                   *)
EXTENDS SystemProxy

CONSTANTS p1, p2, p3, none, vpn

MCPids == {p1, p2}
MCServers == {none, vpn}
============================================================================
