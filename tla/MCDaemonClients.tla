--------------------------- MODULE MCDaemonClients --------------------------
(* Two connections, of one client or of two. *)
EXTENDS DaemonClients

CONSTANTS k1, k2, a, b

MCConns == {k1, k2}
MCClients == {a, b}

=============================================================================
