------------------------- MODULE MCDownstreamOAuth -------------------------
(* Instances of DownstreamOAuth for TLC. *)
EXTENDS DownstreamOAuth

CONSTANTS dcr, cimd, r1

\* One client that registered itself and one that names its document.
TwoClients == {dcr, cimd}
OneDynamic == {dcr}
OneRequest == {r1}
=============================================================================
