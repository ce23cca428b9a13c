------------------------------ MODULE MCPbAdv ------------------------------
(* PbAdv with every authentication. *)
EXTENDS PbAdv

\* Every pair of public key type and authentication method.
AllStarts == [oob : BOOLEAN, auth : 0 .. 3]

=============================================================================
