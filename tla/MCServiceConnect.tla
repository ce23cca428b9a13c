-------------------------- MODULE MCServiceConnect --------------------------
(* Two profiles, the first with the higher priority.                        *)
EXTENDS ServiceConnect

MCServices == <<"a", "b">>
=============================================================================
