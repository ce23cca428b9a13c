--------------------------- MODULE MCGattLongWrite ---------------------------
(* Long writes and a session for TLC: two values for one attribute, the    *)
(* session on another, values of two units, a fixed channel of one unit  *)
(* and one EATT channel of two.                                            *)
EXTENDS GattLongWrite

CONSTANTS w1, w2

MCWrites    == {w1, w2}
MCCancelled == {w1}
MCHandle    == [w \in Callers |-> IF w = Session THEN "b" ELSE "a"]
MCChanMtu   == <<1, 2>>
==============================================================================
