------------------------------ MODULE MCHudTimer ------------------------------
(* The HUD timer against a server whose rules take two datagrams, then one, *)
(* then two again.                                                         *)
EXTENDS HudTimer

MCParts == [r \in 0..MaxChanges |-> IF r % 2 = 0 THEN 2 ELSE 1]
=============================================================================
