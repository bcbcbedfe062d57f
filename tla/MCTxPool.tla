------------------------------ MODULE MCTxPool ------------------------------
(***************************************************************************)
(* Instances of the pool.  Alice signs two offers at one price for her     *)
(* nonce 0, a low and a high one for her nonce 1 and one offer for her     *)
(* nonce 2; bob signs his nonce 0.                                         *)
(***************************************************************************)
EXTENDS TxPoolOrder

CONSTANTS a, a2, b, b2, c, d, alice, bob

MCSenderOf == [h \in Hash |-> IF h = d THEN bob ELSE alice]
MCNonceOf == [h \in Hash |-> IF h \in {a, a2, d} THEN 0 ELSE IF h \in {b, b2} THEN 1 ELSE 2]
MCPrice == [h \in Hash |-> IF h = b2 THEN 2 ELSE 1]
=============================================================================
