---------------------------- MODULE MCWebSocket ----------------------------
(***************************************************************************)
(* Instances of WebSocket for TLC: one order of this gateway, and one of   *)
(* another client of the account with or without a client_order_id.        *)
(***************************************************************************)
EXTENDS WebSocket

CONSTANTS o1, x1, x2, btc, eth

SymbolEach == [o \in {o1, x1, x2} |-> IF o = o1 THEN btc ELSE eth]
SymbolOwn == [o \in {o1} |-> btc]

=============================================================================
