---------------------------- MODULE MCSubscription ----------------------------
(***************************************************************************)
(* An instance of Subscription for TLC: three symbols, each with the name   *)
(* the exchange publishes and with that name in lower case.                 *)
(***************************************************************************)
EXTENDS Subscription

CONSTANTS BTC, btc, ETH, eth, XRP, xrp

LowerCase ==
  [s \in Symbols |-> CASE s = BTC -> btc [] s = ETH -> eth [] s = XRP -> xrp
                       [] OTHER -> s]

=============================================================================
