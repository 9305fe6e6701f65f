---------------------------- MODULE MCPriceMonitor ----------------------------
(***************************************************************************)
(* Instances of PriceMonitor for TLC.  Two alerts on one symbol, each      *)
(* added as a long of a chat scope or as a short outside any scope.  They  *)
(* are removed from their own scope, from another chat of the same user,   *)
(* or by a caller without either.                                          *)
(***************************************************************************)
EXTENDS PriceMonitor, TLC

CONSTANTS btc, c1, c2

Long  == [symbol |-> btc, direction |-> "LONG", validation |-> 3, invalidation |-> 1]
Short == [symbol |-> btc, direction |-> "SHORT", validation |-> 1, invalidation |-> 3]

MCSetups == {
    Long  @@ [scope |-> c1, user |-> "u1"],
    Short @@ [scope |-> NoScope, user |-> NoUser]}

MCCallers == {[scope |-> c1, user |-> "u1"], [scope |-> c2, user |-> "u1"],
              [scope |-> NoScope, user |-> NoUser]}

=============================================================================
