------------------------------- MODULE MCServices -------------------------------
(***************************************************************************)
(* Small instances of the data services and of the stores.                 *)
(***************************************************************************)
EXTENDS Services, TLC

CONSTANTS
    btc, eth, pol, xyz,  \* assets
    u1, u2,              \* articles
    n1,                  \* a news WebSocket
    gpt, claude          \* models

MCNewsSymbols == {btc, eth}
MCTopics == {{btc}, {}}
MCToolTopics == {{btc, eth}}
MCMentions == u1 :> {btc} @@ u2 :> {eth}
MCWanted == n1 :> {eth}
MCTails == n1 :> 1

\* eth has no id at first, pol is listed under another symbol and xyz not at all.
MCCoinSymbols == {btc, eth, pol, xyz}
MCAssets == <<btc, eth>>
MCAsks == {[first |-> <<eth>>, all |-> TRUE], [first |-> <<pol>>, all |-> FALSE],
           [first |-> <<xyz>>, all |-> FALSE]}

MCOffers == {gpt :> 1 @@ claude :> 1, gpt :> 2}

=============================================================================
