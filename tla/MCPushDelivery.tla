--------------------------- MODULE MCPushDelivery ---------------------------
EXTENDS PushDelivery, TLC
CONSTANTS p1, p2, boss, clerk, shop, other

\* One person of each of two businesses, who both order online as well.
MCEmployer == boss :> shop @@ clerk :> other

\* An order update after another, or after a broadcast that prunes; the rest alone.
MCScripts ==
    {<<OrderUpdate(boss), OrderUpdate(boss)>>, <<Broadcast(shop), OrderUpdate(boss)>>,
     <<Targeted(shop, {boss})>>, <<Invite>>}
=============================================================================
