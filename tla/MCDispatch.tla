------------------------------ MODULE MCDispatch ------------------------------
EXTENDS Dispatch, TLC

CONSTANTS r1, r2, r3, p1, p2

MCNumKeys == p1 :> 2 @@ p2 :> 1
MCChains == {<<p1, p2>>}
MCOneKey == p1 :> 1 @@ p2 :> 1
MCOrders == {<<p1, p2>>, <<p2, p1>>}
Symmetric == Permutations(Requests)

=============================================================================
