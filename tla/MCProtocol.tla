------------------------------ MODULE MCProtocol ------------------------------
EXTENDS Protocol, TLC
CONSTANTS c1, c2
MCClients == {c1, c2}
MCAsks == c1 :> {"TABLE_LIST", "INSERT", "SELECT"} @@ c2 :> {"INSERT"}
MCMaxRequests == c1 :> 2 @@ c2 :> 1
===============================================================================
