--------------------------- MODULE MCAddressPool ---------------------------
(* Small instances of AddressPool.  Each kind of request is in the name of  *)
(* the model value that makes it.                                           *)
EXTENDS AddressPool, TLC

CONSTANTS a1, a2, a3, a4, a5, a6, e1, e2
CONSTANTS get1, get2, get3, sub1, sub2, add1, key1, fill1, bulk1

\* The operation of each request the runs use.
KindOf ==
    [r \in Requests |->
        CASE r \in {get1, get2, get3} -> "getNew"
          [] r \in {sub1, sub2}       -> "subscribe"
          [] r = add1                 -> "addRecord"
          [] r = key1                 -> "addKey"
          [] r = fill1                -> "addKeyFill"
          [] r = bulk1                -> "bulk"]

\* Generated addresses are interchangeable, and so are the clients' own.
Symmetry == Permutations(Addr \ Ext) \cup Permutations(Ext)
=============================================================================
