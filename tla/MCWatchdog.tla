----------------------------- MODULE MCWatchdog -----------------------------
(* Small instances of Watchdog: two transactions of a managed address, the  *)
(* second one paid to an address that is indexed only later.                *)
EXTENDS Watchdog, TLC

CONSTANTS t1, t2, managed, late, outside

FromOf == [t \in Tx |-> outside]
ToOf == [t \in Tx |-> IF t = t1 THEN managed ELSE late]
=============================================================================
