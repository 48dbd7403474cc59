-------------------------- MODULE MCSubscriptions --------------------------
(* t1 pays an address of service 1 and is gathered by g1; t2 goes from one  *)
(* of its addresses to one of service 2.                                    *)
EXTENDS Subscriptions

CONSTANTS t1, t2, g1, out, in1, in2, master, s1, s2

FromOf == [t \in {t1, t2, g1} |-> IF t = t1 THEN out ELSE in1]
ToOf == [t \in {t1, t2, g1} |->
            CASE t = t1 -> in1 [] t = t2 -> in2 [] t = g1 -> master]
GatherOf == [t \in {t1, t2, g1} |-> IF t = t1 /\ g1 \in Tx THEN g1 ELSE NoTx]
Serves == [a \in {in1, in2} |-> IF a = in1 THEN s1 ELSE s2]
=============================================================================
