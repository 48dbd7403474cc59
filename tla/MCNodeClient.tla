---------------------------- MODULE MCNodeClient ----------------------------
(* The client and a node: two goroutines, two operations between them, among  *)
(* them transfers of one address that may pay for two if they are cheap.     *)
EXTENDS NodeClient, TLC

CONSTANTS g1, g2

MCCallers == {g1, g2}
MCOps == {[kind |-> "transfer", amount |-> 3]}
    \cup {[kind |-> k] : k \in {"transferAll", "fee", "infoByHash", "infoByNum", "query"}}
MCContracts == {[Name |-> "tether", ContractAddress |-> "0xda", Symbol |-> "USDT"],
                [Name |-> "tether", ContractAddress |-> "0xdb", Symbol |-> "USDT"],
                [Name |-> "coin", ContractAddress |-> "0xDA", Symbol |-> "USDC"]}
MCToLower(address) == IF address = "0xDA" THEN "0xda" ELSE address
MCPrices == {1, 2}
=============================================================================
