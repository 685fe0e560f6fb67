----------------------- MODULE MCPendingTransactions -----------------------
(* PendingTransactions on a small instance: the root API, which never holds *)
(* anything back, and one that does.                                        *)
EXTENDS PendingTransactions
=============================================================================
