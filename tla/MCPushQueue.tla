----------------------------- MODULE MCPushQueue ------------------------------
(***************************************************************************)
(* Tills for PushQueue.  On the desktop checkout writes the store's        *)
(* database, handlers and the daemon use the global one, and operators run *)
(* retry_offline_sync and sync_now on the store's.  On the tablet checkout,*)
(* handlers and the inline daemon share state.db.                          *)
(***************************************************************************)
EXTENDS PushQueue

CONSTANTS
    sale, refund, adjust,   \* mutations
    daemon, retry, syncNow, \* pushers
    globalDb, storeDb       \* database files

\* The two settlement doors queue a row in their transaction and publish
\* sale.completed; refunds only do the former, adjustments only the latter.
MCLanes == [m \in Mutation |-> CASE m = sale -> {"tx", "event"}
                                 [] m = refund -> {"tx"}
                                 [] OTHER -> {"event"}]

MCReads == [p \in Pusher |-> IF p = daemon THEN EventDb ELSE TxDb]

OnlyDaemon == {daemon} \cap Pusher

=============================================================================
