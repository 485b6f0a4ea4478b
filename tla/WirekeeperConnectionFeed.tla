---------------------- MODULE WirekeeperConnectionFeed ----------------------
(* WirekeeperConnection as an implementation of ReplayFeed.                *)
EXTENDS WirekeeperConnection

Feed == INSTANCE ReplayFeed WITH
            Readers <- Consumers, NoReader <- NoConsumer, Window <- MaxInFlight,
            phase <- conn.status, head <- conn.next - 1, acked <- conn.acked,
            kept <- Records(conn), lossy <- (conn.dropped > 0),
            reader <- conn.consumer, seen <- conn.delivered, told <- conn.told,
            final <- conn.closureNotified

\* The connection process is the feed it promises to be: whatever eviction,
\* refused messages, coalesced overflow notifications, checkpoints, watcher
\* reports and failed writes do, every step of it is a step of the feed or
\* none at all.
RefinesReplayFeed == Feed!Spec
=============================================================================
