-------------------------- MODULE MCTLSRetryBatch --------------------------
(***************************************************************************)
(* TLSRetryBatch with the values its runs need.                            *)
(***************************************************************************)
EXTENDS TLSRetryBatchInvariant

\* One code of each kind the scheduler treats differently, for any adapter.
SeamCodes == {"tcp_timeout", "completed", "cancelled", "foreign_failure"}

\* The production observer: a success that is retried (and discarded when it
\* is late), a final failure, a cancellation.
ProductionCodes == {"handshake_timeout", "tcp_connection_refused", "cancelled"}
=============================================================================
