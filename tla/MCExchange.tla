----------------------------- MODULE MCExchange -----------------------------
EXTENDS ProviderPhase
CONSTANTS r1, r2
\* One answer streams, in full; the other only has its receipts.
MCOffered == [r \in Request |-> IF r = r1 THEN 2 ELSE 0]
=============================================================================
