--------------------------- MODULE MCConsumerGroup ---------------------------
EXTENDS ConsumerGroup
=============================================================================
