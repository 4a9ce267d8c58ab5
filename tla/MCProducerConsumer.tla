------------------------- MODULE MCProducerConsumer -------------------------
EXTENDS ProducerConsumer
=============================================================================
