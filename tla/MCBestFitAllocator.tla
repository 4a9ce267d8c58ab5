------------------------- MODULE MCBestFitAllocator -------------------------
EXTENDS BestFitAllocator
=============================================================================
