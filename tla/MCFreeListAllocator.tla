------------------------ MODULE MCFreeListAllocator ------------------------
EXTENDS FreeListAllocator
=============================================================================
