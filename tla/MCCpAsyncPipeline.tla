------------------------- MODULE MCCpAsyncPipeline -------------------------
EXTENDS CpAsyncPipeline
=============================================================================
