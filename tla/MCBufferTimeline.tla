-------------------------- MODULE MCBufferTimeline --------------------------
EXTENDS BufferTimeline
=============================================================================
