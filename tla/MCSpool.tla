------------------------------ MODULE MCSpool -------------------------------
\* Spool for TLC: a memory limit of three bytes and blocks of two, so that
\* spills cut memory and chunks at every offset.
EXTENDS Spool

MCChunkSizes == {0, 1, 3}
MCMaxSizes == {None, 5}
=============================================================================
