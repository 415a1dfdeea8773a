---------------------------- MODULE MCHeapSegment ----------------------------
\* Pages that two records fill (6 words), and pages with room for a second record but not
\* for its slot (5 words); four pages compete for three frames.
EXTENDS HeapSegment
=============================================================================
