--------------------------- MODULE MCRunClangTidy ---------------------------
\* Two threads and three files: the queue fills up, and a file waits in it while
\* both threads are busy.
EXTENDS RunClangTidy
=============================================================================
