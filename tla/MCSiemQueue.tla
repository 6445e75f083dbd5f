---------------------------- MODULE MCSiemQueue ----------------------------
EXTENDS SiemQueue, TLC

\* A process with a thread that flushes and one that pushes, and a process that
\* only flushes.
CONSTANTS t1, t2, t3, p1, p2
MCPushers == {t2}
MCFlushers == {t1, t3}
MCProcesses == {p1, p2}
MCProcessOf == t1 :> p1 @@ t2 :> p1 @@ t3 :> p2
=============================================================================
