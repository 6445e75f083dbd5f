------------------------------ MODULE MCDaemon ------------------------------
EXTENDS Daemon

\* A watcher that detach forgets, an HTTP-01 listener, a facet that is only a
\* thread, and the mesh's receiver.
MCFacets == <<"watcher", "http01", "receiver">>
MCDetached == {"http01", "receiver"}
MCBinding == {"http01", "receiver"}
MCFatal == {"watcher", "receiver"}
MCOrder == <<"code", "aux">>
MCAuto == {"code", "aux"}
MCIpc == {"code"}
=============================================================================
