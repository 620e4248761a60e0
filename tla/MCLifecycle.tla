------------------------------ MODULE MCLifecycle ------------------------------
\* Two processor threads, both export servers, one input and one output; every kind of
\* fault, one per life, and the lives without one.
EXTENDS Lifecycle

MCWorkers == <<"0", "1">>
MCServers == <<"http", "telegraf">>
MCSources == {"in"}
MCDestinations == {"out"}
MCFaults == {"port", "config", "script", "directory", "log output", "worker", "descriptors", "resolve"}
=============================================================================
