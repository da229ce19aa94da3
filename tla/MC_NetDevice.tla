---- MODULE MC_NetDevice ----
\* Instance of NetDevice; the constants have their values in the configuration.
EXTENDS NetDevice
====
