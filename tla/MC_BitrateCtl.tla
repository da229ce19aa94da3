---- MODULE MC_BitrateCtl ----
\* Instance of BitrateCtl; the constants have their values in the configuration.
EXTENDS BitrateCtl
====
