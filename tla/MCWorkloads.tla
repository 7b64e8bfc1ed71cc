---------------------------- MODULE MCWorkloads -----------------------------
\* Small instances of Workloads: a table of seven keys, one more than a multiple
\* of three like the 1000 of the source, which the largest size
\* of cload.out overruns.
EXTENDS Workloads
=============================================================================
