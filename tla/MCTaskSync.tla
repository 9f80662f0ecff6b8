---- MODULE MCTaskSync ----
EXTENDS TaskSync
====
