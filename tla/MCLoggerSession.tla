---- MODULE MCLoggerSession ----
EXTENDS LoggerSession
====
