----------------------------- MODULE MCThreadPool -----------------------------
(* Two workers; two tasks of one session, two authentication tasks.          *)
EXTENDS ThreadPool

CONSTANTS t1, t2, t3, t4

MCTask == {t1, t2, t3, t4}
MCKeyed == {t1, t2}
MCKey == [t \in MCKeyed |-> 4]
===============================================================================
