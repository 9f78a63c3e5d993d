---------------------------- MODULE MCWorkerPool ----------------------------
(* Instances of WorkerPool for TLC.                                        *)
EXTENDS WorkerPool

Bounds == [k \in Kinds |-> IF k = "target" THEN 2 ELSE 1]

(* Two values forwarded to the core, a report that is told to the clients  *)
(* and looked at again, a command that is echoed.                          *)
Sends == [k \in Kinds |->
    CASE k = "target" -> {<<"out", "out">>}
      [] k = "current" -> {<<"clients", "event">>}
      [] k = "event" -> {<<"out", "clients">>}]
=============================================================================
