------------------------------- MODULE Hprofx -------------------------------
(***************************************************************************)
(* The program (heapdump/hprofx/main.go): it opens a dump, builds its      *)
(* graph and runs one command on it.  Of the commands, paths (Paths) and   *)
(* amqp (Amqp) are modelled here and retained in Dominators; the others    *)
(* only print what Inspect reads.                                          *)
(***************************************************************************)
EXTENDS Paths, Amqp

vars == <<graphVars, pathVars, amqpVars>>

Init == GraphInit /\ PathInit /\ AmqpInit

\* A command that prints from the graph and changes nothing.
PrintReport ==
  /\ pc = "graph" /\ cmd \notin {"paths", "amqp"}
  /\ pc' = "done"
  /\ UNCHANGED graphData

Next ==
  \/ GraphNext /\ UNCHANGED <<pathVars, amqpVars>>
  \/ PathNext /\ UNCHANGED amqpVars
  \/ AmqpNext /\ UNCHANGED pathVars
  \/ PrintReport /\ UNCHANGED <<pathVars, amqpVars>>

Spec == Init /\ [][Next]_vars

=============================================================================
