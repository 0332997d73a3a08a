---- MODULE MCDiagnostics ----
EXTENDS Diagnostics

CONSTANTS quad, current, status, setpoint, ops, vac, ioc1, ioc2, pod1, app1

(* The owner of the channel is not the one that the property names. *)
Ungrouped == [name |-> quad, owner |-> ops, properties |-> [iocName |-> ioc1, owner |-> vac]]

Current ==
  [name |-> current, owner |-> NoValue,
   properties |-> [device |-> quad, iocName |-> ioc1, k8sPod |-> pod1, argocdApp |-> app1, owner |-> vac]]

(* A property may be named without a value. *)
Status ==
  [name |-> status, owner |-> ops,
   properties |-> [device |-> quad, iocName |-> ioc2, argocdApp |-> NoValue]]

(* With the last channel the owner property has no value any more. *)
Setpoint ==
  [name |-> setpoint, owner |-> vac, properties |-> [device |-> quad, owner |-> NoValue]]

SomeRegistrations == {<<>>, <<Ungrouped>>, <<Ungrouped, Current, Status, Setpoint>>}

SomeSettings ==
  {{"epics"}, {"epics", "channelfinder"}, {"channelfinder", "kubernetes", "tfidf"},
   {"channelfinder", "loki"}}
====
