---- MODULE MCPvCalls ----
EXTENDS PvCalls, TLC

Of(tool, value) == [tool |-> tool, named |-> TRUE, value |-> value]

(* A write, a read (get_pv is its first request) and a refused ask. *)
SomeAsks ==
  {Of("set_pv", "other"), Of("get_pv_info", "none"), Of("set_pv_value", "empty")}

(* AppContext.build passes no protocol_overrides. *)
NoOverrides == {FALSE}

CallSymmetry == Permutations(Calls)
====
