---- MODULE PvCalls ----
(***************************************************************************)
(* The PV tools (mcp_server/tools/pv_tools.py): reading, describing and    *)
(* writing one PV over Channel Access, with pvAccess as the fallback       *)
(* (services/operations_service.py, providers/epics/).  PVs do not touch   *)
(* each other: the model has one.                                          *)
(*                                                                         *)
(* Each protocol keeps one circuit to the IOC, on which requests are sent  *)
(* and served in order.  A request that ARGUS gave up may still be on it.  *)
(* caput is called without waiting for the IOC, so it returns when the     *)
(* request is out; a pvAccess put returns when the IOC has done it.        *)
(***************************************************************************)
EXTENDS Naturals, Sequences

CONSTANTS
  Calls,      \* bound: the tool calls made
  Asks,       \* bound: what they may ask, a subset of Ask
  Overrides,  \* whether protocol_overrides may send the PV to pvAccess
  Machine,    \* whoever else changes the PV
  MaxLog      \* bound: the length of the log up to which others change the PV

Vias == {"ca", "pva"}

Kinds == {"get", "info", "ctrl", "put"}

Tools == {"get_pv", "get_pv_value", "get_pv_info", "set_pv", "set_pv_value"}

(* named: pv_name is a string and not empty. *)
Ask == [tool: Tools, named: BOOLEAN, value: {"none", "empty", "text", "other"}]

ASSUME CallsAssumption == Machine \notin Calls /\ Asks \subseteq Ask /\ Overrides \subseteq BOOLEAN

VARIABLES
  settings,  \* EpicsSettings: which protocols are configured, and the override
  call,      \* call[c]: what a tool call is doing
  circuit,   \* circuit[via]: requests to the IOC, the oldest first
  log,       \* the values the PV took: who gave it each, and how
  before     \* history: the writes that had been accepted when a call began

vars == <<settings, call, circuit, log, before>>

(* at is the place in the log of the value a read was served. *)
State ==
  [pc: {"idle", "connecting", "sent", "served", "ended"}, kind: Kinds, via: Vias,
   at: Nat, reply: {"none", "done", "error"}]

Entry == [by: Calls \cup {Machine}, via: Vias]

Idle == [pc |-> "idle", kind |-> "get", via |-> "ca", at |-> 0, reply |-> "none"]

Init ==
  /\ settings \in [ca: BOOLEAN, pva: BOOLEAN, override: Overrides]
  /\ call = [c \in Calls |-> Idle]
  /\ circuit = [via \in Vias |-> <<>>]
  /\ log = <<[by |-> Machine, via |-> "ca"]>>
  /\ before = [c \in Calls |-> {}]

----
(* The tools. *)

Kind(tool) ==
  IF tool \in {"set_pv", "set_pv_value"} THEN "put"
  ELSE IF tool = "get_pv_info" THEN "info" ELSE "get"

(* set_pv takes any value that is there, set_pv_value only text. *)
Valid(ask) ==
  /\ ask.named
  /\ ask.tool = "set_pv" => ask.value # "none"
  /\ ask.tool = "set_pv_value" => ask.value = "text"

Is(c, state) == call' = [call EXCEPT ![c] = state]

ReadsOverPva(kind) == IF kind # "put" /\ settings.pva THEN "pva" ELSE "ca"

(* _epics_for: the same choice for every kind of call. *)
Primary(kind) == IF settings.override THEN "pva" ELSE "ca"

Ended(state, reply) == [state EXCEPT !.pc = "ended", !.reply = reply]

RetriedOverCa(state) ==
  IF state.pc = "sent" /\ state.via = "ca" THEN [state EXCEPT !.pc = "connecting"]
  ELSE Ended(state, "error")

(* What becomes of a call on an EpicsError: a call that was not over       *)
(* pvAccess already is made over it, where that is configured.             *)
OnEpicsError(state) ==
  IF state.via = "ca" /\ settings.pva THEN [state EXCEPT !.pc = "connecting", !.via = "pva"]
  ELSE Ended(state, "error")

(* _require_configured raises an EpicsError too. *)
Tried(kind) ==
  LET state == [Idle EXCEPT !.pc = "connecting", !.kind = kind, !.via = Primary(kind)]
  IN  IF settings[state.via] THEN state ELSE OnEpicsError(state)

Accepted(c) == call[c].pc = "ended" /\ call[c].kind = "put" /\ call[c].reply = "done"

Call(c, ask) ==
  /\ call[c] = Idle
  /\ Is(c, IF Valid(ask) THEN Tried(Kind(ask.tool))
           ELSE [Ended(Idle, "error") EXCEPT !.kind = Kind(ask.tool)])
  /\ before' = [before EXCEPT ![c] = {w \in Calls : Accepted(w)}]
  /\ UNCHANGED <<settings, circuit, log>>

----
(* The clients and the IOC. *)

(* The channel is connected: the request goes out. *)
Send(c) ==
  /\ call[c].pc = "connecting"
  /\ Is(c, [call[c] EXCEPT !.pc = "sent"])
  /\ circuit' = [circuit EXCEPT ![call[c].via] = Append(@, [by |-> c, kind |-> call[c].kind])]
  /\ UNCHANGED <<settings, log, before>>

(* The call still waits for this answer. *)
Awaits(c, via, kind) == call[c].pc = "sent" /\ call[c].via = via /\ call[c].kind = kind

ServeRead(via) ==
  /\ circuit[via] # <<>> /\ Head(circuit[via]).kind # "put"
  /\ circuit' = [circuit EXCEPT ![via] = Tail(@)]
  /\ LET r == Head(circuit[via]) IN
       IF Awaits(r.by, via, r.kind)
       THEN Is(r.by, [call[r.by] EXCEPT !.pc = "served", !.at = Len(log)])
       ELSE UNCHANGED call
  /\ UNCHANGED <<settings, log, before>>

ServeWrite(via) ==
  /\ circuit[via] # <<>> /\ Head(circuit[via]).kind = "put"
  /\ circuit' = [circuit EXCEPT ![via] = Tail(@)]
  /\ LET r == Head(circuit[via]) IN
       /\ log' = Append(log, [by |-> r.by, via |-> via])
       /\ IF Awaits(r.by, via, "put") THEN Is(r.by, [call[r.by] EXCEPT !.pc = "served"])
          ELSE UNCHANGED call
  /\ UNCHANGED <<settings, before>>

(* The IOC refuses what is asked, or the circuit breaks under it. *)
Refuse(via) ==
  /\ circuit[via] # <<>>
  /\ circuit' = [circuit EXCEPT ![via] = Tail(@)]
  /\ UNCHANGED <<settings, call, log, before>>

OutIsEnough(c) == call[c].pc \in {"sent", "served"}

(* Whether the client returns to the provider. *)
Returns(c) ==
  \/ call[c].pc = "served"
  \/ call[c].pc = "sent" /\ call[c].via = "ca" /\ call[c].kind = "put"

(* cainfo is followed by a caget for the limits. *)
Answer(c) ==
  /\ Returns(c)
  /\ Is(c, IF call[c].kind = "info" /\ call[c].via = "ca"
           THEN [call[c] EXCEPT !.pc = "connecting", !.kind = "ctrl"]
           ELSE Ended(call[c], "done"))
  /\ UNCHANGED <<settings, circuit, log, before>>

(* Not connected, refused, or the timeout has passed, wherever the request *)
(* is then.  The limits are done without.                                  *)
Fail(c) ==
  /\ call[c].pc \in {"connecting", "sent"}
  /\ Is(c, IF call[c].kind = "ctrl" THEN Ended(call[c], "done") ELSE OnEpicsError(call[c]))
  /\ UNCHANGED <<settings, circuit, log, before>>

(* Channel Access raises what is neither CANothing nor a timeout (a value  *)
(* that it cannot convert), or the client of ARGUS gives the call up.      *)
Break(c) ==
  /\ call[c].pc \in {"connecting", "sent", "served"}
  /\ Is(c, Ended(call[c], "error"))
  /\ UNCHANGED <<settings, circuit, log, before>>

MachineMoves ==
  /\ Len(log) <= MaxLog
  /\ log' = Append(log, [by |-> Machine, via |-> "ca"])
  /\ UNCHANGED <<settings, call, circuit, before>>

----
Next ==
  \/ \E c \in Calls, ask \in Asks : Call(c, ask)
  \/ \E c \in Calls : Send(c) \/ Answer(c) \/ Fail(c) \/ Break(c)
  \/ \E via \in Vias : ServeRead(via) \/ ServeWrite(via) \/ Refuse(via)
  \/ MachineMoves

Spec == Init /\ [][Next]_vars

----
(* The types of the variables. *)
TypeOK ==
  /\ settings \in [ca: BOOLEAN, pva: BOOLEAN, override: Overrides]
  /\ call \in [Calls -> State]
  /\ circuit \in [Vias -> Seq([by: Calls, kind: Kinds])]
  /\ log \in Seq(Entry)
  /\ before \in [Calls -> SUBSET Calls]

Landings(c) == {i \in 1..Len(log) : log[i].by = c}

FellBack(c) == call[c].via # Primary(call[c].kind)

(* A write that is said to be set over pvAccess was done.  Over Channel    *)
(* Access it was sent: it may yet be refused or lost.                      *)
AcceptedIsDone ==
  \A c \in Calls : Accepted(c) /\ call[c].via = "pva" =>
    \E i \in Landings(c) : log[i].via = "pva"

(* One write lands once over each protocol at most, and over another than  *)
(* its own only when it fell back: whatever is given up or lost, no        *)
(* request is repeated otherwise.                                          *)
TwiceOnlyByFallback ==
  \A c \in Calls : \A i \in Landings(c) :
    /\ log[i].via = call[c].via \/ FellBack(c)
    /\ \A j \in Landings(c) : log[i].via = log[j].via => i = j

(* A call that begins after a write was accepted takes effect after it,    *)
(* though Channel Access accepts before the IOC has done it: reads show    *)
(* the write and later writes overwrite it, unless one of the two fell     *)
(* back to the other protocol.                                             *)
OrderIsKept ==
  \A c \in Calls : \A w \in before[c] :
    ~ FellBack(c) /\ ~ FellBack(w) =>
      \A i \in Landings(w) :
        /\ call[c].at # 0 => i <= call[c].at
        /\ \A j \in Landings(c) : i < j
====
