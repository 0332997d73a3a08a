---- MODULE ConfirmedWrites ----
(***************************************************************************)
(* Two-step confirmation of write tools: the dispatch of a tool call       *)
(* (mcp_server/tools/registry.py) through the ConfirmationStore            *)
(* (mcp_server/confirmation.py), with the caller identified by the request *)
(* headers (mcp_server/correlation.py).                                    *)
(*                                                                         *)
(* asyncio runs a handler without interruption up to its next await, so an *)
(* action is what runs between two awaits: Arrive (up to the preview's or  *)
(* the tool's first await), PreviewDone, PreviewFails, ToolReturns.  Calls *)
(* of any callers interleave at the awaits; a restart drops every call in  *)
(* flight and the store, which lives in memory.                            *)
(***************************************************************************)
EXTENDS Integers, FiniteSets

CONSTANTS
  People,         \* who signs in to the clients
  Tokens,         \* identity-provider access tokens
  TokenOwner,     \* [Tokens -> People]: whom each token was issued to
  Senders,        \* header combinations a call may carry (see Sender)
  Calls,          \* a tool name with its arguments, the confirmation id left out
  WriteCalls,     \* calls of tools declared writes=True
  AlwaysConfirm,  \* of those, calls of tools declared always_confirm=True
  UnknownCalls,   \* calls of a tool the registry does not have
  Ids,            \* what secrets.token_urlsafe can return
  Tasks,          \* bound: tool calls in flight at once
  TTL,            \* CONFIRMATION_TTL_SECONDS, in clock ticks
  MaxTime,        \* bound: clock ticks
  MaxLife,        \* bound: restarts
  Placeholder,    \* a header template LibreChat left unresolved ("{{...}}")
  NoToken,        \* no usable token in the header
  NoUser,         \* no x-librechat-user-id header
  NoId            \* no confirmation_id argument, or an empty one

RawToken == [bearer: BOOLEAN, text: Tokens \cup {Placeholder, NoToken}]

(* What identifies a call: the person behind it (not visible to ARGUS) and *)
(* the three headers ARGUS reads.                                          *)
Sender == [person: People, token: RawToken, user: People \cup {NoUser}, confirms: BOOLEAN]

ASSUME SenderAssumption ==
  /\ TokenOwner \in [Tokens -> People]
  /\ Senders \subseteq Sender
  /\ \A s \in Senders : s.token.text \in Tokens => TokenOwner[s.token.text] = s.person
  /\ \A s \in Senders : s.user \in {s.person, NoUser}
  /\ Placeholder \notin Tokens
  /\ NoToken \notin Tokens \cup {Placeholder}
  /\ NoUser \notin People

ASSUME CallAssumption ==
  /\ AlwaysConfirm \subseteq WriteCalls
  /\ WriteCalls \cup UnknownCalls \subseteq Calls
  /\ WriteCalls \cap UnknownCalls = {}
  /\ NoId \notin Ids

ASSUME BoundAssumption ==
  /\ TTL \in Nat \ {0}
  /\ MaxTime \in Nat
  /\ MaxLife \in Nat

----
(* Identity of the caller. *)

(* A Bearer prefix is dropped; an unresolved placeholder is no token. *)
ExtractCallerTokenKeepingPlaceholder(raw) == raw.text

ExtractCallerToken(raw) == IF raw.text \in Tokens THEN raw.text ELSE NoToken

Keys == [kind: {"token"}, of: Tokens] \cup [kind: {"user"}, of: People]
          \cup {[kind |-> "anonymous", of |-> NoUser]}

CallerKey(s) ==
  LET token == ExtractCallerToken(s.token)
  IN  IF token # NoToken THEN [kind |-> "token", of |-> token]
      ELSE IF s.user # NoUser THEN [kind |-> "user", of |-> s.user]
      ELSE [kind |-> "anonymous", of |-> NoUser]

(* Only for clients that ask for it. *)
NeedsConfirmationIfAsked(call, s) == call \in WriteCalls /\ s.confirms

NeedsConfirmation(call, s) == call \in WriteCalls /\ (s.confirms \/ call \in AlwaysConfirm)

----
VARIABLES
  now,      \* time.monotonic()
  life,     \* how many times ARGUS has restarted
  pending,  \* ConfirmationStore._pending: a set of entries
  task,     \* task[t]: the tool call a task is serving
  grants,   \* history: the confirmations issued
  tried,    \* history: the issued ids that a gated call has presented
  ran,      \* history: the confirmed tool handlers that were started
  uses      \* history: how many handlers each id has started

vars == <<now, life, pending, task, grants, tried, ran, uses>>

Entry == [id: Ids, digest: Calls, caller: Keys, expires: Int]

Grant == [id: Ids, call: Calls, from: Senders, at: Int, life: Int]

Run == [id: Ids, call: Calls, from: Senders, at: Int, life: Int]

Answers == {"unknown_tool", "confirmation_required", "unknown_id", "other_user",
            "other_arguments", "preview_error", "success", "error"}

Idle == [pc |-> "idle"]

(* A call in flight; by is the id that confirmed it, NoId if none had to.  *)
Request == [pc: {"preview", "handler"}, from: Senders, call: Calls, by: Ids \cup {NoId}]

Reply == [pc: {"replied"}, answer: Answers, id: Ids \cup {NoId}]

Init ==
  /\ now = 0
  /\ life = 0
  /\ pending = {}
  /\ task = [t \in Tasks |-> Idle]
  /\ grants = {}
  /\ tried = {}
  /\ ran = {}
  /\ uses = [id \in Ids |-> 0]

----
(* ConfirmationStore. *)

PruneLate == {e \in pending : e.expires >= now}

PruneEarly == {e \in pending : e.expires > now + 1}

Prune == {e \in pending : e.expires > now}

IssuedIds == {g.id : g \in grants}

(* issue(): an id that was never issued before, in the store for TTL. *)
Issue(id, call, from) ==
  /\ id \notin IssuedIds
  /\ pending' = Prune \cup
       {[id |-> id, digest |-> call, caller |-> CallerKey(from), expires |-> now + TTL]}
  /\ grants' = grants \cup
       {[id |-> id, call |-> call, from |-> from, at |-> now, life |-> life]}

Found(id) == {e \in Prune : e.id = id}

(* redeem(): what it says of an id, "none" when the call may run. *)
ProblemIgnoringArguments(id, call, from) ==
  IF Found(id) = {} THEN "unknown_id"
  ELSE IF \E e \in Found(id) : e.caller # CallerKey(from) THEN "other_user"
  ELSE "none"

Problem(id, call, from) ==
  IF Found(id) = {} THEN "unknown_id"
  ELSE IF \E e \in Found(id) : e.caller # CallerKey(from) THEN "other_user"
  ELSE IF \E e \in Found(id) : e.digest # call THEN "other_arguments"
  ELSE "none"

(* Consuming an id only when it matched. *)
PopIfGood(id, call, from) ==
  IF Problem(id, call, from) = "none" THEN {e \in Prune : e.id # id} ELSE Prune

(* Looking the id up without consuming it. *)
Lookup(id, call, from) == Prune

(* The id is popped whatever the outcome. *)
Popped(id, call, from) == {e \in Prune : e.id # id}

----
(* ToolRegistry.dispatch. *)

Replied(answer, id) == [pc |-> "replied", answer |-> answer, id |-> id]

Working(pc, from, call, by) == [pc |-> pc, from |-> from, call |-> call, by |-> by]

RejectUnknownTool(t, from, call, id) ==
  /\ call \in UnknownCalls
  /\ task' = [task EXCEPT ![t] = Replied("unknown_tool", NoId)]
  /\ UNCHANGED <<pending, grants, tried, ran, uses>>

(* The gate does not apply: the handler starts; an id the call carries is  *)
(* an argument like any other, and is not consumed.                        *)
RunUngated(t, from, call, id) ==
  /\ call \notin UnknownCalls
  /\ ~ NeedsConfirmation(call, from)
  /\ task' = [task EXCEPT ![t] = Working("handler", from, call, NoId)]
  /\ UNCHANGED <<pending, grants, tried, ran, uses>>

(* First call of a gated write: the preview is awaited before an id exists. *)
AskForConfirmation(t, from, call, id) ==
  /\ NeedsConfirmation(call, from)
  /\ id = NoId
  /\ task' = [task EXCEPT ![t] = Working("preview", from, call, NoId)]
  /\ UNCHANGED <<pending, grants, tried, ran, uses>>

(* Second call: redeem, then the handler, with no await in between. *)
Redeem(t, from, call, id) ==
  /\ NeedsConfirmation(call, from)
  /\ id \in Ids
  /\ pending' = Popped(id, call, from)
  /\ tried' = tried \cup ({id} \cap IssuedIds)
  /\ \/ /\ Problem(id, call, from) # "none"
        /\ task' = [task EXCEPT ![t] = Replied(Problem(id, call, from), NoId)]
        /\ UNCHANGED <<ran, uses>>
     \/ /\ Problem(id, call, from) = "none"
        /\ task' = [task EXCEPT ![t] = Working("handler", from, call, id)]
        /\ ran' = ran \cup {[id |-> id, call |-> call, from |-> from, at |-> now, life |-> life]}
        /\ uses' = [uses EXCEPT ![id] = @ + 1]
  /\ UNCHANGED grants

Arrive(t, from, call, id) ==
  /\ task[t] = Idle
  /\ \/ RejectUnknownTool(t, from, call, id)
     \/ RunUngated(t, from, call, id)
     \/ AskForConfirmation(t, from, call, id)
     \/ Redeem(t, from, call, id)
  /\ UNCHANGED <<now, life>>

PreviewDone(t, id) ==
  /\ task[t].pc = "preview"
  /\ Issue(id, task[t].call, task[t].from)
  /\ task' = [task EXCEPT ![t] = Replied("confirmation_required", id)]
  /\ UNCHANGED <<now, life, tried, ran, uses>>

(* An error while previewing: there is nothing to confirm. *)
PreviewFails(t) ==
  /\ task[t].pc = "preview"
  /\ task' = [task EXCEPT ![t] = Replied("preview_error", NoId)]
  /\ UNCHANGED <<now, life, pending, grants, tried, ran, uses>>

(* The handler returned or raised; either way the call is answered. *)
ToolReturns(t) ==
  /\ task[t].pc = "handler"
  /\ \E answer \in {"success", "error"} :
       task' = [task EXCEPT ![t] = Replied(answer, NoId)]
  /\ UNCHANGED <<now, life, pending, grants, tried, ran, uses>>

Deliver(t) ==
  /\ task[t].pc = "replied"
  /\ task' = [task EXCEPT ![t] = Idle]
  /\ UNCHANGED <<now, life, pending, grants, tried, ran, uses>>

----
(* The environment. *)

Tick ==
  /\ now < MaxTime
  /\ now' = now + 1
  /\ UNCHANGED <<life, pending, task, grants, tried, ran, uses>>

Restart ==
  /\ life < MaxLife
  /\ life' = life + 1
  /\ pending' = {}
  /\ task' = [t \in Tasks |-> Idle]
  /\ UNCHANGED <<now, grants, tried, ran, uses>>

Next ==
  \/ \E t \in Tasks, from \in Senders, call \in Calls, id \in Ids \cup {NoId} :
       Arrive(t, from, call, id)
  \/ \E t \in Tasks, id \in Ids : PreviewDone(t, id)
  \/ \E t \in Tasks : PreviewFails(t) \/ ToolReturns(t) \/ Deliver(t)
  \/ Tick
  \/ Restart

Spec == Init /\ [][Next]_vars

----
(* The types of the variables; a stored entry never outlives MaxTime + TTL. *)
TypeOK ==
  /\ now \in 0..MaxTime
  /\ life \in 0..MaxLife
  /\ pending \subseteq Entry
  /\ task \in [Tasks -> {Idle} \cup Request \cup Reply]
  /\ grants \subseteq Grant
  /\ tried \subseteq Ids
  /\ ran \subseteq Run
  /\ uses \in [Ids -> Nat]

(* The confirmation a run rests on: same id, same call, the same caller as *)
(* far as ARGUS can tell, not yet TTL old, and no restart since.           *)
Covers(g, r) ==
  /\ g.id = r.id
  /\ g.call = r.call
  /\ CallerKey(g.from) = CallerKey(r.from)
  /\ g.at <= r.at /\ r.at < g.at + TTL
  /\ g.life = r.life

(* Every confirmed write that starts was confirmed: its id was issued for  *)
(* exactly this call, to this caller, less than TTL ago, by this process   *)
(* (confirmation.py "Only the same tool, called again with the same        *)
(* arguments plus that id, by the same caller, within                      *)
(* CONFIRMATION_TTL_SECONDS, runs").                                       *)
Authorised == \A r \in ran : \E g \in grants : Covers(g, r)

(* An id starts one write at most, however calls that carry it interleave  *)
(* with each other, with restarts and with the clock ("The id is           *)
(* consumed").                                                             *)
OnceOnly == \A id \in Ids : uses[id] <= 1

(* An id that a gated call has presented is spent, whatever came of it: no *)
(* later call runs with it ("the id stays unusable either way").           *)
TriedIsSpent == [][\A id \in tried : uses'[id] = uses[id]]_vars

(* Whatever handler of a write that has to be confirmed is in flight, it   *)
(* has a confirmation of its own behind it: one that was shown to this     *)
(* caller for this call, by this process and in time, and that no other    *)
(* handler in flight rests on.  Tools with always_confirm are held to it   *)
(* for every client ("Confirm in two steps for EVERY client, not only      *)
(* those asking for it").                                                  *)
Gated(t) ==
  /\ task[t].pc = "handler"
  /\ task[t].call \in WriteCalls
  /\ task[t].from.confirms \/ task[t].call \in AlwaysConfirm

ConfirmedBy(t, r) ==
  /\ r.id = task[t].by /\ r.call = task[t].call /\ r.from = task[t].from
  /\ r.life = life

GatedHandlersAreConfirmed ==
  \A t \in Tasks : Gated(t) =>
    /\ \E r \in ran : ConfirmedBy(t, r) /\ \E g \in grants : Covers(g, r)
    /\ \A u \in Tasks : Gated(u) /\ task[u].by = task[t].by => u = t

(* Callers that ARGUS can identify confirm for themselves alone: whoever   *)
(* runs a write with an id is the person the id was issued to.  It rests   *)
(* on clients that resolve the template of the user header, where ARGUS    *)
(* does not look for a placeholder (SenderAssumption).                     *)
SamePerson ==
  \A r \in ran, g \in grants :
    (g.id = r.id /\ (r.from.user # NoUser \/ r.from.token.text \in Tokens)) =>
      g.from.person = r.from.person

(* A caller who does what the preview asks is served: the first call that  *)
(* presents a live id with the call and the caller it was issued for runs, *)
(* whatever other confirmations were issued, used or pruned meanwhile.     *)
Confirms(g, from, call, id) ==
  /\ NeedsConfirmation(call, from)
  /\ g.id \notin tried
  /\ Covers(g, [id |-> id, call |-> call, from |-> from, at |-> now, life |-> life])

ConfirmedCallRuns ==
  [][\A t \in Tasks, from \in Senders, call \in Calls, g \in grants :
       (Confirms(g, from, call, g.id) /\ Arrive(t, from, call, g.id)) =>
         task'[t].pc = "handler"]_vars

(* The store forgets: an access to it leaves no expired entry behind, so it *)
(* never holds more than was issued in the last TTL.                        *)
NothingExpiredIsKept ==
  [][pending' # pending => \A e \in pending' : e.expires > now]_vars

----
(* The permits that the store, the clock and the history amount to. *)
PermitState(id) ==
  IF uses[id] > 0 THEN "used"
  ELSE IF \E e \in pending : e.id = id /\ e.expires > now THEN "live"
  ELSE "void"

GrantOf(id) == CHOOSE g \in grants : g.id = id

PermitOf(id) ==
  IF id \notin IssuedIds THEN [state |-> "unissued"]
  ELSE [state |-> PermitState(id), call |-> GrantOf(id).call,
        key |-> CallerKey(GrantOf(id).from), until |-> GrantOf(id).at + TTL]

Permits == INSTANCE WritePermits WITH
  permit <- [id \in Ids |-> PermitOf(id)],
  performed <- {[id |-> r.id, call |-> r.call, key |-> CallerKey(r.from), at |-> r.at] : r \in ran}

(* Dispatch and the store together implement the permits of WritePermits:  *)
(* a permit is used once or voided, never reborn.                          *)
ImplementsPermits == Permits!Spec
====
