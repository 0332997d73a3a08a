---- MODULE HubSession ----
(***************************************************************************)
(* The MCP session that ARGUS shares between every call to the Knowledge   *)
(* Hub (providers/knowledge_hub/client.py): the handshake under a lock,    *)
(* the session id kept in the client object, and the one retry when the    *)
(* hub has forgotten the session.                                          *)
(*                                                                         *)
(* A call runs without interruption from one await to the next.  It waits  *)
(* for the handshake lock (asyncio.Lock hands it to one of those waiting   *)
(* before any newcomer) or for the response to a request, whose headers    *)
(* were fixed when it was sent.                                            *)
(* The hub is external: it is stateful, opens a session at initialize,     *)
(* refuses other requests that name none, answers 404 to a session it has  *)
(* forgotten and names the session in its answers if Echoes.               *)
(***************************************************************************)
EXTENDS Integers

CONSTANTS
  Calls,         \* bound: the tool calls, each made at most once
  MaxSessions,   \* bound: sessions the hub opens
  Echoes,        \* whether every answer of the hub repeats the session id
  NoSession,     \* no Mcp-Session-Id
  NoCall         \* nobody holds the lock

ASSUME HubAssumption ==
  /\ MaxSessions \in Nat
  /\ Echoes \in BOOLEAN
  /\ NoSession \notin Nat
  /\ NoCall \notin Calls

VARIABLES
  session,      \* KnowledgeHubClient._session_id
  initialized,  \* KnowledgeHubClient._initialized
  holder,       \* _init_lock: the call that holds it
  call,         \* call[c]: where a call is
  opened,       \* hub: how many sessions it has opened
  live,         \* hub: the sessions it remembers
  shaken,       \* hub: the sessions whose handshake was completed
  executed      \* hub: how many times it ran the tool of each call

client == <<session, initialized, holder>>

hubVars == <<opened, live, shaken, executed>>

vars == <<client, call, hubVars>>

Sessions == 1..MaxSessions

Methods == {"initialize", "notifications/initialized", "tools/call"}

(* "ok", a JSON-RPC error in an ok answer, 404, any other failure          *)
Answers == {"ok", "rpc_error", "not_found", "failed"}

Outcomes == {"result", "query_error", "unavailable", "keeps_dropping", "session_expired",
             "cancelled"}

Idle == [pc |-> "idle"]

Waiting(attempt) == [pc |-> "waiting", attempt |-> attempt]

Request(attempt, method, sid) ==
  [pc |-> "request", attempt |-> attempt, method |-> method, sid |-> sid, answer |-> "none",
   header |-> NoSession]

Done(outcome) == [pc |-> "done", outcome |-> outcome]

Requests ==
  [pc: {"request"}, attempt: 1..2, method: Methods, sid: Sessions \cup {NoSession},
   answer: Answers \cup {"none"}, header: Sessions \cup {NoSession}]

CallStates == {Idle} \cup {Waiting(n) : n \in 1..2} \cup {Done(o) : o \in Outcomes} \cup Requests

Init ==
  /\ session = NoSession
  /\ initialized = FALSE
  /\ holder = NoCall
  /\ call = [c \in Calls |-> Idle]
  /\ opened = 0
  /\ live = {}
  /\ shaken = {}
  /\ executed = [c \in Calls |-> 0]

----
(* The client. *)

Becomes(c, state) == call' = [call EXCEPT ![c] = state]

(* _ensure_initialized without the lock: every caller shakes hands. *)
EnsureWithoutLock(c, attempt) ==
  /\ Becomes(c, Request(attempt, IF initialized' THEN "tools/call" ELSE "initialize", session'))
  /\ UNCHANGED holder

LockIsFree == holder = NoCall /\ \A d \in Calls : call[d].pc # "waiting"

(* _ensure_initialized by a call that does not hold the lock, then the     *)
(* tool call itself if there is nothing to wait for.                       *)
Ensure(c, attempt) ==
  \/ /\ initialized'
     /\ Becomes(c, Request(attempt, "tools/call", session'))
     /\ UNCHANGED holder
  \/ /\ ~ initialized' /\ LockIsFree
     /\ Becomes(c, Request(attempt, "initialize", session'))
     /\ holder' = c
  \/ /\ ~ initialized' /\ ~ LockIsFree
     /\ Becomes(c, Waiting(attempt))
     /\ UNCHANGED holder

Begin(c) ==
  /\ call[c] = Idle
  /\ UNCHANGED <<session, initialized, hubVars>>
  /\ Ensure(c, 1)

(* The lock has been handed on: the handshake may have been done meanwhile. *)
GetLock(c) ==
  /\ call[c].pc = "waiting"
  /\ holder = NoCall
  /\ \/ /\ initialized
        /\ Becomes(c, Request(call[c].attempt, "tools/call", session))
        /\ UNCHANGED holder
     \/ /\ ~ initialized
        /\ Becomes(c, Request(call[c].attempt, "initialize", session))
        /\ holder' = c
  /\ UNCHANGED <<session, initialized, hubVars>>

Got(c, method, answers) ==
  /\ call[c].pc = "request"
  /\ call[c].method = method
  /\ call[c].answer \in answers

(* Leaving "async with self._init_lock", by whatever way. *)
ReleaseOnlyOnSuccess(c) == holder' = IF holder = c /\ initialized' THEN NoCall ELSE holder

Release(c) == holder' = IF holder = c THEN NoCall ELSE holder

(* An answer names the session: it is the client's from now on. *)
TakeSession(c) ==
  session' = IF call[c].header = NoSession THEN session ELSE call[c].header

SessionForgotten == session' = NoSession /\ initialized' = FALSE

InitializeAnswered(c) ==
  /\ Got(c, "initialize", {"ok"})
  /\ TakeSession(c)
  /\ Becomes(c, Request(call[c].attempt, "notifications/initialized", session'))
  /\ UNCHANGED <<initialized, holder, hubVars>>

(* A failed handshake fails the call; 404 to a request that named a        *)
(* session raises _SessionExpired, which _rpc does not catch here.         *)
InitializeFailed(c) ==
  /\ \/ /\ Got(c, "initialize", {"not_found"}) /\ session # NoSession
        /\ SessionForgotten
        /\ Becomes(c, Done("session_expired"))
     \/ /\ Got(c, "initialize", {"not_found", "failed"})
        /\ call[c].answer = "not_found" => session = NoSession
        /\ UNCHANGED <<session, initialized>>
        /\ Becomes(c, Done("unavailable"))
     \/ /\ Got(c, "initialize", {"rpc_error"})
        /\ TakeSession(c)
        /\ UNCHANGED initialized
        /\ Becomes(c, Done("query_error"))
  /\ Release(c)
  /\ UNCHANGED hubVars

(* Taking any answer to the notification for success. *)
HandshakeAnswersAnyhow == Answers

HandshakeAnswers == {"ok"}

(* The handshake is complete and the call goes out. *)
HandshakeDone(c) ==
  /\ Got(c, "notifications/initialized", HandshakeAnswers)
  /\ initialized' = TRUE
  /\ Release(c)
  /\ Becomes(c, Request(call[c].attempt, "tools/call", session))
  /\ UNCHANGED <<session, hubVars>>

(* Any refusal of the notification, 404 included, is taken by              *)
(* _check_status: the session stays.                                       *)
HandshakeFailed(c) ==
  /\ Got(c, "notifications/initialized", Answers \ HandshakeAnswers)
  /\ UNCHANGED <<session, initialized, hubVars>>
  /\ Release(c)
  /\ Becomes(c, Done("unavailable"))

CallAnswered(c) ==
  /\ Got(c, "tools/call", {"ok", "rpc_error"})
  /\ TakeSession(c)
  /\ Becomes(c, Done(IF call[c].answer = "ok" THEN "result" ELSE "query_error"))
  /\ UNCHANGED <<initialized, holder, hubVars>>

(* What makes _rpc try again. *)
RetriedAnswersAndFailures == {"not_found", "failed"}

RetriedAnswers == {"not_found"}

(* 404 while the client holds a session, whichever session the request     *)
(* named: forget it, initialize again, try once more.                      *)
SessionExpired(c) ==
  /\ Got(c, "tools/call", RetriedAnswers)
  /\ session # NoSession
  /\ SessionForgotten
  /\ \/ call[c].attempt = 1 /\ Ensure(c, 2)
     \/ call[c].attempt = 2 /\ Becomes(c, Done("keeps_dropping")) /\ UNCHANGED holder
  /\ UNCHANGED hubVars

CallFailed(c) ==
  /\ Got(c, "tools/call", {"failed", "not_found"})
  /\ call[c].answer \in RetriedAnswers => session = NoSession
  /\ Becomes(c, Done("unavailable"))
  /\ UNCHANGED <<client, hubVars>>

(* The caller's own timeout (gather_with_timeout) cancels the call where   *)
(* it waits; the lock is released.                                         *)
Cancel(c) ==
  /\ call[c].pc \in {"waiting", "request"}
  /\ UNCHANGED <<session, initialized, hubVars>>
  /\ Release(c)
  /\ Becomes(c, Done("cancelled"))

----
(* The hub and the network. *)

Sent(c) == call[c].pc = "request" /\ call[c].answer = "none"

Answer(c, answer, header) == [call EXCEPT ![c].answer = answer, ![c].header = header]

Repeats(sid) == IF Echoes THEN sid ELSE NoSession

HubOpens(c) ==
  /\ Sent(c) /\ call[c].method = "initialize" /\ call[c].sid = NoSession
  /\ opened < MaxSessions
  /\ opened' = opened + 1
  /\ live' = live \cup {opened + 1}
  /\ \E answer \in {"ok", "rpc_error"} : call' = Answer(c, answer, opened + 1)
  /\ UNCHANGED <<client, shaken, executed>>

(* A request in a session the hub remembers. *)
HubServes(c) ==
  /\ Sent(c) /\ call[c].sid \in live
  /\ \/ /\ call[c].method = "tools/call"
        /\ executed' = [executed EXCEPT ![c] = @ + 1]
        /\ \E answer \in {"ok", "rpc_error"} : call' = Answer(c, answer, Repeats(call[c].sid))
        /\ UNCHANGED shaken
     \/ /\ call[c].method = "notifications/initialized"
        /\ shaken' = shaken \cup {call[c].sid}
        /\ call' = Answer(c, "ok", NoSession)
        /\ UNCHANGED executed
     \/ /\ call[c].method = "initialize"
        /\ call' = Answer(c, "ok", call[c].sid)
        /\ UNCHANGED <<shaken, executed>>
  /\ UNCHANGED <<client, opened, live>>

HubDoesNotKnow(c) ==
  /\ Sent(c) /\ call[c].sid \in Sessions \ live
  /\ call' = Answer(c, "not_found", NoSession)
  /\ UNCHANGED <<client, hubVars>>

(* No session where one is needed, an error, a timeout: the answer may     *)
(* have been given and lost.                                               *)
Fails(c) ==
  /\ call[c].pc = "request" /\ call[c].answer \in {"none", "ok"}
  /\ call' = Answer(c, "failed", NoSession)
  /\ UNCHANGED <<client, hubVars>>

HubForgets ==
  /\ \E sid \in live : live' = live \ {sid}
  /\ UNCHANGED <<client, call, opened, shaken, executed>>

----
Receive(c) ==
  \/ InitializeAnswered(c) \/ InitializeFailed(c) \/ HandshakeDone(c) \/ HandshakeFailed(c)
  \/ CallAnswered(c) \/ SessionExpired(c) \/ CallFailed(c)

Respond(c) == HubOpens(c) \/ HubServes(c) \/ HubDoesNotKnow(c) \/ Fails(c)

Next ==
  \/ \E c \in Calls : Begin(c) \/ GetLock(c) \/ Receive(c) \/ Respond(c) \/ Cancel(c)
  \/ HubForgets

Spec == Init /\ [][Next]_vars

(* The event loop resumes whatever can go on, and a request is answered or *)
(* times out (httpx).                                                      *)
Fairness == \A c \in Calls : WF_vars(GetLock(c)) /\ WF_vars(Receive(c)) /\ WF_vars(Respond(c))

FairSpec == Spec /\ Fairness

----
(* The types of the variables. *)
TypeOK ==
  /\ session \in Sessions \cup {NoSession}
  /\ initialized \in BOOLEAN
  /\ holder \in Calls \cup {NoCall}
  /\ call \in [Calls -> CallStates]
  /\ opened \in 0..MaxSessions
  /\ live \subseteq 1..opened
  /\ shaken \subseteq 1..opened
  /\ executed \in [Calls -> Nat]

Handshaking(c) == call[c].pc = "request" /\ call[c].method # "tools/call"

(* One handshake at a time: the lock is held by the call that is shaking   *)
(* hands and by nobody else; no failure or cancellation leaves it behind   *)
(* ("the initialize handshake (once, ...)").                               *)
OneHandshake ==
  \A c \in Calls :
    holder = c <=> (call[c].pc = "request" /\ call[c].method # "tools/call")

(* No tool call names a session before the hub has accepted its handshake, *)
(* however late answers of older sessions arrive.                          *)
HandshakeFirst ==
  \A c \in Calls :
    (call[c].pc = "request" /\ call[c].method = "tools/call" /\ call[c].sid # NoSession) =>
      call[c].sid \in shaken

(* The retry never repeats a tool call: the hub runs each at most once,    *)
(* and a result is the answer to the one it ran.                           *)
RunOnce ==
  \A c \in Calls :
    /\ executed[c] <= 1
    /\ call[c] = Done("result") => executed[c] = 1

(* Every call ends, with an answer or an error, whatever the hub does and  *)
(* whoever is cancelled.                                                   *)
EveryCallEnds == \A c \in Calls : (call[c] # Idle) ~> (call[c].pc = "done")

Quiet == \A c \in Calls : call[c].pc \in {"idle", "done"}

(* With nothing in flight, a client that will not initialize again has a   *)
(* session to name ("the spec's answer is 404, and the client's is to      *)
(* initialize again").                                                     *)
SettledClientHasSession == Quiet /\ initialized => session # NoSession
====
