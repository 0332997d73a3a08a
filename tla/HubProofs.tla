---- MODULE HubProofs ----
(***************************************************************************)
(* What the two parts of the Knowledge Hub client guarantee, whatever the  *)
(* number of calls, sessions, workspaces, records and edits.               *)
(*                                                                         *)
(* The session (HubSession): one handshake at a time, no tool call before  *)
(* its session's handshake, and no tool run twice.  The inductive          *)
(* invariant IInv follows a session id from the answer that named it to    *)
(* the request that names it.                                              *)
(*                                                                         *)
(* The inventory (HubInventory, invariant ListingInv): what a scan has     *)
(* listed and the workspace no longer has was deleted, so as many records  *)
(* are gone as were deleted at most; a scan that ends without a note has   *)
(* listed at least as many records as the workspace has, so it misses at   *)
(* most as many as it has in excess.                                       *)
(***************************************************************************)
EXTENDS HubSession, HubInventory, SequenceLemmas, FiniteSetTheorems,
        SequenceTheorems, TLAPS

(* The session. *)

Asks(c, method) == call[c].pc = "request" /\ call[c].method = method

HandshakeIsDue == holder # NoCall => ~ initialized

(* The client's session, once it is initialized, and every session that an *)
(* answer to a tool call names, had their handshake accepted.              *)
InitializedIsShaken == initialized /\ session # NoSession => session \in shaken

HeadersAreShaken ==
  \A c \in Calls :
    (Asks(c, "tools/call") /\ call[c].header # NoSession) => call[c].header \in shaken

(* While a call notifies the hub of its new session, late answers may have *)
(* put an older session in its place, or none.                             *)
Notifying ==
  \A c \in Calls :
    Asks(c, "notifications/initialized") =>
      /\ session \in {call[c].sid, NoSession} \cup shaken
      /\ call[c].answer = "ok" => call[c].sid \in shaken

(* A call whose tool may have been run. *)
MayHaveRun(c) ==
  \/ call[c].pc = "done"
  \/ Asks(c, "tools/call") /\ call[c].answer \in {"ok", "rpc_error", "failed"}

Counted ==
  \A c \in Calls :
    /\ ~ MayHaveRun(c) => executed[c] = 0
    /\ (Asks(c, "tools/call") /\ call[c].answer \in {"ok", "rpc_error"}) => executed[c] = 1

IInv ==
  /\ TypeOK
  /\ OneHandshake
  /\ HandshakeIsDue
  /\ HandshakeFirst
  /\ InitializedIsShaken
  /\ HeadersAreShaken
  /\ Notifying
  /\ Counted
  /\ RunOnce

----
LEMMA TypeStep == ASSUME TypeOK, [Next]_vars PROVE TypeOK'
<1>. USE HubAssumption DEF TypeOK, Sessions, Becomes, Answer, client, hubVars
<1>1. ASSUME NEW c \in Calls, NEW state \in CallStates, Becomes(c, state)
      PROVE  call' \in [Calls -> CallStates]
  BY <1>1
<1>2. ASSUME NEW c \in Calls, call[c].pc = "request" PROVE call[c] \in Requests
  BY <1>2 DEF CallStates, Idle, Waiting, Done
<1>3. ASSUME NEW attempt \in 1..2, NEW method \in Methods, NEW sid \in Sessions \cup {NoSession}
      PROVE  Request(attempt, method, sid) \in CallStates
  BY DEF Request, Requests, CallStates, Answers
<1>4. ASSUME NEW c \in Calls, NEW attempt \in 1..2, Ensure(c, attempt),
             session' \in Sessions \cup {NoSession}
      PROVE  call' \in [Calls -> CallStates] /\ holder' \in Calls \cup {NoCall}
  BY <1>3, <1>4 DEF Ensure, Methods, Waiting, CallStates
<1>5. ASSUME NEW c \in Calls, NEW o \in Outcomes PROVE Done(o) \in CallStates
  BY DEF CallStates
<1>6. ASSUME NEW c \in Calls, Begin(c) PROVE TypeOK'
  BY <1>4, <1>6 DEF Begin
<1>7. ASSUME NEW c \in Calls, GetLock(c) PROVE TypeOK'
  <2>1. call[c].attempt \in 1..2
    BY <1>7 DEF GetLock, CallStates, Idle, Waiting, Done, Requests
  <2>. QED BY <1>3, <1>7, <2>1 DEF GetLock, Methods
<1>8. ASSUME NEW c \in Calls, Receive(c) \/ Cancel(c) PROVE TypeOK'
  <2>1. CASE InitializeAnswered(c)
    BY <1>2, <1>3, <2>1 DEF InitializeAnswered, Got, TakeSession, Requests, Methods
  <2>2. CASE InitializeFailed(c)
    <3>1. session' \in Sessions \cup {NoSession} /\ initialized' \in BOOLEAN
      BY <1>2, <2>2 DEF InitializeFailed, Got, TakeSession, SessionForgotten, Requests
    <3>2. call' \in [Calls -> CallStates]
      BY <1>5, <2>2 DEF InitializeFailed, Outcomes
    <3>. QED BY <2>2, <3>1, <3>2 DEF InitializeFailed, Release
  <2>3. CASE HandshakeDone(c)
    BY <1>2, <1>3, <2>3 DEF HandshakeDone, Got, Release, Requests, Methods
  <2>4. CASE HandshakeFailed(c)
    BY <1>5, <2>4 DEF HandshakeFailed, Release, Outcomes
  <2>5. CASE CallAnswered(c)
    BY <1>2, <1>5, <2>5 DEF CallAnswered, Got, TakeSession, Requests, Outcomes
  <2>6. CASE SessionExpired(c)
    <3>1. CASE call[c].attempt = 1 /\ Ensure(c, 2)
      <4>1. 2 \in 1..2 /\ session' = NoSession
        BY <2>6 DEF SessionExpired, SessionForgotten
      <4>2. call' \in [Calls -> CallStates] /\ holder' \in Calls \cup {NoCall}
        BY <1>4, <3>1, <4>1
      <4>. QED BY <2>6, <4>1, <4>2 DEF SessionExpired, SessionForgotten
    <3>2. CASE Becomes(c, Done("keeps_dropping")) /\ UNCHANGED holder
      BY <1>5, <2>6, <3>2 DEF SessionExpired, SessionForgotten, Outcomes
    <3>. QED BY <2>6, <3>1, <3>2 DEF SessionExpired
  <2>7. CASE CallFailed(c) \/ Cancel(c)
    BY <1>5, <2>7 DEF CallFailed, Cancel, Release, Outcomes
  <2>. QED BY <1>8, <2>1, <2>2, <2>3, <2>4, <2>5, <2>6, <2>7 DEF Receive
<1>9. ASSUME NEW c \in Calls, NEW answer \in Answers, NEW header \in Sessions \cup {NoSession},
             call[c].pc = "request", call' = Answer(c, answer, header)
      PROVE  call' \in [Calls -> CallStates]
  <2>1. [call[c] EXCEPT !.answer = answer, !.header = header] \in Requests
    BY <1>2, <1>9 DEF Requests
  <2>2. call' = [call EXCEPT ![c] = [call[c] EXCEPT !.answer = answer, !.header = header]]
    BY <1>9
  <2>. QED BY <2>1, <2>2 DEF CallStates
<1>10. ASSUME NEW c \in Calls, Respond(c) PROVE TypeOK'
  <2>1. CASE HubOpens(c)
    <3>1. opened + 1 \in Sessions
      BY <2>1 DEF HubOpens
    <3>2. PICK answer \in {"ok", "rpc_error"} : call' = Answer(c, answer, opened + 1)
      BY <2>1 DEF HubOpens
    <3>3. call' \in [Calls -> CallStates]
      BY <1>9, <2>1, <3>1, <3>2 DEF HubOpens, Sent, Answers
    <3>. QED BY <2>1, <3>1, <3>3 DEF HubOpens
  <2>2. CASE HubServes(c)
    <3>1. call[c].sid \in Sessions /\ call[c].sid \in 1..opened
      BY <2>2 DEF HubServes
    <3>2. \E answer \in Answers, header \in Sessions \cup {NoSession} :
            call' = Answer(c, answer, header)
      BY <2>2, <3>1 DEF HubServes, Repeats, Answers
    <3>3. call' \in [Calls -> CallStates]
      BY <1>9, <2>2, <3>2 DEF HubServes, Sent
    <3>. QED BY <2>2, <3>1, <3>3 DEF HubServes
  <2>3. CASE HubDoesNotKnow(c) \/ Fails(c)
    BY <1>9, <2>3 DEF HubDoesNotKnow, Fails, Sent, Answers
  <2>. QED BY <1>10, <2>1, <2>2, <2>3 DEF Respond
<1>11. CASE HubForgets
  BY <1>11 DEF HubForgets
<1>12. CASE UNCHANGED vars
  BY <1>12 DEF vars
<1>. QED
  BY <1>6, <1>7, <1>8, <1>10, <1>11, <1>12 DEF Next

(* What an answer changes. *)
LEMMA AnswerIs ==
  ASSUME TypeOK, NEW c \in Calls, NEW answer, NEW header,
         call[c].pc = "request", call' = Answer(c, answer, header)
  PROVE  /\ \A d \in Calls \ {c} : call'[d] = call[d]
         /\ call'[c].pc = "request"
         /\ call'[c].method = call[c].method
         /\ call'[c].sid = call[c].sid
         /\ call'[c].answer = answer
         /\ call'[c].header = header
<1>1. call[c] \in Requests
  BY DEF TypeOK, CallStates, Idle, Waiting, Done
<1>2. call' = [call EXCEPT ![c] = [call[c] EXCEPT !.answer = answer, !.header = header]]
  BY DEF Answer
<1>. QED BY <1>1, <1>2 DEF TypeOK, Requests

----
LEMMA LockStep == ASSUME IInv, [Next]_vars PROVE OneHandshake' /\ HandshakeIsDue'
<1>. USE HubAssumption
     DEF IInv, TypeOK, OneHandshake, HandshakeIsDue, Becomes, Idle, Waiting, Done, Request
<1>1. ASSUME NEW c \in Calls, Begin(c) \/ GetLock(c)
      PROVE  OneHandshake' /\ HandshakeIsDue'
  BY <1>1 DEF Begin, Ensure, LockIsFree, GetLock
<1>2. ASSUME NEW c \in Calls, Receive(c) \/ Cancel(c)
      PROVE  OneHandshake' /\ HandshakeIsDue'
  <2>1. CASE InitializeAnswered(c) \/ InitializeFailed(c)
    BY <2>1 DEF InitializeAnswered, InitializeFailed, Got, SessionForgotten, Release
  <2>2. CASE HandshakeDone(c) \/ HandshakeFailed(c)
    BY <2>2 DEF HandshakeDone, HandshakeFailed, Got, Release
  <2>3. CASE CallAnswered(c) \/ CallFailed(c)
    BY <2>3 DEF CallAnswered, CallFailed, Got, client
  <2>4. CASE SessionExpired(c)
    BY <2>4 DEF SessionExpired, Got, SessionForgotten, Ensure, LockIsFree
  <2>5. CASE Cancel(c)
    BY <2>5 DEF Cancel, Release
  <2>. QED BY <1>2, <2>1, <2>2, <2>3, <2>4, <2>5 DEF Receive
<1>3. ASSUME NEW c \in Calls, Respond(c)
      PROVE  OneHandshake' /\ HandshakeIsDue'
  <2>1. UNCHANGED client
    BY <1>3 DEF Respond, HubOpens, HubServes, HubDoesNotKnow, Fails
  <2>2. \A d \in Calls : call'[d].pc = call[d].pc /\ call'[d].method = call[d].method
    BY <1>3, AnswerIs DEF Respond, HubOpens, HubServes, HubDoesNotKnow, Fails, Sent
  <2>. QED BY <2>1, <2>2 DEF client
<1>4. CASE HubForgets \/ UNCHANGED vars
  BY <1>4 DEF HubForgets, vars, client
<1>. QED
  BY <1>1, <1>2, <1>3, <1>4 DEF Next

----
(* A call's tool is run when it is served, and never again: a retry comes  *)
(* of an answer that the hub gives instead of running it.                  *)
LEMMA CountStep == ASSUME IInv, [Next]_vars PROVE Counted' /\ RunOnce'
<1>. USE HubAssumption
     DEF IInv, TypeOK, Counted, RunOnce, MayHaveRun, Asks, Becomes, Idle, Waiting, Done, Request
<1>1. ASSUME NEW c \in Calls, Begin(c) \/ GetLock(c)
      PROVE  Counted' /\ RunOnce'
  BY <1>1 DEF Begin, Ensure, GetLock, hubVars
<1>2. ASSUME NEW c \in Calls, Receive(c) \/ Cancel(c)
      PROVE  Counted' /\ RunOnce'
  <2>1. CASE InitializeAnswered(c) \/ InitializeFailed(c)
    BY <2>1 DEF InitializeAnswered, InitializeFailed, Got, hubVars
  <2>2. CASE HandshakeDone(c) \/ HandshakeFailed(c)
    BY <2>2 DEF HandshakeDone, HandshakeFailed, Got, hubVars
  <2>3. CASE CallAnswered(c) \/ CallFailed(c)
    BY <2>3 DEF CallAnswered, CallFailed, Got, hubVars
  <2>4. CASE SessionExpired(c)
    BY <2>4 DEF SessionExpired, Got, RetriedAnswers, Ensure, hubVars
  <2>5. CASE Cancel(c)
    BY <2>5 DEF Cancel, hubVars
  <2>. QED BY <1>2, <2>1, <2>2, <2>3, <2>4, <2>5 DEF Receive
<1>3. ASSUME NEW c \in Calls, Respond(c)
      PROVE  Counted' /\ RunOnce'
  <2>1. CASE HubOpens(c) \/ HubDoesNotKnow(c)
    BY <2>1, AnswerIs DEF HubOpens, HubDoesNotKnow, Sent, hubVars
  <2>2. CASE HubServes(c)
    BY <2>2, AnswerIs DEF HubServes, Sent
  <2>3. CASE Fails(c)
    BY <2>3, AnswerIs DEF Fails, hubVars
  <2>. QED BY <1>3, <2>1, <2>2, <2>3 DEF Respond
<1>4. CASE HubForgets \/ UNCHANGED vars
  BY <1>4 DEF HubForgets, vars, hubVars
<1>. QED
  BY <1>1, <1>2, <1>3, <1>4 DEF Next

----
LEMMA ShakenStep ==
  ASSUME IInv, [Next]_vars
  PROVE  HandshakeFirst' /\ InitializedIsShaken' /\ HeadersAreShaken' /\ Notifying'
<1>. DEFINE Goal == HandshakeFirst /\ InitializedIsShaken /\ HeadersAreShaken /\ Notifying
<1>. USE HubAssumption
     DEF IInv, TypeOK, HandshakeFirst, InitializedIsShaken, HeadersAreShaken, Notifying, Asks,
         Becomes, Idle, Waiting, Done, Request
<1>1. ASSUME NEW c \in Calls, Begin(c) \/ GetLock(c)
      PROVE  Goal'
  BY <1>1 DEF Begin, Ensure, GetLock, hubVars
<1>2. ASSUME NEW c \in Calls, Receive(c) \/ Cancel(c)
      PROVE  Goal'
  <2>1. CASE InitializeAnswered(c) \/ InitializeFailed(c)
    BY <2>1 DEF InitializeAnswered, InitializeFailed, Got, TakeSession, SessionForgotten, hubVars,
                OneHandshake, HandshakeIsDue
  <2>2. CASE HandshakeDone(c) \/ HandshakeFailed(c)
    BY <2>2 DEF HandshakeDone, HandshakeFailed, HandshakeAnswers, Got, hubVars
  <2>3. CASE CallAnswered(c) \/ CallFailed(c)
    BY <2>3 DEF CallAnswered, CallFailed, TakeSession, Got, client, hubVars
  <2>4. CASE SessionExpired(c)
    BY <2>4 DEF SessionExpired, SessionForgotten, Got, Ensure, hubVars
  <2>5. CASE Cancel(c)
    BY <2>5 DEF Cancel, hubVars
  <2>. QED BY <1>2, <2>1, <2>2, <2>3, <2>4, <2>5 DEF Receive
<1>3. ASSUME NEW c \in Calls, Respond(c)
      PROVE  Goal'
  <2>1. CASE HubOpens(c)
    BY <2>1, AnswerIs DEF HubOpens, Sent, client
  <2>2. CASE HubServes(c)
    BY <2>2, AnswerIs DEF HubServes, Sent, Repeats, client
  <2>3. CASE HubDoesNotKnow(c) \/ Fails(c)
    BY <2>3, AnswerIs DEF HubDoesNotKnow, Fails, Sent, client, hubVars
  <2>. QED BY <1>3, <2>1, <2>2, <2>3 DEF Respond
<1>4. CASE HubForgets \/ UNCHANGED vars
  BY <1>4 DEF HubForgets, vars, client, hubVars
<1>. QED
  BY <1>1, <1>2, <1>3, <1>4 DEF Next

----
LEMMA InitIInv == Init => IInv
<1>. SUFFICES ASSUME Init PROVE IInv
  OBVIOUS
<1>1. TypeOK
  <2>1. call \in [Calls -> CallStates] /\ executed \in [Calls -> Nat]
    BY DEF Init, CallStates
  <2>2. opened \in 0..MaxSessions
    BY HubAssumption DEF Init
  <2>. QED BY <2>1, <2>2 DEF Init, TypeOK
<1>2. \A c \in Calls : call[c].pc = "idle" /\ call[c] # Done("result")
  <2>1. \A c \in Calls : call[c] = Idle
    BY DEF Init
  <2>2. Idle.pc = "idle" /\ Done("result").pc = "done"
    BY DEF Idle, Done
  <2>. QED BY <2>1, <2>2
<1>3. OneHandshake /\ HandshakeFirst /\ HeadersAreShaken /\ Notifying
  BY <1>2, HubAssumption DEF Init, OneHandshake, HandshakeFirst, HeadersAreShaken, Notifying, Asks
<1>4. Counted /\ RunOnce
  BY <1>2 DEF Init, Counted, RunOnce, Asks
<1>. QED
  BY <1>1, <1>3, <1>4 DEF Init, IInv, HandshakeIsDue, InitializedIsShaken

LEMMA Invariance == Spec => []IInv
<1>1. IInv /\ [Next]_vars => IInv'
  BY TypeStep, LockStep, CountStep, ShakenStep DEF IInv
<1>. QED
  BY InitIInv, <1>1, PTL DEF Spec

(* The variables keep their types. *)
THEOREM TypeCorrect == Spec => []TypeOK
  BY Invariance, PTL DEF IInv

(* The handshake lock is held by the one call that is shaking hands, and   *)
(* is not left behind by a failed or cancelled one.                        *)
THEOREM HandshakesAreSerial == Spec => []OneHandshake
  BY Invariance, PTL DEF IInv

(* No tool call names a session whose handshake the hub has not accepted,  *)
(* though sessions die and answers of old ones arrive at any time.         *)
THEOREM HandshakesComeFirst == Spec => []HandshakeFirst
  BY Invariance, PTL DEF IInv

(* The retry after 404 never makes the hub run a tool twice, and a result  *)
(* is that of a tool which was run.                                        *)
THEOREM ToolsRunOnce == Spec => []RunOnce
  BY Invariance, PTL DEF IInv

----
(* The inventory. *)

(* What relates the scan s of w to its records R and their history; odd    *)
(* are the workspaces for which the hub answered oddly.                    *)
ScanInv(w, s, R, lasting, ever, deleted, odd) ==
  /\ lasting \subseteq R
  /\ R \subseteq ever
  /\ s.objects \subseteq ever
  /\ Cardinality(s.objects \ R) <= deleted
  /\ s.pc \in {"fetching", "read"} /\ s.note = "none" /\ w \notin odd
       => Cardinality(lasting \ s.objects) <= deleted
  /\ s.pc = "fetching" /\ w \notin odd => s.objects \ s.known \subseteq s.missing
  /\ s.pc = "read" /\ w \notin odd => s.objects \subseteq s.known
  /\ s.pc \in {"idle", "failed"} => s.objects = {}

ScansInv ==
  \A w \in Workspaces :
    ScanInv(w, scan[w], ToSet(Records(w)), past.lasting[w], past.ever[w],
            past.deleted[w], past.odd)

(* The call: nothing is listed before the answer, and the answer comes     *)
(* when nothing is being read any more.                                    *)
CallInv ==
  /\ NoRepeats(listing.ids)
  /\ \A w \in Workspaces \ Asked : scan[w].pc = "idle"
  /\ listing.status = "idle" => listing.ids = <<>>
  /\ listing.status # "answered" => listing.devices = {}
  /\ listing.status = "answered" =>
       \A w \in Workspaces : scan[w].pc \notin {"paging", "fetching"}

ListingInv == ListingTypes /\ ScansInv /\ CallInv

----------------------------------------------------------------------------
(* Sequences without repeats.                                              *)

(* The elements of a sequence, by its places. *)
LEMMA SetOfSeq ==
  ASSUME NEW S, NEW s \in Seq(S)
  PROVE  /\ ToSet(s) \subseteq S
         /\ DOMAIN s = 1 .. Len(s)
         /\ Len(s) \in Nat
         /\ \A i \in 1 .. Len(s) : s[i] \in ToSet(s)
  BY LenProperties, ElementOfSeq DEF ToSet

(* A sequence without repeats is as long as its set is large.              *)
LEMMA LengthIsCardinality ==
  ASSUME NEW S, NEW s \in Seq(S), NoRepeats(s)
  PROVE  IsFiniteSet(ToSet(s)) /\ Cardinality(ToSet(s)) = Len(s)
<1>. DEFINE D == 1 .. Len(s)
<1>1. Len(s) \in Nat /\ DOMAIN s = D
  BY LenProperties
<1>2. s \in [D -> ToSet(s)]
  BY <1>1, LenProperties, SetOfSeq
<1>3. s \in Bijection(D, ToSet(s))
  BY <1>1, <1>2 DEF Bijection, Injection, Surjection, IsInjective, ToSet, NoRepeats
<1>4. ExistsBijection(D, ToSet(s))
  BY <1>3 DEF ExistsBijection
<1>5. IsFiniteSet(D) /\ Cardinality(D) = Len(s)
  BY <1>1, FS_Interval
<1>. QED
  BY <1>4, <1>5, FS_Bijection

(* An element more, somewhere, and still each of them once. *)
LEMMA Inserted ==
  ASSUME NEW S, NEW s \in Seq(S), NoRepeats(s), NEW u \in S, u \notin ToSet(s),
         NEW i \in 1 .. Len(s) + 1
  PROVE  /\ InsertAt(s, i, u) \in Seq(S)
         /\ NoRepeats(InsertAt(s, i, u))
         /\ ToSet(InsertAt(s, i, u)) = ToSet(s) \union {u}
<1>. DEFINE n == Len(s)
            a == SubSeq(s, 1, i - 1)
            b == SubSeq(s, i, n)
            t == InsertAt(s, i, u)
<1>1. n \in Nat /\ DOMAIN s = 1 .. n /\ \A j \in 1 .. n : s[j] \in S
  BY SetOfSeq, ElementOfSeq
<1>2. /\ a \in Seq(S) /\ Len(a) = i - 1
      /\ \A j \in 1 .. i - 1 : a[j] = s[j]
  BY <1>1, SubSeqProperties
<1>3. /\ b \in Seq(S) /\ Len(b) = n - i + 1
      /\ \A j \in 1 .. n - i + 1 : b[j] = s[i + j - 1]
  BY <1>1, SubSeqProperties
<1>4. <<u>> \in Seq(S) /\ Len(<<u>>) = 1 /\ <<u>>[1] = u
  OBVIOUS
<1>5. /\ a \o <<u>> \in Seq(S) /\ Len(a \o <<u>>) = i
      /\ \A j \in 1 .. i : (a \o <<u>>)[j] = IF j < i THEN s[j] ELSE u
  <2>. HIDE DEF a
  <2>. QED  BY <1>1, <1>2, <1>4, ConcatProperties
<1>6. /\ t \in Seq(S) /\ Len(t) = n + 1
      /\ \A j \in 1 .. n + 1 : t[j] = IF j < i THEN s[j] ELSE IF j = i THEN u ELSE s[j - 1]
  <2>1. t = (a \o <<u>>) \o b
    BY DEF InsertAt
  <2>. DEFINE c == a \o <<u>>
  <2>2. /\ c \in Seq(S) /\ Len(c) = i
        /\ \A j \in 1 .. i : c[j] = IF j < i THEN s[j] ELSE u
    BY <1>5
  <2>. HIDE DEF a, b, c, t, n
  <2>3. /\ t \in Seq(S) /\ Len(t) = i + (n - i + 1)
        /\ \A j \in 1 .. i + (n - i + 1) : t[j] = IF j <= i THEN c[j] ELSE b[j - i]
    <3>1. t = c \o b
      BY <2>1 DEF c
    <3>. DEFINE k == n - i + 1
    <3>2. i \in Nat /\ k \in Nat /\ Len(b) = k /\ b \in Seq(S)
      BY <1>1, <1>3 DEF n
    <3>. HIDE DEF k
    <3>3. /\ t \in Seq(S) /\ Len(t) = i + k
          /\ \A j \in 1 .. i + k : t[j] = IF j <= i THEN c[j] ELSE b[j - i]
      BY <2>2, <3>1, <3>2, ConcatProperties
    <3>. QED  BY <3>3 DEF k
  <2>4. i \in 1 .. n + 1
    BY DEF n
  <2>5. i + (n - i + 1) = n + 1
    BY <1>1, <2>4
  <2>6. ASSUME NEW j \in 1 .. n + 1
        PROVE  t[j] = IF j < i THEN s[j] ELSE IF j = i THEN u ELSE s[j - 1]
    <3>1. t[j] = IF j <= i THEN c[j] ELSE b[j - i]
      BY <2>3, <2>5
    <3>2. CASE j <= i
      BY <1>1, <2>2, <2>4, <3>1, <3>2
    <3>3. CASE j > i
      <4>1. j - i \in 1 .. n - i + 1 /\ i + (j - i) - 1 = j - 1
        BY <1>1, <2>4, <3>3
      <4>. QED  BY <1>1, <1>3, <2>4, <3>1, <3>3, <4>1
    <3>. QED  BY <1>1, <2>4, <3>2, <3>3
  <2>. QED
    BY <2>3, <2>5, <2>6
<1>7. DOMAIN t = 1 .. n + 1
  BY <1>1, <1>6, SetOfSeq
<1>. HIDE DEF t, a, b
<1>8. \A j \in 1 .. n : s[j] # u
  BY <1>1, SetOfSeq
<1>9. NoRepeats(t)
  <2>1. \A j, k \in 1 .. n : s[j] = s[k] => j = k
    BY <1>1 DEF NoRepeats
  <2>2. ASSUME NEW j \in 1 .. n + 1, NEW k \in 1 .. n + 1, t[j] = t[k]  PROVE j = k
    <3>. HIDE DEF n
    <3>1. i \in 1 .. n + 1
      BY DEF n
    <3>. QED  BY <1>1, <1>6, <1>8, <2>1, <2>2, <3>1
  <2>. QED
    BY <1>7, <2>2 DEF NoRepeats
<1>10. ToSet(t) = ToSet(s) \union {u}
  <2>1. ToSet(t) \subseteq ToSet(s) \union {u}
    <3>1. ASSUME NEW j \in 1 .. n + 1  PROVE t[j] \in ToSet(s) \union {u}
      <4>1. CASE j < i
        BY <1>1, <1>6, <4>1 DEF ToSet
      <4>2. CASE j = i
        BY <1>6, <4>2
      <4>3. CASE j > i
        <5>1. t[j] = s[j - 1] /\ j - 1 \in 1 .. n
          BY <1>1, <1>6, <4>3
        <5>. QED  BY <1>1, <5>1 DEF ToSet
      <4>. QED  BY <1>1, <4>1, <4>2, <4>3
    <3>. QED  BY <1>7, <3>1 DEF ToSet
  <2>2. u \in ToSet(t)
    BY <1>1, <1>6, <1>7 DEF ToSet
  <2>3. ASSUME NEW j \in 1 .. n  PROVE s[j] \in ToSet(t)
    <3>1. CASE j < i
      BY <1>1, <1>6, <1>7, <3>1 DEF ToSet
    <3>2. CASE j >= i
      <4>1. t[j + 1] = s[j] /\ j + 1 \in 1 .. n + 1
        BY <1>1, <1>6, <3>2
      <4>. QED  BY <1>7, <4>1 DEF ToSet
    <3>. QED  BY <1>1, <3>1, <3>2
  <2>. QED
    BY <1>1, <2>1, <2>2, <2>3 DEF ToSet
<1>. QED
  BY <1>6, <1>9, <1>10 DEF t

(* An element less, and still each of them once. *)
LEMMA Removed ==
  ASSUME NEW S, NEW s \in Seq(S), NoRepeats(s), NEW i \in 1 .. Len(s)
  PROVE  /\ RemoveAt(s, i) \in Seq(S)
         /\ NoRepeats(RemoveAt(s, i))
         /\ ToSet(RemoveAt(s, i)) = ToSet(s) \ {s[i]}
<1>. DEFINE n == Len(s)
            a == SubSeq(s, 1, i - 1)
            b == SubSeq(s, i + 1, n)
            t == RemoveAt(s, i)
<1>1. n \in Nat /\ DOMAIN s = 1 .. n /\ \A j \in 1 .. n : s[j] \in S
  BY SetOfSeq, ElementOfSeq
<1>2. /\ a \in Seq(S) /\ Len(a) = i - 1
      /\ \A j \in 1 .. i - 1 : a[j] = s[j]
  BY <1>1, SubSeqProperties
<1>3. /\ b \in Seq(S) /\ Len(b) = n - i
      /\ \A j \in 1 .. n - i : b[j] = s[i + j]
  <2>1. /\ b \in Seq(S) /\ Len(b) = n - i
        /\ \A j \in 1 .. n - (i + 1) + 1 : b[j] = s[i + 1 + j - 1]
    <3>1. \A j \in i + 1 .. n : s[j] \in S
      BY <1>1
    <3>2. i \in Int /\ i + 1 \in Int /\ n \in Int /\ i <= n
      BY <1>1
    <3>. HIDE DEF n
    <3>3. Len(b) = IF i + 1 <= n THEN n - (i + 1) + 1 ELSE 0
      BY <3>1, <3>2, SubSeqProperties
    <3>. QED  BY <3>1, <3>2, <3>3, SubSeqProperties
  <2>2. ASSUME NEW j \in 1 .. n - i  PROVE b[j] = s[i + j]
    <3>1. j \in 1 .. n - (i + 1) + 1 /\ i + 1 + j - 1 = i + j
      BY <1>1
    <3>. HIDE DEF b
    <3>. QED  BY <2>1, <3>1
  <2>. QED
    BY <2>1, <2>2
<1>4. /\ t \in Seq(S) /\ Len(t) = n - 1
      /\ \A j \in 1 .. n - 1 : t[j] = IF j < i THEN s[j] ELSE s[j + 1]
  <2>1. t = a \o b
    BY DEF RemoveAt
  <2>2. i \in 1 .. n /\ i - 1 \in Nat /\ n - i \in Nat
    BY <1>1
  <2>. HIDE DEF a, b, t, n
  <2>3. /\ t \in Seq(S) /\ Len(t) = (i - 1) + (n - i)
        /\ \A j \in 1 .. (i - 1) + (n - i) :
             t[j] = IF j <= i - 1 THEN a[j] ELSE b[j - (i - 1)]
    <3>. DEFINE m == i - 1
                k == n - i
    <3>1. m \in Nat /\ k \in Nat /\ Len(a) = m /\ Len(b) = k
      BY <1>2, <1>3, <2>2
    <3>. HIDE DEF m, k
    <3>2. /\ t \in Seq(S) /\ Len(t) = m + k
          /\ \A j \in 1 .. m + k : t[j] = IF j <= m THEN a[j] ELSE b[j - m]
      <4>. DEFINE ab == a \o b
      <4>1. a \in Seq(S) /\ b \in Seq(S)
        BY <1>2, <1>3
      <4>2. ab \in Seq(S) /\ Len(ab) = Len(a) + Len(b)
            /\ \A j \in 1 .. Len(a) + Len(b) : ab[j] = IF j <= Len(a) THEN a[j] ELSE b[j - Len(a)]
        BY <4>1, ConcatProperties
      <4>. HIDE DEF ab
      <4>. QED  BY <2>1, <3>1, <4>2 DEF ab
    <3>. QED  BY <3>2 DEF m, k
  <2>4. (i - 1) + (n - i) = n - 1
    BY <1>1, <2>2
  <2>5. ASSUME NEW j \in 1 .. n - 1
        PROVE  t[j] = IF j < i THEN s[j] ELSE s[j + 1]
    <3>1. CASE j < i
      BY <1>1, <1>2, <2>2, <2>3, <2>4, <3>1
    <3>2. CASE j >= i
      <4>1. j - (i - 1) \in 1 .. n - i /\ i + (j - (i - 1)) = j + 1
        BY <1>1, <2>2, <3>2
      <4>2. t[j] = b[j - (i - 1)]
        BY <1>1, <2>2, <2>3, <2>4, <3>2
      <4>. QED  BY <1>1, <1>3, <2>2, <3>2, <4>1, <4>2
    <3>. QED  BY <1>1, <2>2, <3>1, <3>2
  <2>. QED
    BY <2>3, <2>4, <2>5
<1>5. DOMAIN t = 1 .. n - 1
  BY <1>1, <1>4, SetOfSeq
<1>. HIDE DEF t, a, b
<1>6. NoRepeats(t)
  <2>1. ASSUME NEW j \in 1 .. n - 1, NEW k \in 1 .. n - 1, j < k  PROVE t[j] # t[k]
    <3>1. PICK p \in 1 .. n : t[j] = s[p] /\ p = IF j < i THEN j ELSE j + 1
      BY <1>1, <1>4
    <3>2. PICK q \in 1 .. n : t[k] = s[q] /\ q = IF k < i THEN k ELSE k + 1
      BY <1>1, <1>4
    <3>3. p # q
      BY <1>1, <2>1, <3>1, <3>2
    <3>. QED  BY <1>1, <3>1, <3>2, <3>3 DEF NoRepeats
  <2>2. \A j, k \in 1 .. n - 1 : j # k => j < k \/ k < j
    BY <1>1
  <2>. QED  BY <1>5, <2>1, <2>2 DEF NoRepeats
<1>7. ToSet(t) \subseteq ToSet(s) \ {s[i]}
  <2>1. ASSUME NEW j \in 1 .. n - 1  PROVE t[j] \in ToSet(s) \ {s[i]}
    <3>1. PICK k \in 1 .. n : k # i /\ t[j] = s[k]
      <4>1. CASE j < i
        BY <1>1, <1>4, <4>1
      <4>2. CASE j >= i
        BY <1>1, <1>4, <4>2
      <4>. QED  BY <1>1, <4>1, <4>2
    <3>2. s[k] # s[i]
      BY <1>1, <3>1 DEF NoRepeats
    <3>. QED  BY <1>1, <3>1, <3>2 DEF ToSet
  <2>. QED  BY <1>5, <2>1 DEF ToSet
<1>8. ToSet(s) \ {s[i]} \subseteq ToSet(t)
  <2>1. ASSUME NEW j \in 1 .. n, j # i  PROVE s[j] \in ToSet(t)
    <3>1. CASE j < i
      BY <1>1, <1>4, <1>5, <3>1 DEF ToSet
    <3>2. CASE j > i
      <4>1. t[j - 1] = s[j] /\ j - 1 \in 1 .. n - 1
        BY <1>1, <1>4, <3>2
      <4>. QED  BY <1>5, <4>1 DEF ToSet
    <3>. QED  BY <1>1, <2>1, <3>1, <3>2
  <2>. QED  BY <1>1, <2>1 DEF ToSet
<1>. QED
  BY <1>4, <1>6, <1>7, <1>8 DEF t

----------------------------------------------------------------------------
(* One scan.                                                               *)

(* There are finitely many records. *)
LEMMA FiniteRecords ==
  ASSUME NEW S \in SUBSET Uids
  PROVE  IsFiniteSet(S) /\ Cardinality(S) \in Nat
  BY NameAssumption, FS_Subset, FS_CardinalityType

(* A part has no more records than the whole. *)
LEMMA Fewer ==
  ASSUME NEW T \in SUBSET Uids, NEW S \in SUBSET T
  PROVE  Cardinality(S) <= Cardinality(T)
  BY FiniteRecords, FS_Subset

(* Who lists at least as many records as there are misses no more of them  *)
(* than the list has in excess.                                            *)
LEMMA MissedAreInExcess ==
  ASSUME NEW R \in SUBSET Uids, NEW O \in SUBSET Uids, NEW L \in SUBSET R,
         Cardinality(O) >= Cardinality(R)
  PROVE  Cardinality(L \ O) <= Cardinality(O \ R)
<1>1. /\ IsFiniteSet(R) /\ IsFiniteSet(O) /\ IsFiniteSet(R \ O) /\ IsFiniteSet(O \ R)
      /\ Cardinality(R) \in Nat /\ Cardinality(O) \in Nat
      /\ Cardinality(R \ O) \in Nat /\ Cardinality(O \ R) \in Nat
      /\ Cardinality(L \ O) \in Nat
  BY FiniteRecords
<1>2. Cardinality({}) = 0
  BY FS_EmptySet
<1>3. ASSUME NEW S, NEW T, IsFiniteSet(S), IsFiniteSet(T), S \cap T = {},
             Cardinality(S) \in Nat, Cardinality(T) \in Nat
      PROVE  Cardinality(S \cup T) = Cardinality(S) + Cardinality(T)
  <2>1. Cardinality(S \cup T) = Cardinality(S) + Cardinality(T) - Cardinality(S \cap T)
    BY <1>3, FS_Union, Zenon
  <2>2. Cardinality(S \cap T) = 0
    BY <1>2, <1>3, Zenon
  <2>. QED
    BY <1>3, <2>1, <2>2
<1>4. /\ Cardinality(O \union (R \ O)) = Cardinality(O) + Cardinality(R \ O)
      /\ Cardinality(R \union (O \ R)) = Cardinality(R) + Cardinality(O \ R)
  <2>. DEFINE M == R \ O
              N == O \ R
  <2>1. O \cap M = {} /\ R \cap N = {}
    OBVIOUS
  <2>2. IsFiniteSet(M) /\ IsFiniteSet(N) /\ Cardinality(M) \in Nat /\ Cardinality(N) \in Nat
    BY <1>1
  <2>. HIDE DEF M, N
  <2>3. Cardinality(O \union M) = Cardinality(O) + Cardinality(M)
    BY <1>1, <1>3, <2>1, <2>2
  <2>4. Cardinality(R \union N) = Cardinality(R) + Cardinality(N)
    BY <1>1, <1>3, <2>1, <2>2
  <2>. QED
    BY <2>3, <2>4 DEF M, N
<1>5. O \union (R \ O) = R \union (O \ R)
  OBVIOUS
<1>6. Cardinality(L \ O) <= Cardinality(R \ O)
  <2>1. L \ O \in SUBSET (R \ O)
    OBVIOUS
  <2>. QED  BY <2>1, Fewer
<1>. QED
  BY <1>1, <1>4, <1>5, <1>6

(* The end of the loop over pages.                                         *)
LEMMA PagedInv ==
  ASSUME NEW s \in Scans, NEW R \in SUBSET Uids, NEW L \in SUBSET R, NEW E, R \subseteq E,
         NEW d \in Nat, NEW w, NEW o,
         s.objects \subseteq E, Cardinality(s.objects \ R) <= d,
         w \notin o => s.total = Cardinality(R)
  PROVE  Paged(s) \in Scans /\ ScanInv(w, Paged(s), R, L, E, d, o)
<1>. DEFINE t == Paged(s)
<1>1. /\ t \in Scans
      /\ t.objects = s.objects /\ t.known = s.known
      /\ t.missing = s.objects \ s.known
      /\ t.pc = IF s.objects \ s.known = {} THEN "read" ELSE "fetching"
      /\ t.note = IF Cardinality(s.objects) < s.total THEN "short" ELSE "none"
  BY DEF Scans, Paged, Notes
<1>. HIDE DEF t
<1>2. s.objects \in SUBSET Uids /\ s.total \in Nat
  BY DEF Scans
<1>3. ASSUME t.note = "none", w \notin o  PROVE Cardinality(L \ s.objects) <= d
  <2>1. Cardinality(s.objects) >= Cardinality(R)
    BY <1>1, <1>2, <1>3, FiniteRecords
  <2>2. /\ Cardinality(s.objects \ R) \in Nat /\ Cardinality(L \ s.objects) \in Nat
    BY <1>2, FiniteRecords
  <2>3. Cardinality(L \ s.objects) <= Cardinality(s.objects \ R)
    BY <1>2, <2>1, MissedAreInExcess, Zenon
  <2>. DEFINE m == Cardinality(L \ s.objects)
              n == Cardinality(s.objects \ R)
  <2>4. m \in Nat /\ n \in Nat /\ m <= n /\ n <= d
    BY <2>2, <2>3
  <2>. HIDE DEF m, n
  <2>5. m <= d
    BY <2>4
  <2>. QED
    BY <2>5 DEF m
<1>4. t.pc = "read" => s.objects \subseteq s.known
  BY <1>1
<1>5. t.pc \notin {"idle", "failed"}
  BY <1>1
<1>6. ScanInv(w, t, R, L, E, d, o)
  BY <1>1, <1>3, <1>4, <1>5 DEF ScanInv
<1>. QED
  BY <1>1, <1>6 DEF t

(* An answer of get_object: only an odd one leaves attributes unknown.     *)
LEMMA FetchedInv ==
  ASSUME NEW s \in Scans, NEW R \in SUBSET Uids, NEW L \in SUBSET R, NEW E,
         NEW d \in Nat, NEW w, NEW o, NEW p, w \in o => w \in p,
         ScanInv(w, s, R, L, E, d, o), s.pc = "fetching",
         NEW u \in Uids, NEW K \in SUBSET Uids, w \notin p => u \in K
  PROVE  Fetched(s, u, K) \in Scans /\ ScanInv(w, Fetched(s, u, K), R, L, E, d, p)
<1>. DEFINE t == Fetched(s, u, K)
<1>1. /\ t \in Scans
      /\ t.objects = s.objects /\ t.known = s.known \union K
      /\ t.missing = s.missing \ {u} /\ t.note = s.note
      /\ t.pc = IF s.missing \ {u} = {} THEN "read" ELSE "fetching"
  BY DEF Scans, Fetched
<1>. HIDE DEF t
<1>2. t.pc \notin {"idle", "failed"}
  BY <1>1
<1>3. w \notin p => t.objects \ t.known \subseteq t.missing
  BY <1>1 DEF ScanInv
<1>. QED
  <2>1. w \notin p /\ t.pc = "read" => t.objects \subseteq t.known
    BY <1>1, <1>3
  <2>. QED  BY <1>1, <1>2, <1>3, <2>1 DEF ScanInv, t

----------------------------------------------------------------------------
(* The steps of one scan.                                                  *)

(* What every step of the listing needs of a workspace. *)
LEMMA Basics ==
  ASSUME ListingTypes, ScansInv, NEW w \in Workspaces
  PROVE  /\ scan[w] \in Scans
         /\ Records(w) \in Seq(Uids) /\ NoRepeats(Records(w))
         /\ ToSet(Records(w)) \in SUBSET Uids
         /\ Cardinality(ToSet(Records(w))) = Len(Records(w))
         /\ past.lasting[w] \in SUBSET ToSet(Records(w))
         /\ ToSet(Records(w)) \subseteq past.ever[w]
         /\ past.deleted[w] \in Nat /\ past.odd \in SUBSET Workspaces
         /\ ScanInv(w, scan[w], ToSet(Records(w)), past.lasting[w], past.ever[w],
                    past.deleted[w], past.odd)
<1>1. Records(w) \in Seq(Uids) /\ NoRepeats(Records(w)) /\ scan[w] \in Scans
  BY DEF ListingTypes, Records
<1>2. ToSet(Records(w)) \in SUBSET Uids
  BY <1>1, SetOfSeq
<1>3. past.deleted[w] \in Nat /\ past.odd \in SUBSET Workspaces
  BY DEF ListingTypes
<1>. QED
  BY <1>1, <1>2, <1>3, LengthIsCardinality DEF ScansInv, ScanInv

(* An answer of the hub moves the scan of w to s and nothing else.         *)
ScanMoves(w, s, odd) ==
  /\ hub' = hub /\ listing' = listing
  /\ scan' = [scan EXCEPT ![w] = s]
  /\ past' = [past EXCEPT !.odd = odd]

LEMMA ScanStep ==
  ASSUME ListingInv, NEW w \in Workspaces, NEW s \in Scans, NEW odd \in SUBSET Workspaces,
         scan[w].pc \in {"paging", "fetching"},
         \A v \in Workspaces \ {w} : v \in odd <=> v \in past.odd,
         ScanMoves(w, s, odd),
         ScanInv(w, s, ToSet(Records(w)), past.lasting[w], past.ever[w],
                 past.deleted[w], odd)
  PROVE  ListingInv'
<1>1. ListingTypes'
  BY DEF ListingInv, ListingTypes, ScanMoves, Records
<1>2. /\ past'.odd = odd /\ past'.lasting = past.lasting /\ past'.ever = past.ever
      /\ past'.deleted = past.deleted
  BY DEF ListingInv, ListingTypes, ScanMoves
<1>3. ASSUME NEW v \in Workspaces
      PROVE  ScanInv(v, scan'[v], ToSet(Records(v)'), past'.lasting[v], past'.ever[v],
                     past'.deleted[v], past'.odd)
  <2>1. Records(v)' = Records(v)
    BY DEF ScanMoves, Records
  <2>2. CASE v = w
    <3>1. scan'[v] = s
      BY <2>2 DEF ListingInv, ListingTypes, ScanMoves
    <3>. QED  BY <1>2, <2>1, <2>2, <3>1
  <2>3. CASE v # w
    <3>1. scan'[v] = scan[v]
      BY <2>3 DEF ListingInv, ListingTypes, ScanMoves
    <3>2. ScanInv(v, scan[v], ToSet(Records(v)), past.lasting[v], past.ever[v],
                  past.deleted[v], past.odd)
      BY DEF ListingInv, ScansInv
    <3>3. ScanInv(v, scan[v], ToSet(Records(v)), past.lasting[v], past.ever[v],
                  past.deleted[v], odd)
      <4>1. v \in odd <=> v \in past.odd
        BY <2>3
      <4>. QED  BY <3>2, <4>1 DEF ScanInv
    <3>. QED  BY <1>2, <2>1, <3>1, <3>3
  <2>. QED  BY <2>2, <2>3
<1>4. ScansInv'
  BY <1>3 DEF ScansInv
<1>5. w \in Asked /\ listing.status # "answered"
  BY DEF ListingInv, CallInv
<1>6. \A v \in Workspaces : v # w => scan'[v] = scan[v]
  BY DEF ListingInv, ListingTypes, ScanMoves
<1>7. CallInv'
  <2>1. listing' = listing /\ Asked' = Asked
    BY DEF ScanMoves, Asked
  <2>. QED  BY <1>5, <1>6, <2>1 DEF ListingInv, CallInv
<1>. QED
  BY <1>1, <1>4, <1>7 DEF ListingInv

(* A step that finds nothing odd leaves the past as it is. *)
LEMMA SamePast ==
  ASSUME ListingTypes
  PROVE  past = [past EXCEPT !.odd = past.odd]
  BY DEF ListingTypes

(* A page shows records that there are. *)
LEMMA PageSet ==
  ASSUME ListingTypes, NEW w \in Workspaces, NEW page \in Nat
  PROVE  ToSet(Page(w, page)) \subseteq ToSet(Records(w))
<1>. DEFINE r == Records(w)
            first == IF hub.paging THEN page * PageSize ELSE 0
            last == UpTo(r, first + PageSize)
<1>1. r \in Seq(Uids)
  BY DEF ListingTypes, Records
<1>2. Len(r) \in Nat /\ DOMAIN r = 1 .. Len(r) /\ \A i \in 1 .. Len(r) : r[i] \in ToSet(r)
  BY <1>1, SetOfSeq
<1>3. first \in Nat /\ PageSize \in Nat
  BY PageAssumption
<1>. HIDE DEF r, first
<1>4. last \in Nat /\ last <= Len(r)
  BY <1>2, <1>3 DEF UpTo
<1>5. SubSeq(r, first + 1, last) \in Seq(ToSet(r))
  <2>1. \A i \in first + 1 .. last : r[i] \in ToSet(r)
    BY <1>2, <1>3, <1>4
  <2>. HIDE DEF last
  <2>. QED  BY <1>3, <1>4, <2>1, SubSeqProperties
<1>6. Page(w, page) = SubSeq(r, first + 1, last)
  BY DEF Page, r, first
<1>. QED
  BY <1>5, <1>6, SetOfSeq DEF r

(* Where nothing was, nothing is missing. *)
LEMMA NothingGone ==
  ASSUME NEW O, O = {}, NEW R
  PROVE  Cardinality(O \ R) = 0
<1>1. O \ R = {}
  OBVIOUS
<1>. QED
  BY <1>1, FS_EmptySet, Zenon

LEMMA UnknownTypeStep ==
  ASSUME ListingInv, NEW w \in Workspaces, UnknownType(w)
  PROVE  ListingInv'
<1>. DEFINE t == [Unread EXCEPT !.pc = "read", !.note = "untyped"]
<1>1. /\ t \in Scans /\ t.objects = {} /\ t.note = "untyped" /\ t.pc = "read"
  <2>1. Unread \in Scans /\ Unread.objects = {}
    BY PageAssumption DEF Unread, Scans, Notes
  <2>. QED  BY <2>1 DEF Scans, Notes
<1>2. /\ scan[w].pc = "paging" /\ past.odd \in SUBSET Workspaces
      /\ ScanMoves(w, t, past.odd)
  BY SamePast DEF ListingInv, ListingTypes, UnknownType, ScanMoves
<1>. HIDE DEF t
<1>3. ScanInv(w, t, ToSet(Records(w)), past.lasting[w], past.ever[w], past.deleted[w], past.odd)
  <2>1. Cardinality(t.objects \ ToSet(Records(w))) = 0
    BY <1>1, NothingGone
  <2>2. /\ past.lasting[w] \subseteq ToSet(Records(w))
        /\ ToSet(Records(w)) \subseteq past.ever[w]
        /\ past.deleted[w] \in Nat
    BY Basics DEF ListingInv
  <2>. QED  BY <1>1, <2>1, <2>2 DEF ScanInv
<1>. QED
  BY <1>1, <1>2, <1>3, ScanStep

LEMMA ScanFailsStep ==
  ASSUME ListingInv, NEW w \in Workspaces, ScanFails(w)
  PROVE  ListingInv'
<1>. DEFINE t == [Unread EXCEPT !.pc = "failed"]
<1>1. t \in Scans /\ t.objects = {} /\ t.pc = "failed"
  BY PageAssumption DEF Unread, Scans, Notes
<1>2. /\ scan[w].pc \in {"paging", "fetching"} /\ past.odd \in SUBSET Workspaces
      /\ ScanMoves(w, t, past.odd)
  BY SamePast DEF ListingInv, ListingTypes, ScanFails, ScanMoves
<1>. HIDE DEF t
<1>3. ScanInv(w, t, ToSet(Records(w)), past.lasting[w], past.ever[w], past.deleted[w], past.odd)
  <2>1. Cardinality(t.objects \ ToSet(Records(w))) = 0
    BY <1>1, NothingGone
  <2>2. /\ past.lasting[w] \subseteq ToSet(Records(w))
        /\ ToSet(Records(w)) \subseteq past.ever[w]
        /\ past.deleted[w] \in Nat
    BY Basics DEF ListingInv
  <2>. QED  BY <1>1, <2>1, <2>2 DEF ScanInv
<1>. QED
  BY <1>1, <1>2, <1>3, ScanStep

(* A page shows records that there are, whatever total comes with it.      *)
LEMMA WithPageIs ==
  ASSUME ListingInv, NEW w \in Workspaces, NEW total \in Nat
  PROVE  LET got == WithPage(w, total) IN
           /\ got \in Scans /\ got.pc = scan[w].pc /\ got.page = scan[w].page /\ got.total = total
           /\ got.objects = scan[w].objects \union Fresh(w)
           /\ got.objects \subseteq past.ever[w]
           /\ Cardinality(got.objects \ ToSet(Records(w))) <= past.deleted[w]
<1>. DEFINE s       == scan[w]
            R       == ToSet(Records(w))
            fresh   == Fresh(w)
            objects == s.objects \union fresh
            known   == IF hub.paging THEN s.known \union fresh ELSE s.known
            got     == [s EXCEPT !.objects = objects, !.total = total, !.known = known]
<1>1. /\ s \in Scans /\ R \in SUBSET Uids /\ R \subseteq past.ever[w]
      /\ past.deleted[w] \in Nat
      /\ ScanInv(w, s, R, past.lasting[w], past.ever[w], past.deleted[w], past.odd)
  BY Basics DEF ListingInv
<1>2. s.page \in Nat
  BY <1>1, PageAssumption DEF Scans
<1>3. fresh \in SUBSET R
  BY <1>2, PageSet DEF ListingInv, Fresh
<1>4. WithPage(w, total) = got
  BY DEF WithPage
<1>. HIDE DEF s, R, fresh
<1>5. objects \in SUBSET Uids /\ known \in SUBSET Uids
  BY <1>1, <1>3 DEF Scans
<1>6. objects \subseteq past.ever[w] /\ objects \ R = s.objects \ R
  BY <1>1, <1>3 DEF ScanInv
<1>7. Cardinality(objects \ R) <= past.deleted[w]
  BY <1>1, <1>6 DEF ScanInv
<1>. HIDE DEF objects, known
<1>8. /\ got \in Scans /\ got.objects = objects /\ got.total = total
      /\ got.pc = s.pc /\ got.page = s.page
  BY <1>1, <1>5 DEF Scans
<1>. HIDE DEF got
<1>. QED
  BY <1>4, <1>6, <1>7, <1>8 DEF s, R, fresh, objects

LEMMA PageServedStep ==
  ASSUME ListingInv, NEW w \in Workspaces, PageServed(w)
  PROVE  ListingInv'
<1>. DEFINE R    == ToSet(Records(w))
            next == [WithPage(w, Len(Records(w))) EXCEPT !.page = @ + 1]
<1>1. PICK got : got = WithPage(w, Len(Records(w)))
  OBVIOUS
<1>2. /\ R \in SUBSET Uids /\ Cardinality(R) = Len(Records(w)) /\ Len(Records(w)) \in Nat
      /\ past.lasting[w] \in SUBSET R /\ R \subseteq past.ever[w]
      /\ past.deleted[w] \in Nat /\ past.odd \in SUBSET Workspaces
  BY Basics, SetOfSeq DEF ListingInv
<1>3. /\ got \in Scans /\ got.pc = "paging" /\ got.total = Cardinality(R)
      /\ got.objects \subseteq past.ever[w]
      /\ Cardinality(got.objects \ R) <= past.deleted[w]
  BY <1>1, <1>2, WithPageIs DEF PageServed
<1>4. PICK last \in BOOLEAN : last <=> LastPage(Fresh(w), got.objects, got.total, got.page)
  OBVIOUS
<1>5. /\ hub' = hub /\ listing' = listing /\ past' = past
      /\ scan' = [scan EXCEPT ![w] = IF last THEN Paged(got) ELSE [got EXCEPT !.page = @ + 1]]
  BY <1>1, <1>4 DEF PageServed
<1>6. scan[w].pc = "paging"
  BY DEF PageServed
<1>. HIDE DEF R
<1>7. CASE last
  <2>1. /\ Paged(got) \in Scans
        /\ ScanInv(w, Paged(got), R, past.lasting[w], past.ever[w], past.deleted[w], past.odd)
    BY <1>2, <1>3, PagedInv
  <2>. QED
    BY <1>5, <1>6, <1>7, <2>1, SamePast, ScanStep DEF R, ListingInv, ListingTypes, ScanMoves
<1>8. CASE ~last
  <2>1. PICK s : s = [got EXCEPT !.page = @ + 1]
    OBVIOUS
  <2>2. got.page + 1 \in 0 .. MaxPages - 1
    BY <1>3, <1>4, <1>8, PageAssumption DEF LastPage, Scans
  <2>3. s \in Scans /\ s.objects = got.objects /\ s.pc = "paging"
    BY <1>3, <2>1, <2>2 DEF Scans
  <2>4. ScanInv(w, s, R, past.lasting[w], past.ever[w], past.deleted[w], past.odd)
    BY <1>2, <1>3, <2>3 DEF ScanInv
  <2>. QED
    BY <1>5, <1>6, <1>8, <2>1, <2>3, <2>4, SamePast, ScanStep
       DEF R, ListingInv, ListingTypes, ScanMoves
<1>. QED
  BY <1>7, <1>8

LEMMA OddPageStep ==
  ASSUME ListingInv, NEW w \in Workspaces, OddPage(w)
  PROVE  ListingInv'
<1>1. PICK got \in {scan[w], WithPage(w, 0)} :
        /\ scan' = [scan EXCEPT ![w] = Paged(got)]
        /\ past' = [past EXCEPT !.odd = past.odd \union {w}]
        /\ hub' = hub /\ listing' = listing /\ scan[w].pc = "paging"
  BY DEF OddPage, AnswersOddly
<1>2. /\ ToSet(Records(w)) \in SUBSET Uids /\ past.lasting[w] \in SUBSET ToSet(Records(w))
      /\ ToSet(Records(w)) \subseteq past.ever[w]
      /\ past.deleted[w] \in Nat /\ past.odd \in SUBSET Workspaces
  BY Basics DEF ListingInv
<1>3. /\ got \in Scans /\ got.objects \subseteq past.ever[w]
      /\ Cardinality(got.objects \ ToSet(Records(w))) <= past.deleted[w]
  <2>1. /\ scan[w] \in Scans /\ scan[w].objects \subseteq past.ever[w]
        /\ Cardinality(scan[w].objects \ ToSet(Records(w))) <= past.deleted[w]
    BY Basics DEF ListingInv, ScanInv
  <2>2. LET page == WithPage(w, 0) IN
          /\ page \in Scans /\ page.objects \subseteq past.ever[w]
          /\ Cardinality(page.objects \ ToSet(Records(w))) <= past.deleted[w]
    BY WithPageIs
  <2>. QED  BY <1>1, <2>1, <2>2
<1>4. PICK odd \in SUBSET Workspaces : odd = past.odd \union {w}
  BY <1>2
<1>5. /\ Paged(got) \in Scans
      /\ ScanInv(w, Paged(got), ToSet(Records(w)), past.lasting[w], past.ever[w],
                 past.deleted[w], odd)
  BY <1>2, <1>3, <1>4, PagedInv
<1>6. ScanMoves(w, Paged(got), odd)
  BY <1>1, <1>4 DEF ScanMoves
<1>. QED
  BY <1>1, <1>4, <1>5, <1>6, ScanStep

LEMMA ObjectStep ==
  ASSUME ListingInv, NEW w \in Workspaces, NEW u \in Uids,
         ObjectServed(w, u) \/ OddObject(w, u)
  PROVE  ListingInv'
<1>1. CASE ObjectServed(w, u)
  <2>1. /\ scan[w].pc = "fetching" /\ past.odd \in SUBSET Workspaces
        /\ ScanMoves(w, Fetched(scan[w], u, {u}), past.odd)
    BY <1>1, SamePast DEF ListingInv, ListingTypes, ObjectServed, ScanMoves
  <2>2. /\ Fetched(scan[w], u, {u}) \in Scans
        /\ ScanInv(w, Fetched(scan[w], u, {u}), ToSet(Records(w)), past.lasting[w],
                   past.ever[w], past.deleted[w], past.odd)
    BY <2>1, Basics, FetchedInv DEF ListingInv
  <2>. QED  BY <2>1, <2>2, ScanStep
<1>2. CASE OddObject(w, u)
  <2>1. PICK odd \in SUBSET Workspaces : odd = past.odd \union {w}
    BY DEF ListingInv, ListingTypes
  <2>2. scan[w].pc = "fetching" /\ ScanMoves(w, Fetched(scan[w], u, {}), odd)
    BY <1>2, <2>1 DEF OddObject, AnswersOddly, ScanMoves
  <2>3. /\ Fetched(scan[w], u, {}) \in Scans
        /\ ScanInv(w, Fetched(scan[w], u, {}), ToSet(Records(w)), past.lasting[w],
                   past.ever[w], past.deleted[w], odd)
    <3>1. w \in odd /\ {} \in SUBSET Uids
      BY <2>1
    <3>. QED  BY <2>2, <3>1, Basics, FetchedInv DEF ListingInv
  <2>. QED  BY <2>1, <2>2, <2>3, ScanStep
<1>. QED
  BY <1>1, <1>2

LEMMA ServedStep ==
  ASSUME ListingInv, NEW w \in Workspaces, Served(w)
  PROVE  ListingInv'
  BY PageServedStep, UnknownTypeStep, OddPageStep, ObjectStep, ScanFailsStep DEF Served

----------------------------------------------------------------------------
(* The steps of the people who edit the hub.                               *)

(* An edit of w's records leaves the rest as it is.                        *)
HubMoves(w, r, deleted, lasting, ever) ==
  /\ scan' = scan /\ listing' = listing
  /\ hub' = [hub EXCEPT !.records = [hub.records EXCEPT ![w] = r]]
  /\ past'.odd = past.odd
  /\ past'.changes \in 0 .. MaxChanges
  /\ past' = [changes |-> past'.changes, odd |-> past.odd,
              deleted |-> [past.deleted EXCEPT ![w] = deleted],
              lasting |-> [past.lasting EXCEPT ![w] = lasting],
              ever    |-> [past.ever EXCEPT ![w] = ever]]

LEMMA HubStep ==
  ASSUME ListingInv, NEW w \in Workspaces, NEW r \in Seq(Uids), NoRepeats(r),
         NEW d \in Nat, NEW L \in SUBSET Uids, NEW E \in SUBSET Uids,
         HubMoves(w, r, d, L, E),
         ScanInv(w, scan[w], ToSet(r), L, E, d, past.odd)
  PROVE  ListingInv'
<1>1. /\ hub' \in [paging : BOOLEAN, imported : SUBSET Workspaces,
                   records : [Workspaces -> Seq(Uids)]]
      /\ \A v \in Workspaces : Records(v)' = IF v = w THEN r ELSE Records(v)
  <2>. DEFINE rs == [hub.records EXCEPT ![w] = r]
  <2>1. /\ rs \in [Workspaces -> Seq(Uids)]
        /\ \A v \in Workspaces : rs[v] = IF v = w THEN r ELSE hub.records[v]
    BY DEF ListingInv, ListingTypes
  <2>2. hub' = [hub EXCEPT !.records = rs]
    BY DEF HubMoves
  <2>. HIDE DEF rs
  <2>. QED  BY <2>1, <2>2 DEF ListingInv, ListingTypes, Records
<1>2. /\ past' \in [changes : 0 .. MaxChanges, odd : SUBSET Workspaces,
                    deleted : [Workspaces -> Nat],
                    lasting : [Workspaces -> SUBSET Uids],
                    ever    : [Workspaces -> SUBSET Uids]]
      /\ \A v \in Workspaces : past'.deleted[v] = IF v = w THEN d ELSE past.deleted[v]
      /\ \A v \in Workspaces : past'.lasting[v] = IF v = w THEN L ELSE past.lasting[v]
      /\ \A v \in Workspaces : past'.ever[v] = IF v = w THEN E ELSE past.ever[v]
  <2>. DEFINE ds == [past.deleted EXCEPT ![w] = d]
              ls == [past.lasting EXCEPT ![w] = L]
              es == [past.ever EXCEPT ![w] = E]
  <2>1. /\ ds \in [Workspaces -> Nat]
        /\ ls \in [Workspaces -> SUBSET Uids]
        /\ es \in [Workspaces -> SUBSET Uids]
    BY DEF ListingInv, ListingTypes
  <2>2. /\ \A v \in Workspaces : ds[v] = IF v = w THEN d ELSE past.deleted[v]
        /\ \A v \in Workspaces : ls[v] = IF v = w THEN L ELSE past.lasting[v]
        /\ \A v \in Workspaces : es[v] = IF v = w THEN E ELSE past.ever[v]
    <3>1. \A v \in Workspaces : ds[v] = IF v = w THEN d ELSE past.deleted[v]
      BY DEF ListingInv, ListingTypes
    <3>2. \A v \in Workspaces : ls[v] = IF v = w THEN L ELSE past.lasting[v]
      BY DEF ListingInv, ListingTypes
    <3>3. \A v \in Workspaces : es[v] = IF v = w THEN E ELSE past.ever[v]
      BY DEF ListingInv, ListingTypes
    <3>. HIDE DEF ds, ls, es
    <3>. QED  BY <3>1, <3>2, <3>3
  <2>3. PICK c \in 0 .. MaxChanges :
          past' = [changes |-> c, odd |-> past.odd,
                   deleted |-> ds, lasting |-> ls, ever |-> es]
    BY DEF HubMoves
  <2>5. past.odd \in SUBSET Workspaces
    BY DEF ListingInv, ListingTypes
  <2>. HIDE DEF ds, ls, es
  <2>4. past'.deleted = ds /\ past'.lasting = ls /\ past'.ever = es
    BY <2>3
  <2>6. past' \in [changes : 0 .. MaxChanges, odd : SUBSET Workspaces,
                   deleted : [Workspaces -> Nat],
                   lasting : [Workspaces -> SUBSET Uids],
                   ever    : [Workspaces -> SUBSET Uids]]
    BY <2>1, <2>3, <2>5
  <2>. QED  BY <2>2, <2>4, <2>6
<1>3. ListingTypes'
  <2>1. \A v \in Workspaces : NoRepeats(Records(v)')
    BY <1>1 DEF ListingInv, ListingTypes
  <2>. QED  BY <1>1, <1>2, <2>1 DEF HubMoves, ListingInv, ListingTypes
<1>4. ASSUME NEW v \in Workspaces
      PROVE  ScanInv(v, scan'[v], ToSet(Records(v)'), past'.lasting[v], past'.ever[v],
                     past'.deleted[v], past'.odd)
  <2>1. scan' = scan /\ past'.odd = past.odd
    BY DEF HubMoves
  <2>2. CASE v = w
    <3>1. /\ Records(v)' = r /\ past'.lasting[v] = L /\ past'.ever[v] = E
          /\ past'.deleted[v] = d
      BY <1>1, <1>2, <2>2
    <3>. QED  BY <2>1, <2>2, <3>1
  <2>3. CASE v # w
    <3>1. /\ Records(v)' = Records(v) /\ past'.lasting[v] = past.lasting[v]
          /\ past'.ever[v] = past.ever[v] /\ past'.deleted[v] = past.deleted[v]
      BY <1>1, <1>2, <2>3
    <3>2. ScanInv(v, scan[v], ToSet(Records(v)), past.lasting[v], past.ever[v],
                  past.deleted[v], past.odd)
      BY DEF ListingInv, ScansInv
    <3>. QED  BY <2>1, <3>1, <3>2
  <2>. QED  BY <2>2, <2>3
<1>5. ScansInv'
  BY <1>4 DEF ScansInv
<1>6. CallInv'
  <2>1. listing' = listing /\ Asked' = Asked /\ scan' = scan
    BY DEF HubMoves, Asked
  <2>. QED  BY <2>1 DEF ListingInv, CallInv
<1>. QED
  BY <1>3, <1>5, <1>6 DEF ListingInv

LEMMA HubAddsStep ==
  ASSUME ListingInv, NEW w \in Workspaces, NEW u \in Uids, HubAdds(w, u)
  PROVE  ListingInv'
<1>. DEFINE R == ToSet(Records(w))
<1>1. PICK i \in 1 .. Len(Records(w)) + 1 :
        hub' = [hub EXCEPT !.records[w] = InsertAt(@, i, u)]
  BY DEF HubAdds
<1>. DEFINE r == InsertAt(Records(w), i, u)
            E == past.ever[w] \union {u}
<1>2. r \in Seq(Uids) /\ NoRepeats(r) /\ ToSet(r) = R \union {u}
  BY Basics, Inserted DEF HubAdds, ListingInv
<1>3. HubMoves(w, r, past.deleted[w], past.lasting[w], E)
  <2>1. hub' = [hub EXCEPT !.records = [hub.records EXCEPT ![w] = r]]
    BY <1>1 DEF ListingInv, ListingTypes, Records
  <2>2. past.changes + 1 \in 0 .. MaxChanges
    BY PageAssumption DEF ListingInv, ListingTypes, HubAdds
  <2>3. past' = [past EXCEPT !.changes = @ + 1, !.ever[w] = @ \union {u}]
    BY DEF HubAdds
  <2>. HIDE DEF r
  <2>. QED  BY <2>1, <2>2, <2>3 DEF ListingInv, ListingTypes, HubAdds, HubMoves
<1>. HIDE DEF r, R
<1>4. ScanInv(w, scan[w], ToSet(r), past.lasting[w], E, past.deleted[w], past.odd)
  <2>1. /\ scan[w] \in Scans /\ R \in SUBSET Uids /\ past.deleted[w] \in Nat
        /\ ScanInv(w, scan[w], R, past.lasting[w], past.ever[w], past.deleted[w], past.odd)
    BY Basics DEF ListingInv, R
  <2>2. Cardinality(scan[w].objects \ ToSet(r)) <= Cardinality(scan[w].objects \ R)
    <3>1. scan[w].objects \ R \in SUBSET Uids
      BY <2>1 DEF Scans
    <3>2. scan[w].objects \ ToSet(r) \in SUBSET (scan[w].objects \ R)
      BY <1>2
    <3>. QED  BY <3>1, <3>2, Fewer
  <2>3. /\ Cardinality(scan[w].objects \ ToSet(r)) \in Nat
        /\ Cardinality(scan[w].objects \ R) \in Nat
    BY <2>1, FiniteRecords DEF Scans
  <2>4. Cardinality(scan[w].objects \ ToSet(r)) <= past.deleted[w]
    BY <2>1, <2>2, <2>3 DEF ScanInv
  <2>. QED  BY <1>2, <2>1, <2>4 DEF ScanInv
<1>5. past.lasting[w] \in SUBSET Uids /\ E \in SUBSET Uids /\ past.deleted[w] \in Nat
  BY DEF ListingInv, ListingTypes
<1>. HIDE DEF E
<1>. QED
  BY <1>2, <1>3, <1>4, <1>5, HubStep

LEMMA HubDeletesStep ==
  ASSUME ListingInv, NEW w \in Workspaces, NEW u \in Uids, HubDeletes(w, u)
  PROVE  ListingInv'
<1>. DEFINE R == ToSet(Records(w))
            O == scan[w].objects
            L == past.lasting[w] \ {u}
            d == past.deleted[w] + 1
<1>1. PICK i \in DOMAIN Records(w) :
        /\ Records(w)[i] = u
        /\ hub' = [hub EXCEPT !.records[w] = RemoveAt(@, i)]
  BY DEF HubDeletes
<1>. DEFINE r == RemoveAt(Records(w), i)
<1>2. r \in Seq(Uids) /\ NoRepeats(r) /\ ToSet(r) = R \ {u}
  <2>1. Records(w) \in Seq(Uids) /\ NoRepeats(Records(w))
    BY Basics DEF ListingInv
  <2>2. i \in 1 .. Len(Records(w))
    BY <2>1, SetOfSeq
  <2>. QED  BY <1>1, <2>1, <2>2, Removed
<1>3. HubMoves(w, r, d, L, past.ever[w])
  <2>1. hub' = [hub EXCEPT !.records = [hub.records EXCEPT ![w] = r]]
    BY <1>1 DEF ListingInv, ListingTypes, Records
  <2>2. past.changes + 1 \in 0 .. MaxChanges
    BY PageAssumption DEF ListingInv, ListingTypes, HubDeletes
  <2>3. past' = [past EXCEPT !.changes = @ + 1, !.deleted[w] = @ + 1,
                             !.lasting[w] = @ \ {u}]
    BY DEF HubDeletes
  <2>. HIDE DEF r
  <2>. QED  BY <2>1, <2>2, <2>3 DEF ListingInv, ListingTypes, HubDeletes, HubMoves
<1>4. /\ scan[w] \in Scans /\ R \in SUBSET Uids /\ past.deleted[w] \in Nat
      /\ past.lasting[w] \in SUBSET Uids
      /\ ScanInv(w, scan[w], R, past.lasting[w], past.ever[w], past.deleted[w], past.odd)
  BY Basics DEF ListingInv
<1>5. O \in SUBSET Uids
  BY <1>4 DEF Scans
<1>6. Cardinality(O \ R) <= past.deleted[w]
  BY <1>4 DEF ScanInv
<1>. HIDE DEF r, R
<1>7. ScanInv(w, scan[w], ToSet(r), L, past.ever[w], d, past.odd)
  <2>1. Cardinality(O \ ToSet(r)) <= d
    <3>1. /\ IsFiniteSet(O \ R) /\ Cardinality(O \ R) \in Nat
          /\ Cardinality((O \ R) \union {u}) \in Nat
          /\ Cardinality(O \ ToSet(r)) \in Nat
      BY <1>5, FiniteRecords
    <3>2. Cardinality((O \ R) \union {u}) <= Cardinality(O \ R) + 1
      <4>. DEFINE M == O \ R
      <4>1. IsFiniteSet(M) /\ Cardinality(M) \in Nat
        BY <3>1
      <4>. HIDE DEF M
      <4>2. Cardinality(M \union {u})
              = IF u \in M THEN Cardinality(M) ELSE Cardinality(M) + 1
        BY <4>1, FS_AddElement
      <4>3. Cardinality(M \union {u}) <= Cardinality(M) + 1
        BY <4>1, <4>2
      <4>. QED  BY <4>3 DEF M
    <3>3. Cardinality(O \ ToSet(r)) <= Cardinality((O \ R) \union {u})
      <4>1. O \ ToSet(r) \in SUBSET ((O \ R) \union {u}) /\ (O \ R) \union {u} \in SUBSET Uids
        BY <1>2, <1>5
      <4>. QED  BY <4>1, Fewer
    <3>. QED  BY <1>4, <1>6, <3>1, <3>2, <3>3
  <2>2. Cardinality(L \ O) <= Cardinality(past.lasting[w] \ O)
    <3>1. L \ O \in SUBSET (past.lasting[w] \ O) /\ past.lasting[w] \ O \in SUBSET Uids
      BY <1>4
    <3>. QED  BY <3>1, Fewer
  <2>3. Cardinality(L \ O) \in Nat /\ Cardinality(past.lasting[w] \ O) \in Nat
    BY <1>4, FiniteRecords
  <2>4. L \subseteq ToSet(r) /\ ToSet(r) \subseteq past.ever[w]
    BY <1>2, <1>4 DEF ScanInv
  <2>5. Cardinality(past.lasting[w] \ O) <= past.deleted[w] => Cardinality(L \ O) <= d
    BY <1>4, <2>2, <2>3
  <2>. QED  BY <1>4, <2>1, <2>4, <2>5 DEF ScanInv
<1>8. d \in Nat /\ L \in SUBSET Uids /\ past.ever[w] \in SUBSET Uids
  BY <1>4 DEF ListingInv, ListingTypes
<1>. HIDE DEF d, L
<1>. QED
  BY <1>2, <1>3, <1>7, <1>8, HubStep

----------------------------------------------------------------------------
(* The beginning, the call and its answer.                                 *)

(* An order of some workspaces has each of them once. *)
LEMMA PermutedIds ==
  ASSUME NEW ids \in SetToAllKPermutations(Workspaces)
  PROVE  ids \in Seq(Workspaces) /\ NoRepeats(ids)
<1>1. PICK S \in SUBSET Workspaces : ids \in SetToSeqs(S)
  BY DEF SetToAllKPermutations
<1>2. Cardinality(S) \in Nat
  BY NameAssumption, FS_Subset, FS_CardinalityType
<1>3. /\ ids \in [1 .. Cardinality(S) -> S]
      /\ \A i, j \in 1 .. Cardinality(S) : i # j => ids[i] # ids[j]
  BY <1>1 DEF SetToSeqs
<1>4. ids \in Seq(Workspaces)
  <2>1. ids \in Seq(S)
    BY <1>2, <1>3, SeqDef
  <2>. QED  BY <2>1, SeqMonotonic
<1>5. NoRepeats(ids)
  BY <1>3 DEF NoRepeats
<1>. QED
  BY <1>4, <1>5

(* So have the ids that a listing goes through. *)
LEMMA AskableIds ==
  ASSUME NEW only \in Workspaces \union {NoWorkspace}, NEW ids \in WorkspaceIds(only)
  PROVE  ids \in Seq(Workspaces) /\ NoRepeats(ids)
<1>1. CASE only = NoWorkspace
  BY <1>1, PermutedIds DEF WorkspaceIds, ListWorkspaces
<1>2. CASE only \in Workspaces
  <2>1. ids = <<only>> \/ ids = <<>>
    BY <1>2, NameAssumption DEF WorkspaceIds
  <2>2. <<only>> \in Seq(Workspaces) /\ <<>> \in Seq(Workspaces)
    BY <1>2
  <2>3. NoRepeats(<<only>>) /\ NoRepeats(<<>>)
    BY DEF NoRepeats
  <2>. QED  BY <2>1, <2>2, <2>3
<1>. QED
  BY <1>1, <1>2

LEMMA InitListing == ListingInit => ListingInv
<1>. SUFFICES ASSUME ListingInit  PROVE ListingInv
  OBVIOUS
<1>1. Unread \in Scans /\ Unread.objects = {} /\ Unread.pc = "idle"
  BY PageAssumption DEF Unread, Scans, Notes
<1>. HIDE DEF Unread
<1>2. /\ hub \in [paging : BOOLEAN, imported : SUBSET Workspaces,
                  records : [Workspaces -> Seq(Uids)]]
      /\ \A w \in Workspaces : Records(w) \in Seq(Uids) /\ NoRepeats(Records(w))
  <2>1. /\ hub \in [paging : BOOLEAN, imported : SUBSET Workspaces,
                    records : [Workspaces -> Beginnings]]
    BY DEF ListingInit, Hubs
  <2>2. \A w \in Workspaces : Records(w) \in Beginnings
    BY <2>1 DEF Records
  <2>3. hub.records \in [Workspaces -> Seq(Uids)]
    BY <2>1, NameAssumption
  <2>. QED  BY <2>1, <2>2, <2>3, NameAssumption
<1>3. \A w \in Workspaces : ToSet(Records(w)) \in SUBSET Uids
  BY <1>2, SetOfSeq
<1>4. /\ past.odd = {} /\ past.deleted = [w \in Workspaces |-> 0]
      /\ past.lasting = [w \in Workspaces |-> ToSet(Records(w))]
      /\ past.ever = [w \in Workspaces |-> ToSet(Records(w))]
  BY DEF ListingInit, Records
<1>5. listing \in Listings /\ listing.ids = <<>> /\ listing.devices = {}
      /\ listing.status = "idle"
  BY DEF ListingInit, NotAsked, Listings
<1>6. ListingTypes
  <2>1. past.changes = 0
    BY DEF ListingInit
  <2>2. past = [changes |-> 0, odd |-> {}, deleted |-> [w \in Workspaces |-> 0],
                lasting |-> [w \in Workspaces |-> ToSet(Records(w))],
                ever    |-> [w \in Workspaces |-> ToSet(Records(w))]]
    BY DEF ListingInit, Records
  <2>3. 0 \in 0 .. MaxChanges
    BY PageAssumption
  <2>4. past \in [changes : 0 .. MaxChanges, odd : SUBSET Workspaces,
                  deleted : [Workspaces -> Nat],
                  lasting : [Workspaces -> SUBSET Uids],
                  ever    : [Workspaces -> SUBSET Uids]]
    BY <1>3, <2>2, <2>3
  <2>5. scan \in [Workspaces -> Scans]
    BY <1>1 DEF ListingInit
  <2>. QED  BY <1>2, <1>5, <2>4, <2>5 DEF ListingTypes
<1>7. ASSUME NEW w \in Workspaces
      PROVE  ScanInv(w, scan[w], ToSet(Records(w)), past.lasting[w], past.ever[w],
                     past.deleted[w], past.odd)
  <2>1. scan[w] = Unread
    BY DEF ListingInit
  <2>2. Cardinality(scan[w].objects \ ToSet(Records(w))) = 0
    BY <1>1, <2>1, NothingGone
  <2>3. /\ past.lasting[w] = ToSet(Records(w)) /\ past.ever[w] = ToSet(Records(w))
        /\ past.deleted[w] = 0
    BY <1>4
  <2>. QED  BY <1>1, <2>1, <2>2, <2>3 DEF ScanInv
<1>8. CallInv
  <2>1. NoRepeats(listing.ids)
    BY <1>5 DEF NoRepeats
  <2>2. \A w \in Workspaces : scan[w].pc = "idle"
    BY <1>1 DEF ListingInit
  <2>. QED  BY <1>5, <2>1, <2>2 DEF CallInv
<1>. QED
  BY <1>6, <1>7, <1>8 DEF ListingInv, ScansInv

LEMMA CallStep ==
  ASSUME ListingInv, NEW only \in Workspaces \union {NoWorkspace}, Call(only)
  PROVE  ListingInv'
<1>1. PICK ids \in Seq(Workspaces) :
        /\ NoRepeats(ids)
        /\ listing'.ids = ids /\ listing'.devices = {} /\ listing' \in Listings
        /\ listing'.status \notin {"idle", "answered"}
        /\ scan' = [w \in Workspaces |-> IF w \in ToSet(ids) THEN Begun ELSE Unread] \/ (ids = <<>> /\ scan' = scan)
  <2>1. ASSUME NEW ids \in WorkspaceIds(only),
               listing' = [NotAsked EXCEPT !.status = IF ids = <<>> THEN "refused"
                                                      ELSE "reading",
                                           !.ids = ids],
               scan' = [w \in Workspaces |-> IF w \in ToSet(ids) THEN Begun ELSE Unread]
        PROVE  /\ ids \in Seq(Workspaces) /\ NoRepeats(ids)
               /\ listing'.ids = ids /\ listing'.devices = {} /\ listing' \in Listings
               /\ listing'.status \notin {"idle", "answered"}
    BY <2>1, AskableIds DEF NotAsked, Listings
  <2>2. ASSUME listing' = [NotAsked EXCEPT !.status = "error"]
        PROVE  /\ <<>> \in Seq(Workspaces) /\ NoRepeats(<<>>)
               /\ listing'.ids = <<>> /\ listing'.devices = {} /\ listing' \in Listings
               /\ listing'.status \notin {"idle", "answered"}
    <3>1. <<>> \in Seq(Workspaces) /\ NoRepeats(<<>>)
      BY DEF NoRepeats
    <3>2. listing' = [status |-> "error", ids |-> <<>>, devices |-> {}, notes |-> {}]
      BY <2>2 DEF NotAsked
    <3>. QED  BY <3>1, <3>2 DEF Listings
  <2>. QED  BY <2>1, <2>2 DEF Call
<1>2. hub' = hub /\ past' = past /\ listing.ids = <<>>
  BY DEF Call, ListingInv, CallInv
<1>3. \A w \in Workspaces : scan[w].pc = "idle" /\ scan[w].objects = {} /\ scan[w] \in Scans
  <2>1. Asked = {}
    BY <1>2 DEF Asked, ToSet
  <2>. QED  BY <2>1, Basics DEF ListingInv, CallInv, ScanInv
<1>4. /\ Unread \in Scans /\ Unread.objects = {} /\ Unread.pc = "idle"
      /\ Begun \in Scans /\ Begun.objects = {} /\ Begun.pc = "paging"
  <2>1. Unread \in Scans /\ Unread.objects = {} /\ Unread.pc = "idle"
    BY PageAssumption DEF Unread, Scans, Notes
  <2>. QED  BY <2>1 DEF Begun, Scans
<1>5. /\ scan' \in [Workspaces -> Scans]
      /\ \A w \in Workspaces : /\ scan'[w].objects = {} /\ scan'[w].pc \in {"idle", "paging"}
                               /\ w \notin ToSet(ids) => scan'[w].pc = "idle"
  <2>1. CASE scan' = scan
    BY <1>3, <2>1 DEF ListingInv, ListingTypes
  <2>2. CASE scan' = [w \in Workspaces |-> IF w \in ToSet(ids) THEN Begun ELSE Unread]
    BY <1>4, <2>2
  <2>. QED  BY <1>1, <2>1, <2>2
<1>6. ListingTypes'
  BY <1>1, <1>2, <1>5 DEF ListingInv, ListingTypes, Records
<1>7. ASSUME NEW w \in Workspaces
      PROVE  ScanInv(w, scan'[w], ToSet(Records(w)'), past'.lasting[w], past'.ever[w],
                     past'.deleted[w], past'.odd)
  <2>1. Records(w)' = Records(w)
    BY <1>2 DEF Records
  <2>2. Cardinality(scan'[w].objects \ ToSet(Records(w))) = 0
    BY <1>5, NothingGone
  <2>3. /\ past.lasting[w] \subseteq ToSet(Records(w))
        /\ ToSet(Records(w)) \subseteq past.ever[w]
        /\ past.deleted[w] \in Nat
    BY Basics DEF ListingInv
  <2>. QED  BY <1>2, <1>5, <2>1, <2>2, <2>3 DEF ScanInv
<1>8. CallInv'
  <2>1. Asked' = ToSet(ids)
    BY <1>1 DEF Asked
  <2>. QED  BY <1>1, <1>5, <2>1 DEF CallInv
<1>. QED
  BY <1>6, <1>7, <1>8 DEF ListingInv, ScansInv

(* What an answer is made of.                                              *)
LEMMA AnswerListingIs ==
  ASSUME ListingInv, AnswerListing
  PROVE  /\ hub' = hub /\ scan' = scan /\ past' = past
         /\ listing'.ids = listing.ids /\ listing' \in Listings
         /\ \A w \in Asked : scan[w].pc \in {"read", "failed"}
         /\ listing'.status \in {"error", "answered"}
         /\ listing'.status = "error" => listing'.devices = {}
         /\ listing'.status = "answered" =>
              /\ listing'.devices = Merged
              /\ \A w \in Asked : scan[w].pc = "failed" \/ scan[w].note # "none"
                                 => \E note \in listing'.notes : note[1] = w
<1>. DEFINE failed == {w \in Asked : scan[w].pc = "failed"}
            notes == {<<w, "failed">> : w \in failed}
                       \union {<<w, scan[w].note>> :
                                 w \in {v \in Asked : scan[v].note # "none"}}
<1>1. /\ listing.status = "reading" /\ hub' = hub /\ scan' = scan /\ past' = past
      /\ \A w \in Asked : scan[w].pc \in {"read", "failed"}
      /\ listing' = IF failed = Asked THEN [listing EXCEPT !.status = "error"]
                    ELSE [listing EXCEPT !.status = "answered", !.devices = Merged,
                                         !.notes = notes]
  BY DEF AnswerListing, Ended
<1>2. listing \in Listings /\ listing.devices = {}
  BY <1>1 DEF ListingInv, ListingTypes, CallInv
<1>3. Asked \subseteq Workspaces
  BY <1>2, SetOfSeq DEF Asked, Listings
<1>4. Merged \in SUBSET Devices
  BY <1>3 DEF Merged, Gathered, Devices, ListingInv, ListingTypes, Scans
<1>5. notes \in SUBSET (Workspaces \X {"short", "untyped", "failed"})
  <2>1. ASSUME NEW w \in Asked, scan[w].note # "none"
        PROVE  scan[w].note \in {"short", "untyped"}
    BY <1>3, <2>1 DEF ListingInv, ListingTypes, Scans, Notes
  <2>. QED  BY <1>3, <2>1
<1>6. \A w \in Asked : scan[w].pc = "failed" \/ scan[w].note # "none"
                      => \E note \in notes : note[1] = w
  <2>1. ASSUME NEW w \in Asked, scan[w].pc = "failed"
        PROVE  \E note \in notes : note[1] = w
    <3>1. <<w, "failed">> \in notes
      BY <2>1
    <3>. QED  BY <3>1
  <2>2. ASSUME NEW w \in Asked, scan[w].note # "none"
        PROVE  \E note \in notes : note[1] = w
    <3>1. <<w, scan[w].note>> \in notes
      BY <2>2
    <3>. QED  BY <3>1
  <2>. QED  BY <2>1, <2>2
<1>. HIDE DEF failed, notes
<1>7. CASE failed = Asked
  BY <1>1, <1>2, <1>7 DEF Listings
<1>8. CASE failed # Asked
  BY <1>1, <1>2, <1>4, <1>5, <1>6, <1>8 DEF Listings
<1>. QED
  BY <1>7, <1>8

LEMMA AnswerListingStep ==
  ASSUME ListingInv, AnswerListing
  PROVE  ListingInv'
<1>1. Asked' = Asked
  BY AnswerListingIs DEF Asked
<1>2. ListingTypes'
  BY AnswerListingIs DEF ListingInv, ListingTypes, Records
<1>3. ScansInv'
  BY AnswerListingIs DEF ListingInv, ScansInv, Records
<1>4. CallInv'
  <2>1. \A w \in Workspaces : scan'[w].pc \notin {"paging", "fetching"}
    BY AnswerListingIs DEF ListingInv, CallInv
  <2>. QED  BY <1>1, <2>1, AnswerListingIs DEF ListingInv, CallInv
<1>. QED
  BY <1>2, <1>3, <1>4 DEF ListingInv

(* Nothing happens. *)
LEMMA IdleListing ==
  ASSUME ListingInv, UNCHANGED listingVars
  PROVE  ListingInv'
  BY DEF ListingInv, ListingTypes, ScansInv, CallInv, Records, Asked, listingVars

LEMMA ListingInvariance == ListingSpec => []ListingInv
<1>1. ListingInv /\ [ListingNext]_listingVars => ListingInv'
  BY CallStep, ServedStep, HubAddsStep, HubDeletesStep, AnswerListingStep, IdleListing
     DEF ListingNext, HubChanges
<1>. QED
  BY InitListing, <1>1, PTL DEF ListingSpec

(* The variables keep their types: no page past the last is asked for.     *)
THEOREM TypesOfListings == ListingSpec => []ListingTypes
  BY ListingInvariance, PTL DEF ListingInv

----------------------------------------------------------------------------
(* What the answer says.                                                   *)

(* The ids of a listing are those that it is asked for. *)
LEMMA IdsAreASeq ==
  ASSUME ListingInv
  PROVE  /\ listing.ids \in Seq(Workspaces) /\ NoRepeats(listing.ids)
         /\ DOMAIN listing.ids = 1 .. Len(listing.ids) /\ Len(listing.ids) \in Nat
         /\ Asked \subseteq Workspaces
         /\ \A i \in DOMAIN listing.ids : listing.ids[i] \in Asked
         /\ \A w \in Asked : \E i \in DOMAIN listing.ids : listing.ids[i] = w
<1>1. listing.ids \in Seq(Workspaces) /\ NoRepeats(listing.ids)
  BY DEF ListingInv, ListingTypes, Listings, CallInv
<1>. QED
  BY <1>1, SetOfSeq DEF Asked, ToSet

(* A record is merged from the first workspace that has it.                *)
LEMMA FirstIsMerged ==
  ASSUME ListingInv, NEW w \in Asked, NEW u \in scan[w].objects, u \in Wanted,
         \A i, j \in DOMAIN listing.ids :
           i <= j /\ listing.ids[j] = w /\ u \in scan[listing.ids[i]].objects
             => u \in scan[listing.ids[i]].known
  PROVE  \E device \in Merged : device.uid = u
<1>. DEFINE T == {i \in DOMAIN listing.ids : u \in scan[listing.ids[i]].objects}
<1>1. PICK n \in T : listing.ids[n] = w
  BY IdsAreASeq
<1>2. PICK i \in T : \A j \in T : i <= j
  <2>1. T \in SUBSET Nat /\ T # {}
    BY <1>1, IdsAreASeq
  <2>. QED  BY <2>1, Least
<1>. DEFINE v == listing.ids[i]
            device == [uid |-> u, workspace |-> v]
<1>3. v \in Asked /\ u \in scan[v].objects /\ u \in scan[v].known
  BY <1>1, <1>2, IdsAreASeq
<1>4. device \in [uid : scan[v].objects, workspace : {v}]
  BY <1>3
<1>5. device \in Gathered
  BY <1>3, <1>4 DEF Gathered
<1>6. ~SeenBefore(device)
  <2>1. SUFFICES ASSUME NEW k \in DOMAIN listing.ids, NEW j \in DOMAIN listing.ids,
                        k < j, listing.ids[j] = v, u \in scan[listing.ids[k]].objects
                 PROVE  FALSE
    BY DEF SeenBefore
  <2>2. j = i
    BY <1>2, <2>1, IdsAreASeq DEF NoRepeats
  <2>3. i <= k
    BY <1>2, <2>1
  <2>. QED  BY <2>1, <2>2, <2>3, IdsAreASeq
<1>7. Passes(device)
  BY <1>3 DEF Passes
<1>. QED
  BY <1>5, <1>6, <1>7 DEF Merged

Good == MissesAtMostTheDeleted /\ NothingInvented

(* Nothing is claimed before the answer. *)
LEMMA GoodWhileReading ==
  ASSUME ListingInv, listing.status # "answered"
  PROVE  Good
<1>1. listing.devices = {}
  BY DEF ListingInv, CallInv
<1>. QED
  BY <1>1 DEF Good, MissesAtMostTheDeleted, NothingInvented

(* An answer is good when it is given. *)
LEMMA GoodAnswer ==
  ASSUME ListingInv, AnswerListing
  PROVE  Good'
<1>1. CASE listing'.status = "error"
  <2>1. ListingInv'
    BY AnswerListingStep
  <2>2. listing'.devices = {}
    BY <1>1, AnswerListingIs
  <2>. QED
    BY <1>1, <2>2 DEF Good, MissesAtMostTheDeleted, NothingInvented
<1>2. CASE listing'.status = "answered"
  <2>1. /\ listing'.devices = Merged /\ Asked' = Asked /\ past' = past /\ scan' = scan
        /\ Listed' = {device.uid : device \in Merged}
    BY <1>2, AnswerListingIs DEF Asked, Listed
  <2>2. ASSUME NEW w \in Asked, w \notin past.odd, NEW u \in scan[w].objects
        PROVE  u \in scan[w].known
    <3>1. w \in Workspaces /\ scan[w].pc \in {"read", "failed"}
      BY AnswerListingIs, IdsAreASeq
    <3>2. ScanInv(w, scan[w], ToSet(Records(w)), past.lasting[w], past.ever[w],
                  past.deleted[w], past.odd)
      BY <3>1, Basics DEF ListingInv
    <3>. QED  BY <2>2, <3>1, <3>2 DEF ScanInv
  <2>3. NothingInvented'
    <3>1. ASSUME NEW device \in Merged
          PROVE  /\ device.workspace \in Asked /\ device.uid \in past.ever[device.workspace]
                 /\ device.uid \in Wanted \/ (BareWanted /\ device.workspace \in past.odd)
      <4>1. device \in Gathered /\ Passes(device)
        BY <3>1 DEF Merged
      <4>2. PICK v \in Asked : device \in [uid : scan[v].objects, workspace : {v}]
        BY <4>1 DEF Gathered
      <4>3. device.workspace = v /\ device.uid \in scan[v].objects /\ v \in Workspaces
        BY <4>2, IdsAreASeq
      <4>4. scan[v].objects \subseteq past.ever[v]
        BY <4>3, Basics DEF ListingInv, ScanInv
      <4>. QED  BY <2>2, <4>1, <4>2, <4>3, <4>4 DEF Passes
    <3>. QED  BY <2>1, <3>1 DEF NothingInvented
  <2>4. ASSUME NEW w \in Asked, ~OddUpTo(w),
               ~(\E note \in listing'.notes : note[1] = w)
        PROVE  Cardinality((past.lasting[w] \intersect Wanted) \ Listed')
                 <= past.deleted[w]
    <3>1. scan[w].pc = "read" /\ scan[w].note = "none" /\ w \in Workspaces
      BY <1>2, <2>4, AnswerListingIs, IdsAreASeq
    <3>2. ScanInv(w, scan[w], ToSet(Records(w)), past.lasting[w], past.ever[w],
                  past.deleted[w], past.odd)
      BY <3>1, Basics DEF ListingInv
    <3>3. w \notin past.odd
      <4>1. PICK n \in DOMAIN listing.ids : listing.ids[n] = w
        BY IdsAreASeq
      <4>2. n <= n
        BY <4>1, IdsAreASeq
      <4>. QED  BY <2>4, <4>1, <4>2 DEF OddUpTo
    <3>4. Cardinality(past.lasting[w] \ scan[w].objects) <= past.deleted[w]
      BY <3>1, <3>2, <3>3 DEF ScanInv
    <3>5. ASSUME NEW u \in scan[w].objects, u \in Wanted
          PROVE  u \in Listed'
      <4>1. ASSUME NEW i \in DOMAIN listing.ids, NEW j \in DOMAIN listing.ids, i <= j,
                   listing.ids[j] = w, u \in scan[listing.ids[i]].objects
            PROVE  u \in scan[listing.ids[i]].known
        <5>1. listing.ids[i] \notin past.odd
          BY <2>4, <4>1 DEF OddUpTo
        <5>. QED  BY <2>2, <4>1, <5>1, IdsAreASeq
      <4>. QED  BY <2>1, <3>5, <4>1, FirstIsMerged
    <3>6. /\ (past.lasting[w] \intersect Wanted) \ Listed'
               \in SUBSET (past.lasting[w] \ scan[w].objects)
          /\ past.lasting[w] \ scan[w].objects \in SUBSET Uids
      BY <3>1, <3>5 DEF ListingInv, ListingTypes
    <3>7. past.deleted[w] \in Nat
      BY <3>1 DEF ListingInv, ListingTypes
    <3>8. /\ Cardinality((past.lasting[w] \intersect Wanted) \ Listed') \in Nat
          /\ Cardinality(past.lasting[w] \ scan[w].objects) \in Nat
      BY <3>6, FiniteRecords
    <3>. QED  BY <3>4, <3>6, <3>7, <3>8, Fewer
  <2>5. MissesAtMostTheDeleted'
    <3>1. \A w : OddUpTo(w)' <=> OddUpTo(w)
      BY <2>1, AnswerListingIs DEF OddUpTo
    <3>. QED  BY <2>1, <2>4, <3>1 DEF MissesAtMostTheDeleted, Noted
  <2>. QED  BY <2>3, <2>5 DEF Good
<1>. QED
  BY <1>1, <1>2, AnswerListingIs

(* Once there is an answer nothing moves any more.                         *)
LEMMA AnsweredStays ==
  ASSUME ListingInv, ListingNext, listing.status = "answered"
  PROVE  FALSE
  BY DEF ListingInv, CallInv, ListingNext, Call, Served, PageServed, UnknownType, OddPage,
         ObjectServed, OddObject, ScanFails, HubChanges, HubAdds, HubDeletes, AnswerListing

LEMMA GoodStep ==
  ASSUME ListingInv, ListingInv', Good, [ListingNext]_listingVars
  PROVE  Good'
<1>1. CASE UNCHANGED listingVars
  BY <1>1 DEF Good, MissesAtMostTheDeleted, NothingInvented, Listed,
              Noted, OddUpTo, Asked, listingVars
<1>2. CASE ListingNext /\ listing.status # "answered" /\ listing'.status = "answered"
  <2>1. AnswerListing
    <3>1. ASSUME NEW only, Call(only) PROVE listing'.status # "answered"
      BY <3>1 DEF Call, NotAsked
    <3>2. ASSUME NEW w, Served(w) \/ HubChanges(w) PROVE listing' = listing
      BY <3>2 DEF Served, PageServed, UnknownType, OddPage, ObjectServed, OddObject,
                  AnswersOddly, ScanFails, HubChanges, HubAdds, HubDeletes
    <3>. QED  BY <1>2, <3>1, <3>2 DEF ListingNext
  <2>. QED  BY <2>1, GoodAnswer
<1>3. CASE ListingNext /\ listing'.status # "answered"
  <2>1. listing'.devices = {}
    BY <1>3 DEF ListingInv, CallInv
  <2>. QED  BY <1>3, <2>1 DEF Good, MissesAtMostTheDeleted, NothingInvented
<1>. QED
  BY <1>1, <1>2, <1>3, AnsweredStays

LEMMA GoodInvariance == ListingSpec => []Good
<1>1. ListingInit => Good
  <2>1. ListingInit => listing.status = "idle"
    BY DEF ListingInit, NotAsked
  <2>. QED  BY <2>1, InitListing, GoodWhileReading
<1>2. ListingInv /\ ListingInv' /\ Good /\ [ListingNext]_listingVars => Good'
  BY GoodStep
<1>. QED
  BY <1>1, <1>2, ListingInvariance, PTL DEF ListingSpec

(* Where the hub answers with the objects that the client expects, an      *)
(* inventory without a note about a workspace misses no more of its        *)
(* devices than were deleted from it during the call.                      *)
THEOREM ListingsAreComplete == ListingSpec => []MissesAtMostTheDeleted
  BY GoodInvariance, PTL DEF Good

(* Every device that is listed was a record of its workspace during the    *)
(* call, and passes the filters unless its attributes could not be read.   *)
THEOREM DevicesAreReal == ListingSpec => []NothingInvented
  BY GoodInvariance, PTL DEF Good
====
