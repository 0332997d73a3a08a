---- MODULE ConfirmedWritesProofs ----
(***************************************************************************)
(* What ConfirmedWrites guarantees for any people, tools, ids, number of   *)
(* calls in flight and TTL.  The inductive invariant ties the store to the *)
(* history: an entry stands for exactly one confirmation that nobody has   *)
(* presented yet, issued by this process.                                  *)
(***************************************************************************)
EXTENDS ConfirmedWrites, TLAPS

(* The confirmation a stored entry was issued for. *)
StandsFor(e, g) ==
  /\ e.id = g.id
  /\ e.digest = g.call
  /\ e.caller = CallerKey(g.from)
  /\ e.expires = g.at + TTL
  /\ g.life = life

StoreMatchesHistory ==
  \A e \in pending :
    /\ e.id \notin tried
    /\ \E g \in grants : StandsFor(e, g)

OneGrantPerId == \A g, h \in grants : g.id = h.id => g = h

GrantsArePast == \A g \in grants : g.at <= now /\ g.life <= life

UsedIsTried == \A id \in Ids : uses[id] # 0 => id \in tried

TriedIsIssued == tried \subseteq IssuedIds

(* A confirmation not presented yet, of this process and in time, is in    *)
(* the store.                                                              *)
GoodGrantIsStored ==
  \A g \in grants :
    (g.id \notin tried /\ g.life = life /\ now < g.at + TTL) =>
      \E e \in pending : StandsFor(e, g)

(* A gated handler in flight has a run on record, of this process, and its *)
(* id is its own and spent.                                                *)
HandlersRestOnRuns ==
  \A t \in Tasks : Gated(t) =>
    /\ \E r \in ran : ConfirmedBy(t, r)
    /\ task[t].by \in tried
    /\ \A u \in Tasks : Gated(u) /\ task[u].by = task[t].by => u = t

IInv ==
  /\ TypeOK
  /\ StoreMatchesHistory
  /\ OneGrantPerId
  /\ GrantsArePast
  /\ UsedIsTried
  /\ TriedIsIssued
  /\ GoodGrantIsStored
  /\ OnceOnly
  /\ Authorised
  /\ HandlersRestOnRuns

----
(* Every sender has a key. *)
LEMMA CallerKeyType == ASSUME NEW s \in Senders PROVE CallerKey(s) \in Keys
  BY SenderAssumption DEF Sender, RawToken, CallerKey, ExtractCallerToken, Keys

(* Two senders with one key, the second identified, are one person. *)
LEMMA KeyIdentifiesPerson ==
  ASSUME NEW s \in Senders, NEW u \in Senders, CallerKey(s) = CallerKey(u),
         u.user # NoUser \/ u.token.text \in Tokens
  PROVE  s.person = u.person
  BY SenderAssumption DEF Sender, RawToken, CallerKey, ExtractCallerToken

LEMMA InitIInv == Init => IInv
  BY BoundAssumption, CallAssumption
     DEF Init, IInv, TypeOK, StoreMatchesHistory, OneGrantPerId, GrantsArePast, UsedIsTried,
         TriedIsIssued, GoodGrantIsStored, OnceOnly, Authorised, HandlersRestOnRuns, Gated,
         Idle

(* What redeem leaves of the store, when an id is good, and what its entry *)
(* says of the call.                                                       *)
LEMMA GoodIdIsCovered ==
  ASSUME IInv, NEW id \in Ids, NEW call \in Calls, NEW from \in Senders,
         Problem(id, call, from) = "none"
  PROVE  /\ uses[id] = 0 /\ id \notin tried
         /\ \E g \in grants :
              Covers(g, [id |-> id, call |-> call, from |-> from, at |-> now, life |-> life])
<1>1. PICK e \in pending : e.id = id /\ e.expires > now /\ e.caller = CallerKey(from)
                           /\ e.digest = call
  BY DEF Problem, Found, Prune
<1>2. PICK g \in grants : StandsFor(e, g)
  BY <1>1 DEF IInv, StoreMatchesHistory
<1>3. uses[id] = 0 /\ id \notin tried
  BY <1>1 DEF IInv, StoreMatchesHistory, UsedIsTried
<1>4. now < g.at + TTL /\ g.at <= now
  BY <1>1, <1>2, BoundAssumption DEF IInv, TypeOK, Grant, StandsFor, GrantsArePast
<1>. QED
  BY <1>1, <1>2, <1>3, <1>4 DEF StandsFor, Covers

----
LEMMA TypeStep == ASSUME IInv, [Next]_vars PROVE TypeOK'
<1>. USE BoundAssumption, CallAssumption DEF IInv, TypeOK
<1>1. ASSUME NEW t \in Tasks, NEW from \in Senders, NEW call \in Calls, NEW id \in Ids \cup {NoId},
             Arrive(t, from, call, id)
      PROVE  TypeOK'
  <2>1. CASE RejectUnknownTool(t, from, call, id)
    BY <1>1, <2>1 DEF Arrive, RejectUnknownTool, Replied, Reply, Answers
  <2>2. CASE RunUngated(t, from, call, id)
    BY <1>1, <2>2 DEF Arrive, RunUngated, Working, Request
  <2>3. CASE AskForConfirmation(t, from, call, id)
    BY <1>1, <2>3 DEF Arrive, AskForConfirmation, Working, Request
  <2>4. CASE Redeem(t, from, call, id)
    <3>1. pending' \subseteq Entry /\ tried' \subseteq Ids
      BY <2>4 DEF Redeem, Popped, Prune
    <3>2. CASE Problem(id, call, from) # "none"
      BY <1>1, <2>4, <3>1, <3>2 DEF Arrive, Redeem, Problem, Replied, Reply, Answers
    <3>3. CASE Problem(id, call, from) = "none"
      BY <1>1, <2>4, <3>1, <3>3 DEF Arrive, Redeem, Working, Request, Run
    <3>. QED BY <3>2, <3>3
  <2>. QED BY <1>1, <2>1, <2>2, <2>3, <2>4 DEF Arrive
<1>2. ASSUME NEW t \in Tasks, NEW id \in Ids, PreviewDone(t, id)
      PROVE  TypeOK'
  <2>1. task[t] \in Request
    BY <1>2 DEF PreviewDone, Idle, Reply
  <2>2. CallerKey(task[t].from) \in Keys
    BY <2>1, CallerKeyType DEF Request
  <2>. QED
    BY <1>2, <2>1, <2>2 DEF PreviewDone, Issue, Prune, Request, Reply, Replied, Answers, Entry, Grant
<1>3. ASSUME NEW t \in Tasks, PreviewFails(t) \/ ToolReturns(t) \/ Deliver(t)
      PROVE  TypeOK'
  BY <1>3 DEF PreviewFails, ToolReturns, Deliver, Replied, Reply, Answers
<1>4. CASE Tick
  BY <1>4 DEF Tick
<1>5. CASE Restart
  BY <1>5 DEF Restart
<1>6. CASE UNCHANGED vars
  BY <1>6 DEF vars
<1>. QED
  BY <1>1, <1>2, <1>3, <1>4, <1>5, <1>6 DEF Next

(* The store and the history after a step. *)
LEMMA StoreStep ==
  ASSUME IInv, [Next]_vars
  PROVE  /\ StoreMatchesHistory'
         /\ OneGrantPerId'
         /\ GrantsArePast'
         /\ TriedIsIssued'
<1>. DEFINE Goal == StoreMatchesHistory /\ OneGrantPerId /\ GrantsArePast /\ TriedIsIssued
<1>. USE BoundAssumption, CallAssumption
<1>1. Goal BY DEF IInv
<1>2. ASSUME NEW t \in Tasks, NEW from \in Senders, NEW call \in Calls, NEW id \in Ids \cup {NoId},
             Arrive(t, from, call, id)
      PROVE  Goal'
  <2>1. UNCHANGED <<now, life, grants>>
    BY <1>2 DEF Arrive, RejectUnknownTool, RunUngated, AskForConfirmation, Redeem
  <2>2. CASE UNCHANGED <<pending, tried>>
    BY <1>1, <2>1, <2>2 DEF StoreMatchesHistory, StandsFor, OneGrantPerId, GrantsArePast,
                            TriedIsIssued, IssuedIds
  <2>3. CASE Redeem(t, from, call, id)
    <3>1. pending' \subseteq {e \in pending : e.id # id} /\ tried' \subseteq tried \cup {id}
      BY <2>3 DEF Redeem, Popped, Prune
    <3>2. StoreMatchesHistory'
      BY <1>1, <2>1, <3>1 DEF StoreMatchesHistory, StandsFor
    <3>3. TriedIsIssued'
      BY <1>1, <2>1, <2>3 DEF Redeem, TriedIsIssued, IssuedIds
    <3>. QED BY <1>1, <2>1, <3>2, <3>3 DEF OneGrantPerId, GrantsArePast
  <2>. QED
    BY <1>2, <2>2, <2>3 DEF Arrive, RejectUnknownTool, RunUngated, AskForConfirmation
<1>3. ASSUME NEW t \in Tasks, NEW id \in Ids, PreviewDone(t, id)
      PROVE  Goal'
  <2>0. PICK g : g = [id |-> id, call |-> task[t].call, from |-> task[t].from,
                      at |-> now, life |-> life]
    OBVIOUS
  <2>1. /\ id \notin IssuedIds
        /\ grants' = grants \cup {g}
        /\ pending' = Prune \cup {[id |-> id, digest |-> g.call, caller |-> CallerKey(g.from),
                                   expires |-> now + TTL]}
        /\ UNCHANGED <<now, life, tried>>
    BY <1>3, <2>0 DEF PreviewDone, Issue
  <2>2. g.id = id /\ g.life = life /\ g.at = now /\ now \in Int
    BY <2>0 DEF IInv, TypeOK
  <2>3. StoreMatchesHistory'
    <3>1. \A e \in Prune : e.id \notin tried' /\ \E h \in grants' : StandsFor(e, h)'
      BY <1>1, <2>1 DEF StoreMatchesHistory, StandsFor, Prune
    <3>2. id \notin tried'
      BY <1>1, <2>1 DEF TriedIsIssued
    <3>3. ASSUME NEW e \in pending', e \notin Prune
          PROVE  e.id \notin tried' /\ \E h \in grants' : StandsFor(e, h)'
      <4>1. e = [id |-> id, digest |-> g.call, caller |-> CallerKey(g.from), expires |-> g.at + TTL]
        BY <2>1, <2>2, <3>3
      <4>2. StandsFor(e, g)' /\ g \in grants'
        BY <2>1, <2>2, <4>1 DEF StandsFor
      <4>. QED BY <3>2, <4>1, <4>2
    <3>. QED BY <3>1, <3>3 DEF StoreMatchesHistory
  <2>4. OneGrantPerId'
    BY <1>1, <2>1, <2>2 DEF OneGrantPerId, IssuedIds
  <2>5. GrantsArePast'
    BY <1>1, <2>1, <2>2 DEF GrantsArePast, IInv, TypeOK
  <2>6. TriedIsIssued'
    BY <1>1, <2>1 DEF TriedIsIssued, IssuedIds
  <2>. QED BY <2>3, <2>4, <2>5, <2>6
<1>4. ASSUME NEW t \in Tasks, PreviewFails(t) \/ ToolReturns(t) \/ Deliver(t)
      PROVE  Goal'
  BY <1>1, <1>4 DEF PreviewFails, ToolReturns, Deliver, StoreMatchesHistory, StandsFor,
                    OneGrantPerId, GrantsArePast, TriedIsIssued, IssuedIds
<1>5. CASE Tick
  <2>1. \A g \in grants : g.at <= now' /\ g.life <= life
    BY <1>1, <1>5 DEF Tick, GrantsArePast, IInv, TypeOK, Grant
  <2>. QED
    BY <1>1, <1>5, <2>1 DEF Tick, StoreMatchesHistory, StandsFor, OneGrantPerId, GrantsArePast,
                            TriedIsIssued, IssuedIds
<1>6. CASE Restart
  <2>1. \A g \in grants : g.at <= now /\ g.life <= life'
    BY <1>1, <1>6 DEF Restart, GrantsArePast, IInv, TypeOK, Grant
  <2>. QED
    BY <1>1, <1>6, <2>1 DEF Restart, StoreMatchesHistory, OneGrantPerId, GrantsArePast,
                            TriedIsIssued, IssuedIds
<1>7. CASE UNCHANGED vars
  BY <1>1, <1>7 DEF vars, StoreMatchesHistory, StandsFor, OneGrantPerId, GrantsArePast,
                    TriedIsIssued, IssuedIds
<1>. QED
  BY <1>2, <1>3, <1>4, <1>5, <1>6, <1>7 DEF Next

(* Nothing but its expiry, a restart or a call that presents it takes a     *)
(* confirmation out of the store.                                          *)
LEMMA StoredStep == ASSUME IInv, [Next]_vars PROVE GoodGrantIsStored'
<1>. USE BoundAssumption, CallAssumption DEF GoodGrantIsStored
<1>1. now \in Int /\ life \in Int /\ \A g \in grants : g.at \in Int /\ g.life \in Int
  BY DEF IInv, TypeOK, Grant
<1>2. ASSUME NEW t \in Tasks, NEW from \in Senders, NEW call \in Calls, NEW id \in Ids \cup {NoId},
             Arrive(t, from, call, id)
      PROVE  GoodGrantIsStored'
  <2>1. UNCHANGED <<now, life, grants>>
    BY <1>2 DEF Arrive, RejectUnknownTool, RunUngated, AskForConfirmation, Redeem
  <2>2. CASE UNCHANGED <<pending, tried>>
    BY <2>1, <2>2 DEF IInv, StandsFor
  <2>3. CASE Redeem(t, from, call, id)
    <3>. SUFFICES ASSUME NEW g \in grants, g.id \notin tried', g.life = life, now < g.at + TTL
                  PROVE  \E e \in pending' : StandsFor(e, g)'
      BY <2>1
    <3>1. g.id \notin tried /\ g.id # id
      BY <2>3 DEF Redeem, IssuedIds
    <3>2. PICK e \in pending : StandsFor(e, g)
      BY <3>1 DEF IInv
    <3>3. e \in pending'
      BY <2>3, <3>1, <3>2 DEF Redeem, Popped, Prune, StandsFor
    <3>. QED BY <2>1, <3>2, <3>3 DEF StandsFor
  <2>. QED
    BY <1>2, <2>2, <2>3 DEF Arrive, RejectUnknownTool, RunUngated, AskForConfirmation
<1>3. ASSUME NEW t \in Tasks, NEW id \in Ids, PreviewDone(t, id)
      PROVE  GoodGrantIsStored'
  <2>1. PICK n : n = [id |-> id, call |-> task[t].call, from |-> task[t].from,
                      at |-> now, life |-> life]
    OBVIOUS
  <2>2. /\ grants' = grants \cup {n}
        /\ pending' = Prune \cup {[id |-> id, digest |-> n.call, caller |-> CallerKey(n.from),
                                   expires |-> now + TTL]}
        /\ UNCHANGED <<now, life, tried>>
    BY <1>3, <2>1 DEF PreviewDone, Issue
  <2>3. \E e \in pending' : StandsFor(e, n)'
    <3>1. n.id = id /\ n.at = now /\ n.life = life
      BY <2>1
    <3>2. PICK e : e = [id |-> id, digest |-> n.call, caller |-> CallerKey(n.from), expires |-> now + TTL]
      OBVIOUS
    <3>3. e \in pending' /\ e.id = id /\ e.digest = n.call /\ e.caller = CallerKey(n.from)
          /\ e.expires = now + TTL
      BY <2>2, <3>2
    <3>. QED BY <2>2, <3>1, <3>3 DEF StandsFor
  <2>4. ASSUME NEW g \in grants, g.id \notin tried', g.life = life, now < g.at + TTL
        PROVE  \E e \in pending' : StandsFor(e, g)'
    <3>1. PICK e \in pending : StandsFor(e, g)
      BY <2>2, <2>4 DEF IInv
    <3>2. e \in pending'
      BY <2>2, <2>4, <3>1 DEF Prune, StandsFor
    <3>. QED BY <2>2, <3>1, <3>2 DEF StandsFor
  <2>. QED BY <2>2, <2>3, <2>4
<1>4. ASSUME NEW t \in Tasks, PreviewFails(t) \/ ToolReturns(t) \/ Deliver(t)
      PROVE  GoodGrantIsStored'
  BY <1>4 DEF PreviewFails, ToolReturns, Deliver, StandsFor, IInv
<1>5. CASE Tick
  <2>1. \A g \in grants : now' < g.at + TTL => now < g.at + TTL
    BY <1>1, <1>5 DEF Tick
  <2>. QED BY <1>5, <2>1 DEF Tick, StandsFor, IInv
<1>6. CASE Restart
  BY <1>1, <1>6 DEF Restart, IInv, GrantsArePast
<1>7. CASE UNCHANGED vars
  BY <1>7 DEF vars, StandsFor, IInv
<1>. QED
  BY <1>2, <1>3, <1>4, <1>5, <1>6, <1>7 DEF Next

(* What can happen to the runs: a good id is redeemed, or nothing. *)
GoodRedeem(t, from, call, id) ==
  task[t] = Idle /\ Redeem(t, from, call, id) /\ Problem(id, call, from) = "none"

NoNewRun == ran' = ran /\ uses' = uses /\ grants \subseteq grants' /\ tried \subseteq tried'

RunsChangeByRedeem ==
  \/ NoNewRun
  \/ \E t \in Tasks, from \in Senders, call \in Calls, id \in Ids : GoodRedeem(t, from, call, id)

(* A step leaves the runs alone or redeems a good id. *)
LEMMA RunStep == ASSUME [Next]_vars PROVE RunsChangeByRedeem
<1>. USE DEF RunsChangeByRedeem, NoNewRun, GoodRedeem
<1>1. ASSUME NEW t \in Tasks, NEW from \in Senders, NEW call \in Calls, NEW id \in Ids \cup {NoId},
             Arrive(t, from, call, id)
      PROVE  RunsChangeByRedeem
  BY <1>1 DEF Arrive, RejectUnknownTool, RunUngated, AskForConfirmation, Redeem
<1>2. ASSUME NEW t \in Tasks, NEW id \in Ids, PreviewDone(t, id) PROVE RunsChangeByRedeem
  BY <1>2 DEF PreviewDone, Issue
<1>3. ASSUME NEW t \in Tasks, PreviewFails(t) \/ ToolReturns(t) \/ Deliver(t) PROVE RunsChangeByRedeem
  BY <1>3 DEF PreviewFails, ToolReturns, Deliver
<1>4. CASE Tick \/ Restart \/ UNCHANGED vars
  BY <1>4 DEF Tick, Restart, vars
<1>. QED
  BY <1>1, <1>2, <1>3, <1>4 DEF Next

(* Every step keeps what is known of the tokens that were used. *)
LEMMA RunsInvStep ==
  ASSUME IInv, [Next]_vars
  PROVE  UsedIsTried' /\ OnceOnly' /\ Authorised'
<1>. USE DEF IInv, TypeOK
<1>1. CASE NoNewRun
  BY <1>1 DEF NoNewRun, UsedIsTried, OnceOnly, Authorised
<1>2. ASSUME NEW t \in Tasks, NEW from \in Senders, NEW call \in Calls, NEW id \in Ids,
             GoodRedeem(t, from, call, id)
      PROVE  UsedIsTried' /\ OnceOnly' /\ Authorised'
  <2>. DEFINE r == [id |-> id, call |-> call, from |-> from, at |-> now, life |-> life]
  <2>1. uses[id] = 0 /\ \E g \in grants : Covers(g, r)
    BY <1>2, GoodIdIsCovered DEF GoodRedeem
  <2>2. /\ uses' = [uses EXCEPT ![id] = 1]
        /\ ran' = ran \cup {r}
        /\ grants' = grants
        /\ tried' = tried \cup ({id} \cap IssuedIds)
    BY <1>2, <2>1 DEF GoodRedeem, Redeem
  <2>3. id \in IssuedIds
    BY <2>1 DEF Covers, IssuedIds
  <2>4. UsedIsTried'
    BY <2>2, <2>3 DEF UsedIsTried
  <2>5. OnceOnly'
    BY <2>2 DEF OnceOnly
  <2>6. Authorised'
    BY <2>1, <2>2 DEF Authorised
  <2>. QED BY <2>4, <2>5, <2>6
<1>. QED
  BY <1>1, <1>2, RunStep DEF RunsChangeByRedeem

(* A step that starts no gated handler and forgets no run. *)
LEMMA NoNewHandler ==
  ASSUME IInv, ran \subseteq ran', tried \subseteq tried', life' = life,
         \A t \in Tasks : Gated(t)' => task'[t] = task[t]
  PROVE  HandlersRestOnRuns'
BY DEF IInv, HandlersRestOnRuns, Gated, ConfirmedBy

(* Every step keeps gated handlers behind a confirmation. *)
LEMMA HandlersStep == ASSUME IInv, [Next]_vars PROVE HandlersRestOnRuns'
<1>. USE DEF IInv, TypeOK
<1>1. ASSUME NEW t \in Tasks, NEW from \in Senders, NEW call \in Calls, NEW id \in Ids \cup {NoId},
             Arrive(t, from, call, id)
      PROVE  HandlersRestOnRuns'
  <2>1. CASE RejectUnknownTool(t, from, call, id)
    BY <1>1, <2>1, NoNewHandler DEF Arrive, RejectUnknownTool, Replied, Gated
  <2>2. CASE RunUngated(t, from, call, id)
    BY <1>1, <2>2, NoNewHandler DEF Arrive, RunUngated, Working, NeedsConfirmation, Gated
  <2>3. CASE AskForConfirmation(t, from, call, id)
    BY <1>1, <2>3, NoNewHandler DEF Arrive, AskForConfirmation, Working, Gated
  <2>4. CASE Redeem(t, from, call, id)
    <3>1. CASE Problem(id, call, from) # "none"
      BY <1>1, <2>4, <3>1, NoNewHandler DEF Arrive, Redeem, Replied, Gated
    <3>2. CASE Problem(id, call, from) = "none"
      <4>. DEFINE r == [id |-> id, call |-> call, from |-> from, at |-> now, life |-> life]
      <4>1. /\ ran' = ran \cup {r} /\ task' = [task EXCEPT ![t] = Working("handler", from, call, id)]
            /\ tried' = tried \cup ({id} \cap IssuedIds) /\ life' = life
        BY <1>1, <2>4, <3>2 DEF Arrive, Redeem
      <4>2. /\ id \in Ids /\ id \notin tried
            /\ \E g \in grants : Covers(g, r)
        BY <2>4, <3>2, GoodIdIsCovered DEF Redeem
      <4>3. id \in tried'
        BY <4>1, <4>2 DEF Covers, IssuedIds
      <4>4. task'[t] = Working("handler", from, call, id) /\ \A u \in Tasks : u # t => task'[u] = task[u]
        BY <4>1
      <4>5. (\E q \in ran' : ConfirmedBy(t, q)') /\ task'[t].by = id
        <5>1. /\ r \in ran' /\ r.id = task'[t].by /\ r.call = task'[t].call
              /\ r.from = task'[t].from /\ r.life = life'
          BY <4>1, <4>4 DEF Working
        <5>2. task'[t].by = id
          BY <4>4 DEF Working
        <5>. QED BY <5>1, <5>2 DEF ConfirmedBy
      <4>6. ASSUME NEW u \in Tasks, u # t, Gated(u)'
            PROVE  /\ Gated(u) /\ task'[u] = task[u] /\ task[u].by # id
                   /\ \E q \in ran' : ConfirmedBy(u, q)'
                   /\ task'[u].by \in tried'
        <5>1. task'[u] = task[u] /\ Gated(u)
          BY <4>4, <4>6 DEF Gated
        <5>. QED BY <4>1, <4>2, <5>1 DEF HandlersRestOnRuns, ConfirmedBy
      <4>7. ASSUME NEW u \in Tasks, Gated(u)'
            PROVE  (\E q \in ran' : ConfirmedBy(u, q)') /\ task'[u].by \in tried'
        BY <4>3, <4>5, <4>6, <4>7
      <4>8. ASSUME NEW u \in Tasks, NEW v \in Tasks, Gated(u)', Gated(v)', task'[u].by = task'[v].by
            PROVE  u = v
        <5>1. CASE u # t /\ v # t
          <6>. Gated(u) /\ Gated(v) /\ task[u].by = task[v].by
            BY <4>6, <4>8, <5>1
          <6>. QED BY DEF HandlersRestOnRuns
        <5>. QED BY <4>5, <4>6, <4>8, <5>1
      <4>. QED BY <4>7, <4>8 DEF HandlersRestOnRuns
    <3>. QED BY <3>1, <3>2
  <2>. QED BY <1>1, <2>1, <2>2, <2>3, <2>4 DEF Arrive
<1>2. ASSUME NEW t \in Tasks, NEW id \in Ids, PreviewDone(t, id)
      PROVE  HandlersRestOnRuns'
  BY <1>2, NoNewHandler DEF PreviewDone, Replied, Gated
<1>3. ASSUME NEW t \in Tasks, PreviewFails(t) \/ ToolReturns(t) \/ Deliver(t)
      PROVE  HandlersRestOnRuns'
  BY <1>3, NoNewHandler DEF PreviewFails, ToolReturns, Deliver, Replied, Idle, Gated
<1>4. CASE Tick \/ UNCHANGED vars
  BY <1>4, NoNewHandler DEF Tick, vars
<1>5. CASE Restart
  <2>1. \A t \in Tasks : task'[t].pc = "idle"
    BY <1>5 DEF Restart, Idle
  <2>. QED BY <2>1 DEF HandlersRestOnRuns, Gated
<1>. QED
  BY <1>1, <1>2, <1>3, <1>4, <1>5 DEF Next

(* The inductive invariant holds in every reachable state. *)
THEOREM Invariance == Spec => []IInv
<1>1. IInv /\ [Next]_vars => IInv'
  BY TypeStep, StoreStep, StoredStep, RunsInvStep, HandlersStep DEF IInv
<1>. QED
  BY InitIInv, <1>1, PTL DEF Spec

(* The variables keep their types, for any constants the assumptions allow. *)
THEOREM TypeCorrect == Spec => []TypeOK
<1>1. IInv => TypeOK BY DEF IInv
<1>. QED BY Invariance, <1>1, PTL

(* A confirmed write only ever starts under a confirmation issued for it,   *)
(* to its caller, in time, by this process (redeem in confirmation.py).     *)
THEOREM RunsAreAuthorised == Spec => []Authorised
<1>1. IInv => Authorised BY DEF IInv
<1>. QED BY Invariance, <1>1, PTL

(* An id starts one write at most: redeem pops it before anything else can  *)
(* run.                                                                     *)
THEOREM IdsAreOneTime == Spec => []OnceOnly
<1>1. IInv => OnceOnly BY DEF IInv
<1>. QED BY Invariance, <1>1, PTL

(* dispatch lets no handler of a write that needs confirmation start        *)
(* without one of its own, always_confirm tools for any client included.    *)
THEOREM NothingSkipsTheGate == Spec => []GatedHandlersAreConfirmed
<1>1. IInv => GatedHandlersAreConfirmed
  <2>. SUFFICES ASSUME IInv, NEW t \in Tasks, Gated(t)
                PROVE  /\ \E r \in ran : ConfirmedBy(t, r) /\ \E g \in grants : Covers(g, r)
                       /\ \A u \in Tasks : Gated(u) /\ task[u].by = task[t].by => u = t
    BY DEF GatedHandlersAreConfirmed
  <2>. QED BY DEF IInv, HandlersRestOnRuns, Authorised
<1>. QED BY Invariance, <1>1, PTL

(* caller_key tells identified people apart, so a confirmation works for    *)
(* the person it was issued to and nobody else.                             *)
THEOREM PeopleConfirmForThemselves == Spec => []SamePerson
<1>1. IInv => SamePerson
  <2>. SUFFICES ASSUME IInv, NEW r \in ran, NEW g \in grants, g.id = r.id,
                       r.from.user # NoUser \/ r.from.token.text \in Tokens
                PROVE  g.from.person = r.from.person
    BY DEF SamePerson
  <2>1. PICK h \in grants : Covers(h, r)
    BY DEF IInv, Authorised
  <2>2. g = h
    BY <2>1 DEF IInv, OneGrantPerId, Covers
  <2>3. g.from \in Senders /\ r.from \in Senders
    BY DEF IInv, TypeOK, Grant, Run
  <2>. QED
    BY <2>1, <2>2, <2>3, KeyIdentifiesPerson DEF Covers
<1>. QED BY Invariance, <1>1, PTL

(* The pop in redeem spends the id, whether or not the call then runs. *)
THEOREM PresentedIdsAreSpent == Spec => TriedIsSpent
<1>1. IInv /\ [Next]_vars => [\A id \in tried : uses'[id] = uses[id]]_vars
  <2>. SUFFICES ASSUME IInv, [Next]_vars, NEW id \in tried
                PROVE  uses'[id] = uses[id]
    OBVIOUS
  <2>1. ASSUME NEW t \in Tasks, NEW from \in Senders, NEW call \in Calls, NEW i \in Ids,
               GoodRedeem(t, from, call, i)
        PROVE  uses'[id] = uses[id]
    BY <2>1, GoodIdIsCovered DEF GoodRedeem, Redeem, IInv, TypeOK
  <2>. QED
    BY <2>1, RunStep DEF RunsChangeByRedeem, NoNewRun
<1>. QED
  BY Invariance, <1>1, PTL DEF Spec, TriedIsSpent

(* redeem accepts: a caller who repeats the call with the id in time, first, *)
(* to the process that issued it, is never turned away.                      *)
THEOREM GoodConfirmationsRun == Spec => ConfirmedCallRuns
<1>1. ASSUME IInv, NEW t \in Tasks, NEW from \in Senders, NEW call \in Calls, NEW g \in grants,
             Confirms(g, from, call, g.id), Arrive(t, from, call, g.id)
      PROVE  task'[t].pc = "handler"
  <2>1. g.id \in Ids /\ g.at \in Int /\ now \in Int
    BY <1>1 DEF IInv, TypeOK, Grant
  <2>2. g.id \notin tried /\ g.call = call /\ CallerKey(g.from) = CallerKey(from) /\ g.life = life
        /\ now < g.at + TTL
    BY <1>1 DEF Confirms, Covers
  <2>3. PICK e \in pending : StandsFor(e, g)
    BY <1>1, <2>2 DEF IInv, GoodGrantIsStored
  <2>4. e \in Found(g.id)
    BY <2>1, <2>2, <2>3, BoundAssumption DEF Found, Prune, StandsFor
  <2>5. ASSUME NEW f \in Found(g.id) PROVE f.caller = CallerKey(from) /\ f.digest = call
    <3>1. PICK h \in grants : StandsFor(f, h)
      BY <1>1 DEF Found, Prune, IInv, StoreMatchesHistory
    <3>2. h = g
      BY <1>1, <3>1 DEF Found, StandsFor, IInv, OneGrantPerId
    <3>. QED BY <2>2, <3>1, <3>2 DEF StandsFor
  <2>6. Problem(g.id, call, from) = "none"
    BY <2>4, <2>5 DEF Problem
  <2>7. Redeem(t, from, call, g.id)
    BY <1>1, <2>1, CallAssumption
       DEF Confirms, Arrive, RejectUnknownTool, RunUngated, AskForConfirmation, NeedsConfirmation
  <2>. QED
    BY <1>1, <2>6, <2>7 DEF Redeem, Working, IInv, TypeOK
<1>2. IInv /\ [Next]_vars =>
        [\A t \in Tasks, from \in Senders, call \in Calls, g \in grants :
           (Confirms(g, from, call, g.id) /\ Arrive(t, from, call, g.id)) =>
             task'[t].pc = "handler"]_vars
  BY <1>1
<1>. QED
  BY Invariance, <1>2, PTL DEF Spec, ConfirmedCallRuns

(* Expired confirmations are forgotten at the next access to the store.    *)
THEOREM StoreForgets == Spec => NothingExpiredIsKept
<1>1. ASSUME IInv, [Next]_vars, pending' # pending
      PROVE  \A e \in pending' : e.expires > now
  <2>1. now \in Int
    BY <1>1 DEF IInv, TypeOK
  <2>2. ASSUME NEW t \in Tasks, NEW from \in Senders, NEW call \in Calls,
               NEW id \in Ids \cup {NoId}, Arrive(t, from, call, id)
        PROVE  \A e \in pending' : e.expires > now
    BY <1>1, <2>2
       DEF Arrive, RejectUnknownTool, RunUngated, AskForConfirmation, Redeem, Popped, Prune
  <2>3. ASSUME NEW t \in Tasks, NEW id \in Ids, PreviewDone(t, id)
        PROVE  \A e \in pending' : e.expires > now
    BY <2>1, <2>3, BoundAssumption DEF PreviewDone, Issue, Prune
  <2>4. CASE Restart
    BY <2>4 DEF Restart
  <2>5. CASE UNCHANGED pending
    BY <1>1, <2>5
  <2>. QED
    BY <1>1, <2>2, <2>3, <2>4, <2>5 DEF Next, PreviewFails, ToolReturns, Deliver, Tick, vars
<1>2. IInv /\ [Next]_vars => [pending' # pending => \A e \in pending' : e.expires > now]_vars
  BY <1>1
<1>. QED
  BY Invariance, <1>2, PTL DEF Spec, NothingExpiredIsKept
----
(* ConfirmedWrites implements WritePermits: every step of the dispatch, of *)
(* the store, of the clock and every restart is a step of the permits or   *)
(* leaves them as they are.                                                *)

(* A grant is found by its id. *)
LEMMA GrantOfGrant == ASSUME OneGrantPerId, NEW g \in grants PROVE GrantOf(g.id) = g
  BY DEF OneGrantPerId, GrantOf

(* A stored entry says until when its permit lasts. *)
LEMMA EntryTellsUntil ==
  ASSUME IInv, NEW e \in pending
  PROVE  /\ e.id \in Ids /\ e.id \in IssuedIds /\ uses[e.id] = 0
         /\ e.digest = GrantOf(e.id).call
         /\ e.caller = CallerKey(GrantOf(e.id).from)
         /\ e.expires = GrantOf(e.id).at + TTL
<1>1. PICK g \in grants : StandsFor(e, g)
  BY DEF IInv, StoreMatchesHistory
<1>2. GrantOf(g.id) = g
  BY GrantOfGrant DEF IInv
<1>3. e.id \in Ids /\ uses[e.id] = 0
  BY DEF IInv, TypeOK, Entry, StoreMatchesHistory, UsedIsTried
<1>. QED
  BY <1>1, <1>2, <1>3 DEF StandsFor, IssuedIds

(* Without new confirmations, a permit differs by its state alone. *)
LEMMA SameGrants ==
  ASSUME UNCHANGED grants, NEW id \in Ids
  PROVE  PermitOf(id)' = IF id \in IssuedIds THEN [PermitOf(id) EXCEPT !.state = PermitState(id)']
                         ELSE PermitOf(id)
  BY DEF PermitOf, IssuedIds, GrantOf, CallerKey, ExtractCallerToken

(* Where stored entries, grants and runs stay, so do the permits. *)
LEMMA SamePermits ==
  ASSUME UNCHANGED <<now, pending, grants, ran, uses>>
  PROVE  UNCHANGED Permits!vars
  BY DEF Permits!vars, PermitOf, PermitState, IssuedIds, GrantOf, CallerKey, ExtractCallerToken

(* Losing stored entries, of whatever ids, revokes permits. *)
LEMMA LosingIsRevoking ==
  ASSUME IInv, UNCHANGED <<now, grants, ran, uses>>, pending' \subseteq pending
  PROVE  Permits!Revoke
<1>1. ASSUME NEW id \in Ids
      PROVE  \/ PermitOf(id)' = PermitOf(id)
             \/ /\ PermitOf(id).state = "live"
                /\ PermitOf(id)' = [PermitOf(id) EXCEPT !.state = "void"]
  <2>1. CASE id \notin IssuedIds
    BY <2>1, SameGrants
  <2>2. CASE id \in IssuedIds
    <3>1. PermitOf(id).state = PermitState(id)
      BY <2>2 DEF PermitOf
    <3>2. PermitState(id)' = PermitState(id) \/ (PermitState(id) = "live" /\ PermitState(id)' = "void")
      BY DEF PermitState
    <3>3. PermitOf(id)' = [PermitOf(id) EXCEPT !.state = PermitState(id)']
      BY <2>2, SameGrants
    <3>4. [PermitOf(id) EXCEPT !.state = PermitState(id)] = PermitOf(id)
      BY <2>2 DEF PermitOf
    <3>. QED BY <3>1, <3>2, <3>3, <3>4
  <2>. QED BY <2>1, <2>2
<1>. QED
  BY <1>1 DEF Permits!Revoke, Permits!Live, Permits!Voids

(* Redeeming a good id performs the permit's write. *)
LEMMA RedeemingIsPerforming ==
  ASSUME IInv, NEW t \in Tasks, NEW from \in Senders, NEW call \in Calls, NEW id \in Ids,
         GoodRedeem(t, from, call, id), UNCHANGED now
  PROVE  Permits!Perform(id)
<1>1. PICK e \in pending : e.id = id /\ e.expires > now /\ e.caller = CallerKey(from)
                           /\ e.digest = call
  BY DEF GoodRedeem, Problem, Found, Prune
<1>2. /\ id \in IssuedIds /\ uses[id] = 0
      /\ GrantOf(id).call = call
      /\ CallerKey(GrantOf(id).from) = CallerKey(from)
      /\ now < GrantOf(id).at + TTL
  BY <1>1, EntryTellsUntil
<1>3. PermitState(id) = "live"
  BY <1>1, <1>2 DEF PermitState
<1>4. /\ grants' = grants
      /\ uses' = [uses EXCEPT ![id] = 1]
      /\ pending' = {f \in Prune : f.id # id}
      /\ ran' = ran \cup {[id |-> id, call |-> call, from |-> from, at |-> now, life |-> life]}
  BY <1>2 DEF GoodRedeem, Redeem, Popped
<1>5. uses \in [Ids -> Nat]
  BY DEF IInv, TypeOK
<1>6. PermitState(id)' = "used"
  BY <1>4, <1>5 DEF PermitState
<1>7. ASSUME NEW other \in Ids \ {id}
      PROVE  PermitOf(other)' = PermitOf(other)
  <2>1. PermitState(other)' = PermitState(other)
    BY <1>4, <1>5, <1>7 DEF PermitState, Prune
  <2>. QED BY <1>4, <2>1, SameGrants DEF PermitOf
<1>8. PermitOf(id)' = [PermitOf(id) EXCEPT !.state = "used"]
  BY <1>2, <1>4, <1>6, SameGrants
<1>9. PermitOf(id) = [state |-> "live", call |-> call, key |-> CallerKey(from),
                      until |-> GrantOf(id).at + TTL]
  BY <1>2, <1>3 DEF PermitOf
<1>10. PICK r : r = [id |-> id, call |-> call, from |-> from, at |-> now, life |-> life]
  OBVIOUS
<1>11. r.id = id /\ r.call = call /\ r.from = from /\ r.at = now /\ ran' = ran \cup {r}
  BY <1>4, <1>10
<1>12. {[id |-> q.id, call |-> q.call, key |-> CallerKey(q.from), at |-> q.at] : q \in ran'}
         = {[id |-> q.id, call |-> q.call, key |-> CallerKey(q.from), at |-> q.at] : q \in ran}
             \cup {[id |-> r.id, call |-> r.call, key |-> CallerKey(r.from), at |-> r.at]}
  BY <1>11, Zenon
<1>. QED
  BY <1>2, <1>7, <1>8, <1>9, <1>11, <1>12
     DEF Permits!Perform, Permits!Live, Permits!OthersKeepTheirs, CallerKey, ExtractCallerToken

(* The end of a preview issues a permit. *)
LEMMA PreviewIssues ==
  ASSUME IInv, NEW t \in Tasks, NEW id \in Ids, PreviewDone(t, id), OneGrantPerId', TypeOK'
  PROVE  Permits!Issue(id)
<1>1. PICK g : g = [id |-> id, call |-> task[t].call, from |-> task[t].from,
                    at |-> now, life |-> life]
  OBVIOUS
<1>2. g.id = id /\ g.at = now
  BY <1>1
<1>3. /\ id \notin IssuedIds
      /\ grants' = grants \cup {g}
      /\ UNCHANGED <<now, tried, ran, uses>>
  BY <1>1 DEF PreviewDone, Issue
<1>4. PICK e : e = [id |-> id, digest |-> task[t].call, caller |-> CallerKey(task[t].from),
                    expires |-> now + TTL]
  OBVIOUS
<1>5. pending' = Prune \cup {e} /\ e.id = id /\ e.expires = now + TTL
  BY <1>4 DEF PreviewDone, Issue
<1>6. now \in Int
  BY DEF IInv, TypeOK
<1>7. uses[id] = 0
  BY <1>3 DEF IInv, UsedIsTried, TriedIsIssued
<1>8. PermitState(id)' = "live"
  BY <1>3, <1>5, <1>6, <1>7, BoundAssumption DEF PermitState
<1>9. GrantOf(id)' = g /\ (id \in IssuedIds)'
  <2>1. g \in grants' BY <1>3
  <2>. QED BY <1>2, <2>1 DEF GrantOf, OneGrantPerId, IssuedIds
<1>10. PermitOf(id)' = [state |-> "live", call |-> g.call, key |-> CallerKey(g.from),
                        until |-> now + TTL]
  BY <1>2, <1>3, <1>8, <1>9 DEF PermitOf, CallerKey, ExtractCallerToken
<1>11. g.call \in Calls /\ CallerKey(g.from) \in Keys
  BY <1>3, CallerKeyType DEF TypeOK, Grant
<1>12. PermitOf(id) = [state |-> "unissued"]
  BY <1>3 DEF PermitOf
<1>13. ASSUME NEW other \in Ids \ {id}
       PROVE  PermitOf(other)' = PermitOf(other)
  <2>1. PermitState(other)' = PermitState(other)
    BY <1>3, <1>5, <1>13 DEF PermitState, Prune
  <2>2. (other \in IssuedIds)' <=> other \in IssuedIds
    BY <1>2, <1>3, <1>13 DEF IssuedIds
  <2>3. CASE other \in IssuedIds
    <3>1. PICK h \in grants : h.id = other
      BY <2>3 DEF IssuedIds
    <3>2. GrantOf(other) = h
      BY <3>1, GrantOfGrant DEF IInv
    <3>3. GrantOf(other)' = h
      BY <1>3, <3>1 DEF GrantOf, OneGrantPerId
    <3>. QED
      BY <2>1, <2>2, <2>3, <3>2, <3>3 DEF PermitOf, CallerKey, ExtractCallerToken
  <2>4. CASE other \notin IssuedIds
    BY <2>2, <2>4 DEF PermitOf
  <2>. QED BY <2>3, <2>4
<1>. QED
  BY <1>3, <1>10, <1>11, <1>12, <1>13
     DEF Permits!Issue, Permits!Unissued, Permits!OthersKeepTheirs, CallerKey, ExtractCallerToken

(* The clock voids the permits it overtakes and no other. *)
LEMMA TickLapses == ASSUME IInv, Tick PROVE Permits!Tick
<1>1. now \in Int /\ now' = now + 1 /\ UNCHANGED <<pending, grants, ran, uses>>
  BY DEF IInv, TypeOK, Tick
<1>2. ASSUME NEW id \in Ids
      PROVE  IF PermitOf(id).state = "live" /\ PermitOf(id).until <= now'
             THEN PermitOf(id)' = [PermitOf(id) EXCEPT !.state = "void"]
             ELSE PermitOf(id)' = PermitOf(id)
  <2>1. CASE id \notin IssuedIds
    BY <1>1, <2>1, SameGrants DEF PermitOf
  <2>2. CASE id \in IssuedIds
    <3>1. PermitOf(id).state = PermitState(id) /\ PermitOf(id).until = GrantOf(id).at + TTL
      BY <2>2 DEF PermitOf
    <3>2. PermitOf(id)' = [PermitOf(id) EXCEPT !.state = PermitState(id)']
      BY <1>1, <2>2, SameGrants
    <3>3. [PermitOf(id) EXCEPT !.state = PermitState(id)] = PermitOf(id)
      BY <2>2 DEF PermitOf
    <3>4. \A e \in pending : e.id = id => e.expires = GrantOf(id).at + TTL
      BY EntryTellsUntil
    <3>5. \A e \in pending : e.expires \in Int
      BY DEF IInv, TypeOK, Entry
    <3>6. CASE PermitState(id) = "live"
      <4>1. PICK e \in pending : e.id = id /\ uses[id] = 0
        BY <3>6, EntryTellsUntil DEF PermitState
      <4>2. PermitState(id)' = IF GrantOf(id).at + TTL <= now' THEN "void" ELSE "live"
        BY <1>1, <3>4, <3>5, <4>1 DEF PermitState
      <4>. QED BY <3>1, <3>2, <3>3, <3>6, <4>2
    <3>7. CASE PermitState(id) # "live"
      <4>1. PermitState(id)' = PermitState(id)
        BY <1>1, <3>5, <3>7 DEF PermitState
      <4>. QED BY <3>1, <3>2, <3>3, <3>7, <4>1
    <3>. QED BY <3>6, <3>7
  <2>. QED BY <2>1, <2>2
<1>. QED
  BY <1>1, <1>2 DEF Permits!Tick, Permits!Live, Permits!Voids, CallerKey, ExtractCallerToken

(* Every behaviour of ConfirmedWrites is one of WritePermits: a permit is  *)
(* used once or voided and never reborn, and a write starts under a live   *)
(* permit for that very call and caller alone.                             *)
THEOREM PermitsAreImplemented == Spec => ImplementsPermits
<1>1. Init => Permits!Init
  BY DEF Init, Permits!Init, Permits!Unissued, PermitOf, IssuedIds
<1>2. ASSUME IInv, TypeOK', OneGrantPerId', [Next]_vars
      PROVE  [Permits!Next]_(Permits!vars)
  <2>1. ASSUME NEW t \in Tasks, NEW from \in Senders, NEW call \in Calls,
               NEW id \in Ids \cup {NoId}, Arrive(t, from, call, id)
        PROVE  [Permits!Next]_(Permits!vars)
    <3>1. UNCHANGED now
      BY <2>1 DEF Arrive
    <3>2. CASE RejectUnknownTool(t, from, call, id) \/ RunUngated(t, from, call, id)
               \/ AskForConfirmation(t, from, call, id)
      BY <3>1, <3>2, SamePermits DEF RejectUnknownTool, RunUngated, AskForConfirmation
    <3>3. CASE Redeem(t, from, call, id) /\ Problem(id, call, from) # "none"
      <4>1. pending' \subseteq pending /\ UNCHANGED <<grants, ran, uses>>
        BY <3>3 DEF Redeem, Popped, Prune
      <4>. QED BY <1>2, <3>1, <4>1, LosingIsRevoking DEF Permits!Next
    <3>4. CASE Redeem(t, from, call, id) /\ Problem(id, call, from) = "none"
      <4>1. id \in Ids /\ GoodRedeem(t, from, call, id)
        BY <2>1, <3>4 DEF Arrive, Redeem, GoodRedeem
      <4>2. Permits!Perform(id)
        BY <1>2, <3>1, <4>1, RedeemingIsPerforming
      <4>. QED BY <4>1, <4>2 DEF Permits!Next
    <3>. QED
      BY <2>1, <3>2, <3>3, <3>4 DEF Arrive
  <2>2. ASSUME NEW t \in Tasks, NEW id \in Ids, PreviewDone(t, id)
        PROVE  [Permits!Next]_(Permits!vars)
    BY <1>2, <2>2, PreviewIssues DEF Permits!Next
  <2>3. ASSUME NEW t \in Tasks, PreviewFails(t) \/ ToolReturns(t) \/ Deliver(t)
        PROVE  [Permits!Next]_(Permits!vars)
    BY <2>3, SamePermits DEF PreviewFails, ToolReturns, Deliver
  <2>4. CASE Tick
    BY <1>2, <2>4, TickLapses DEF Permits!Next
  <2>5. CASE Restart
    BY <1>2, <2>5, LosingIsRevoking DEF Restart, Permits!Next
  <2>6. CASE UNCHANGED vars
    BY <2>6, SamePermits DEF vars
  <2>. QED BY <1>2, <2>1, <2>2, <2>3, <2>4, <2>5, <2>6 DEF Next
<1>3. IInv => TypeOK /\ OneGrantPerId
  BY DEF IInv
<1>. QED
  BY <1>1, <1>2, <1>3, Invariance, PTL DEF Spec, ImplementsPermits, Permits!Spec
====
