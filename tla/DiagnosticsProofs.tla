---- MODULE DiagnosticsProofs ----
(***************************************************************************)
(* What Diagnostics guarantees for any number of calls, channels, edits    *)
(* and sections: no call takes up a device older than the TTL, and a       *)
(* section has the result that its own backend gave it.  The types are     *)
(* inductive; that devices expire and sections are independent then        *)
(* follows step by step.                                                   *)
(***************************************************************************)
EXTENDS Diagnostics, SequenceLemmas, FiniteSetTheorems, TLAPS

----
(* A step of one call leaves the others alone. *)
LEMMA CallsAfter ==
  ASSUME TypeOK, NEW c \in Calls, NEW state, Becomes(c, state)
  PROVE  /\ call' = [d \in Calls |-> call'[d]]
         /\ call'[c] = state
         /\ \A d \in Calls \ {c} : call'[d] = call[d]
BY DEF TypeOK, Becomes

(* No request ends with the error of missing settings, or an unknown one.  *)
LEMMA ErrorsOfRequests ==
  \A r \in DOMAIN Requests : ErrorsOf(r) \subseteq DOMAIN StatusOf \ {"ProviderUnconfiguredError"}
<1>. DEFINE Errors == {"ProviderUnavailableError", "ProviderTimeoutError", "ArgusError", "Exception"}
<1>1. \A m \in DOMAIN Archiver : Archiver[m] \in Errors \cup {"ok"}
  BY DEF Archiver
<1>2. /\ \A m \in DOMAIN ArgoCD : ArgoCD[m] \in Errors \cup {"ok"}
      /\ \A m \in DOMAIN Olog : Olog[m] \in Errors \cup {"ok"}
  <2>1. /\ DOMAIN ArgoCD = DOMAIN Archiver
        /\ \A m \in DOMAIN Archiver : ArgoCD[m] \in {Archiver[m], "ok", "ArgusError", "Exception"}
    BY DEF ArgoCD
  <2>2. /\ DOMAIN Olog = DOMAIN Archiver
        /\ \A m \in DOMAIN Archiver : Olog[m] \in {Archiver[m], "ArgusError"}
    BY DEF Olog
  <2>. QED  BY <1>1, <2>1, <2>2
<1>3. /\ \A m \in DOMAIN Pods : Pods[m] \in Errors \cup {"ok"}
      /\ \A m \in DOMAIN PodLogs : PodLogs[m] \in Errors \cup {"ok"}
  BY DEF Pods, PodLogs
<1>4. /\ \A m \in DOMAIN LivePVs : LivePVs[m] \in Errors \cup {"ok"}
      /\ \A m \in DOMAIN Tfidf : Tfidf[m] \in Errors \cup {"ok"}
  BY DEF LivePVs, Tfidf
<1>5. /\ \A m \in DOMAIN HubDocuments : HubDocuments[m] \in Errors \cup {"ok"}
      /\ \A m \in DOMAIN HubLogbook : HubLogbook[m] \in Errors \cup {"ok"}
  BY DEF HubDocuments, HubLogbook
<1>6. ASSUME NEW r \in DOMAIN Requests
      PROVE  Requests[r] \in {LivePVs, Archiver, Pods, PodLogs, ArgoCD, Olog, HubLogbook, Tfidf, HubDocuments}
  BY DEF Requests, Loki, Ragflow
<1>7. ASSUME NEW r \in DOMAIN Requests, NEW m \in DOMAIN Requests[r]
      PROVE  Requests[r][m] \in Errors \cup {"ok"}
  <2>. HIDE DEF Errors
  <2>. QED  BY <1>1, <1>2, <1>3, <1>4, <1>5, <1>6, Zenon
<1>8. Errors \subseteq DOMAIN StatusOf \ {"ProviderUnconfiguredError"}
  BY DEF StatusOf
<1>. HIDE DEF Errors
<1>. QED  BY <1>7, <1>8 DEF ErrorsOf

(* Every section has a request, and a table of how it can end. *)
LEMMA RequestsOfSections == \A s \in Sections : RequestOf(s) \in DOMAIN Requests
BY SectionAssumption
   DEF RequestOf, BackendOf, Requests, PodLogsBackend, LogbookBackend, DocumentationBackend

(* How a section ends: with a status that it may say. *)
LEMMA SectionEndsWith ==
  ASSUME NEW c \in Calls, NEW s \in Sections, SectionEnds(c, s)
  PROVE  \E status \in Statuses :
           Ends(c, s, status) /\ (status = "unconfigured" <=> ~ IsConfigured(s))
<1>1. CASE Answers(c, s)
  BY <1>1 DEF Answers, Statuses
<1>2. CASE Refuses(c, s)
  BY <1>2 DEF Refuses, StatusOf, Statuses
<1>3. CASE Raises(c, s)
  <2>1. PICK e \in ErrorsOf(RequestOf(s)) : Ends(c, s, StatusOf[e])
    BY <1>3 DEF Raises
  <2>2. e \in DOMAIN StatusOf \ {"ProviderUnconfiguredError"}
    BY <2>1, RequestsOfSections, ErrorsOfRequests
  <2>3. StatusOf[e] \in Statuses /\ StatusOf[e] # "unconfigured"
    BY <2>2 DEF StatusOf, Statuses
  <2>. QED  BY <1>3, <2>1, <2>3 DEF Raises
<1>4. CASE TimesOut(c, s)
  BY <1>4 DEF TimesOut, Statuses
<1>. QED  BY <1>1, <1>2, <1>3, <1>4 DEF SectionEnds

(* A report begins with its sections running or skipped. *)
LEMMA NewResults ==
  ASSUME NEW tool \in Tools, NEW device
  PROVE  [s \in SectionsOf(tool) |-> IF Asked(s, device) THEN "running" ELSE "skipped"] \in Results
<1>1. [s \in SectionsOf(tool) |-> IF Asked(s, device) THEN "running" ELSE "skipped"]
        \in [SectionsOf(tool) -> Statuses \cup {"running"}]
  BY DEF Statuses
<1>. QED  BY <1>1 DEF Results

(* A section that is settled leaves a report. *)
LEMMA SettledResults ==
  ASSUME NEW results \in Results, NEW section \in DOMAIN results, NEW status \in Statuses
  PROVE  [results EXCEPT ![section] = status] \in Results
BY DEF Results

(* A call that sets out or goes on as state, at an unchanged clock. *)
LEMMA StateOfProbing ==
  ASSUME NEW tool \in Tools, NEW e, IsEntry(e)
  PROVE  IsCallState(Probing(tool, e))
<1>. DEFINE results == [s \in SectionsOf(tool) |-> IF Asked(s, e.device) THEN "running" ELSE "skipped"]
<1>1. results \in Results
  BY NewResults
<1>2. Probing(tool, e) = [pc |-> "probing", entry |-> e, results |-> results]
  BY DEF Probing
<1>. HIDE DEF results
<1>3. /\ Probing(tool, e).pc = "probing"
      /\ Probing(tool, e).entry = e
      /\ Probing(tool, e).results = results
  BY <1>2
<1>. QED  BY <1>1, <1>2, <1>3, Zenon DEF IsCallState

(* What the cache is given is an entry. *)
LEMMA EntryIsEntry ==
  ASSUME TypeOK, NEW device, NEW sure PROVE IsEntry(Entry(device, sure))
BY DEF IsEntry, Entry, TypeOK

(* A call that is under way has its tool. *)
LEMMA ToolOfState ==
  ASSUME NEW s, IsCallState(s), s.pc \in {"waiting", "finding", "getting"}
  PROVE  s.tool \in Tools
BY DEF IsCallState, Waiting, Finding, Getting, Idle, Raised

(* The two kinds of steps of a call: it changes its own state, and it may  *)
(* put a new entry into the cache.                                         *)
LEMMA TypesAfter ==
  ASSUME TypeOK, NEW c \in Calls, NEW state, Becomes(c, state), IsCallState(state),
         UNCHANGED <<now, configured, registry, changes>>,
         holder' \in Calls \cup {NoCall},
         cached' = cached \/ \E e : IsEntry(e) /\ cached' = {e}
  PROVE  TypeOK'
<1>1. Cardinality(cached') <= 1
  <2>1. CASE cached' = cached
    BY <2>1 DEF TypeOK
  <2>2. ASSUME NEW e, cached' = {e} PROVE Cardinality(cached') <= 1
    <3>1. Cardinality({e}) = 1
      BY FS_Singleton
    <3>. QED  BY <2>2, <3>1
  <2>. QED  BY <2>1, <2>2
<1>2. \A e \in cached' : IsEntry(e)
  BY DEF TypeOK
<1>3. \A d \in Calls : IsCallState(call'[d])
  BY CallsAfter DEF TypeOK
<1>. QED  BY <1>1, <1>2, <1>3, CallsAfter DEF TypeOK

(* What is known of a call whose probes are out. *)
LEMMA ProbingState ==
  ASSUME TypeOK, NEW c \in Calls, call[c].pc = "probing"
  PROVE  /\ call[c] = [pc |-> "probing", entry |-> call[c].entry, results |-> call[c].results]
         /\ IsEntry(call[c].entry) /\ call[c].results \in Results
BY DEF TypeOK, IsCallState, Waiting, Finding, Getting, Idle, Raised

(* A section that ends changes the report of its call only. *)
LEMMA EndsIsLocal ==
  ASSUME TypeOK, NEW c \in Calls, NEW section, NEW status, Ends(c, section, status)
  PROVE  Becomes(c, [pc |-> "probing", entry |-> call[c].entry,
                     results |-> [call[c].results EXCEPT ![section] = status]])
<1>. DEFINE results == [call[c].results EXCEPT ![section] = status]
<1>1. call' = [call EXCEPT ![c] = [call[c] EXCEPT !.results = results]]
  BY DEF Ends
<1>2. call[c] = [pc |-> "probing", entry |-> call[c].entry, results |-> call[c].results]
  BY ProbingState DEF Ends
<1>3. ASSUME NEW s, s = [pc |-> "probing", entry |-> s.entry, results |-> s.results]
      PROVE  \A x : [s EXCEPT !.results = x] = [pc |-> "probing", entry |-> s.entry, results |-> x]
  BY <1>3
<1>. HIDE DEF results
<1>4. [call[c] EXCEPT !.results = results]
        = [pc |-> "probing", entry |-> call[c].entry, results |-> results]
  BY <1>2, <1>3, Zenon
<1>5. Becomes(c, [pc |-> "probing", entry |-> call[c].entry, results |-> results])
  BY <1>1, <1>4, Zenon DEF Becomes
<1>. QED  BY <1>5 DEF results

LEMMA TypeStep == ASSUME TypeOK, [Next]_vars PROVE TypeOK'
<1>1. CASE UNCHANGED vars
  BY <1>1 DEF TypeOK, vars, IsCallState, IsEntry
<1>2. ASSUME NEW c \in Calls, NEW tool \in Tools, NEW e \in cached
      PROVE  IsCallState(Probing(tool, e))
  BY <1>2, StateOfProbing DEF TypeOK
<1>3. ASSUME NEW c \in Calls, NEW tool \in Tools, Lookup(c, tool),
             UNCHANGED <<now, configured, registry, changes>>
      PROVE  TypeOK'
  <2>1. CASE "channelfinder" \in configured
    <3>1. IsCallState(Finding(tool))
      BY DEF IsCallState
    <3>. QED  BY <1>3, <2>1, <3>1, TypesAfter DEF Lookup
  <2>2. CASE "channelfinder" \notin configured
    <3>1. IsEntry(Entry(BareDevice, FALSE))
      BY EntryIsEntry
    <3>2. IsCallState(Probing(tool, Entry(BareDevice, FALSE)))
      BY <3>1, StateOfProbing
    <3>. QED  BY <1>3, <2>2, <3>1, <3>2, TypesAfter DEF Lookup, Resolved
  <2>. QED  BY <2>1, <2>2
<1>4. ASSUME NEW c \in Calls, NEW tool \in Tools, Hit(c, tool),
             UNCHANGED <<now, configured, registry, changes, cached, holder>>
      PROVE  TypeOK'
  <2>1. PICK e \in cached : Becomes(c, Probing(tool, e))
    BY <1>4 DEF Hit, Fresh
  <2>2. holder' \in Calls \cup {NoCall}
    BY <1>4 DEF TypeOK
  <2>. QED  BY <1>4, <2>1, <2>2, <1>2, TypesAfter
<1>5. ASSUME NEW c \in Calls, NEW tool \in Tools, Begin(c, tool) PROVE TypeOK'
  <2>1. IsCallState(Waiting(tool))
    BY DEF IsCallState
  <2>2. CASE Becomes(c, Waiting(tool)) /\ UNCHANGED <<cached, holder>>
    BY <1>5, <2>1, <2>2, TypesAfter DEF Begin, TypeOK
  <2>. QED  BY <1>3, <1>4, <1>5, <2>2 DEF Begin
<1>6. ASSUME NEW c \in Calls, GetLock(c) PROVE TypeOK'
  <2>1. call[c].tool \in Tools
    BY <1>6, ToolOfState DEF GetLock, TypeOK
  <2>. QED  BY <1>3, <1>4, <1>6, <2>1 DEF GetLock
<1>7. ASSUME NEW c \in Calls, NEW device, NEW sure \in BOOLEAN, LookingUp(c),
             Resolved(c, call[c].tool, Entry(device, sure)), Release(c),
             UNCHANGED <<now, configured, registry, changes>>
      PROVE  TypeOK'
  <2>1. call[c].tool \in Tools
    BY <1>7, ToolOfState DEF LookingUp, TypeOK
  <2>2. IsEntry(Entry(device, sure))
    BY EntryIsEntry
  <2>3. IsCallState(Probing(call[c].tool, Entry(device, sure)))
    BY <2>1, <2>2, StateOfProbing
  <2>4. holder' \in Calls \cup {NoCall}
    BY <1>7 DEF Release, TypeOK
  <2>. QED  BY <1>7, <2>2, <2>3, <2>4, TypesAfter DEF Resolved
<1>8. ASSUME NEW c \in Calls, NEW sure \in BOOLEAN, LookingUp(c),
             Becomes(c, Getting(call[c].tool, sure)),
             UNCHANGED <<now, configured, registry, changes, cached, holder>>
      PROVE  TypeOK'
  <2>1. call[c].tool \in Tools
    BY <1>8, ToolOfState DEF LookingUp, TypeOK
  <2>2. IsCallState(Getting(call[c].tool, sure))
    BY <2>1 DEF IsCallState
  <2>. QED  BY <1>8, <2>2, TypesAfter DEF TypeOK
<1>9. ASSUME NEW c \in Calls, LookupEnds(c) PROVE TypeOK'
  <2>1. CASE Found(c)
    <3>1. CASE Grouped(registry) # {}
      BY <2>1, <3>1, <1>7 DEF Found, LookingUp
    <3>2. CASE Grouped(registry) = {}
      BY <2>1, <3>2, <1>8 DEF Found, LookingUp
    <3>. QED  BY <3>1, <3>2
  <2>2. CASE FindFails(c)
    BY <2>2, <1>8 DEF FindFails, LookingUp
  <2>3. CASE Got(c)
    <3>1. call[c].sure \in BOOLEAN
      <4>1. PICK tool \in Tools : \E sure \in BOOLEAN : call[c] = Getting(tool, sure)
        BY <2>3 DEF Got, TypeOK, IsCallState, Waiting, Finding, Idle, Raised
      <4>. QED  BY <4>1 DEF Getting
    <3>. QED  BY <2>3, <3>1, <1>7 DEF Got, LookingUp
  <2>4. CASE GetFails(c)
    BY <2>4, <1>7 DEF GetFails, LookingUp
  <2>5. CASE OddAnswer(c)
    <3>1. IsCallState(Raised)
      BY DEF IsCallState
    <3>. QED  BY <2>5, <3>1, TypesAfter DEF OddAnswer, Release, TypeOK
  <2>. QED  BY <1>9, <2>1, <2>2, <2>3, <2>4, <2>5 DEF LookupEnds
<1>11. ASSUME NEW c \in Calls, NEW section, NEW status \in Statuses, Ends(c, section, status) PROVE TypeOK'
  <2>. DEFINE results == [call[c].results EXCEPT ![section] = status]
              state == [pc |-> "probing", entry |-> call[c].entry, results |-> results]
  <2>1. results \in Results
    BY <1>11, ProbingState, SettledResults DEF Ends
  <2>2. Becomes(c, state)
    BY <1>11, EndsIsLocal
  <2>. HIDE DEF results
  <2>3. IsCallState(state)
    BY <2>1, <1>11, ProbingState DEF IsCallState, Ends
  <2>. HIDE DEF state
  <2>. QED  BY <1>11, <2>2, <2>3, TypesAfter DEF Ends, TypeOK
<1>12. ASSUME NEW c \in Calls, NEW section \in Sections,
              SectionEnds(c, section)
       PROVE  TypeOK'
  BY <1>11, <1>12, SectionEndsWith
<1>13. ASSUME NEW c \in Calls, Report(c) PROVE TypeOK'
  <2>1. IsCallState([pc |-> "reported", results |-> call[c].results])
    BY <1>13, ProbingState DEF Report, IsCallState
  <2>. QED  BY <1>13, <2>1, TypesAfter DEF Report, TypeOK
<1>14. ASSUME NEW c \in Calls, Deliver(c) \/ Cancel(c) PROVE TypeOK'
  <2>1. IsCallState(Idle)
    BY DEF IsCallState
  <2>. QED  BY <1>14, <2>1, TypesAfter DEF Deliver, Cancel, Release, TypeOK
<1>15. CASE RegistryChanges
  <2>1. ASSUME NEW c \in Calls PROVE IsCallState(call'[c])
    <3>1. CASE call[c].pc = "getting"
      <4>1. PICK tool \in Tools, sure \in BOOLEAN : call[c] = Getting(tool, sure)
        BY <3>1 DEF TypeOK, IsCallState, Waiting, Finding, Idle, Raised
      <4>2. call'[c] = [call[c] EXCEPT !.sure = FALSE]
        BY <1>15, <3>1 DEF RegistryChanges
      <4>3. ASSUME NEW s, s = [pc |-> "getting", tool |-> s.tool, sure |-> s.sure]
            PROVE  \A x : [s EXCEPT !.sure = x] = [pc |-> "getting", tool |-> s.tool, sure |-> x]
        BY <4>3
      <4>4. call[c] = [pc |-> "getting", tool |-> call[c].tool, sure |-> call[c].sure] /\ call[c].tool = tool
        BY <4>1 DEF Getting
      <4>5. [call[c] EXCEPT !.sure = FALSE] = [pc |-> "getting", tool |-> call[c].tool, sure |-> FALSE]
        BY <4>3, <4>4, Zenon
      <4>6. call'[c] = Getting(tool, FALSE)
        BY <4>2, <4>4, <4>5, Zenon DEF Getting
      <4>. QED  BY <4>6 DEF IsCallState
    <3>2. CASE call[c].pc # "getting"
      BY <1>15, <3>2 DEF RegistryChanges, TypeOK
    <3>. QED  BY <3>1, <3>2
  <2>2. call' = [c \in Calls |-> call'[c]]
    BY <1>15 DEF RegistryChanges
  <2>. QED  BY <1>15, <2>1, <2>2, BoundAssumption DEF RegistryChanges, TypeOK
<1>16. CASE Tick
  BY <1>16, BoundAssumption DEF Tick, TypeOK
<1>. QED  BY <1>1, <1>5, <1>6, <1>9, <1>12, <1>13, <1>14, <1>15, <1>16 DEF Next

LEMMA InitIsFine == Init => TypeOK
<1>1. Cardinality({}) = 0
  BY FS_EmptySet
<1>. QED  BY <1>1, BoundAssumption DEF Init, TypeOK, IsCallState, Idle

(* The types of the variables (every field that a report of                *)
(* diagnostics_service.py shows), for any number of calls, whatever the    *)
(* requests of any section meet.                                           *)
THEOREM TypeCorrect == Spec => []TypeOK
<1>1. TypeOK /\ [Next]_vars => TypeOK'
  BY TypeStep
<1>. QED  BY InitIsFine, <1>1, PTL DEF Spec

----
(* What a step does to a call that is probing, or is about to be. *)

(* While the probes are out, one section is settled at a time. *)
LEMMA StepOfProbing ==
  ASSUME TypeOK, [Next]_vars, NEW c \in Calls,
         call[c].pc = "probing", call'[c].pc \in {"probing", "reported"}
  PROVE  \/ call'[c].results = call[c].results
         \/ \E s \in DOMAIN call[c].results : \E status :
              /\ call[c].results[s] = "running"
              /\ call'[c].results = [call[c].results EXCEPT ![s] = status]
              /\ status = "unconfigured" <=> ~ IsConfigured(s)
<1>. DEFINE Settled ==
       \/ call'[c].results = call[c].results
       \/ \E s \in DOMAIN call[c].results : \E status :
            /\ call[c].results[s] = "running"
            /\ call'[c].results = [call[c].results EXCEPT ![s] = status]
            /\ status = "unconfigured" <=> ~ IsConfigured(s)
<1>. HIDE DEF Settled
<1>1. ASSUME UNCHANGED vars PROVE Settled
  BY <1>1 DEF vars, Settled
<1>2. ASSUME NEW d \in Calls, NEW state, Becomes(d, state), d # c PROVE call'[c] = call[c]
  BY <1>2, CallsAfter
<1>3. ASSUME NEW d \in Calls, NEW tool \in Tools, Begin(d, tool) PROVE call'[c] = call[c]
  <2>1. d # c
    BY <1>3 DEF Begin, Idle
  <2>. QED  BY <1>2, <1>3, <2>1 DEF Begin, Hit, Lookup, Resolved
<1>4. ASSUME NEW d \in Calls, GetLock(d) \/ LookupEnds(d) \/ Deliver(d) PROVE call'[c] = call[c]
  <2>1. d # c
    BY <1>4 DEF GetLock, LookupEnds, Found, FindFails, Got, GetFails, OddAnswer, LookingUp, Deliver
  <2>. QED
    BY <1>2, <1>4, <2>1
       DEF GetLock, Hit, Lookup, Resolved, LookupEnds, Found, FindFails, Got, GetFails, OddAnswer, Deliver
<1>5. ASSUME NEW d \in Calls, Cancel(d) PROVE call'[c] = call[c]
  <2>1. d # c
    BY <1>5, CallsAfter DEF Cancel, Idle
  <2>. QED  BY <1>2, <1>5, <2>1 DEF Cancel
<1>6. ASSUME NEW d \in Calls, Report(d) PROVE call'[c].results = call[c].results
  <2>1. CASE d = c
    BY <1>6, <2>1, CallsAfter DEF Report
  <2>2. CASE d # c
    BY <1>2, <1>6, <2>2 DEF Report
  <2>. QED  BY <2>1, <2>2
<1>7. ASSUME NEW d \in Calls, NEW section, NEW status, Ends(d, section, status), d = c
      PROVE  /\ section \in DOMAIN call[c].results
             /\ call[c].results[section] = "running"
             /\ call'[c].results = [call[c].results EXCEPT ![section] = status]
  <2>. DEFINE results == [call[c].results EXCEPT ![section] = status]
  <2>1. Becomes(c, [pc |-> "probing", entry |-> call[c].entry, results |-> results])
    BY <1>7, EndsIsLocal
  <2>. HIDE DEF results
  <2>2. call'[c].results = results
    BY <2>1, CallsAfter
  <2>. QED  BY <1>7, <2>2 DEF results, Ends
<1>8. ASSUME NEW d \in Calls, NEW section, NEW status, Ends(d, section, status), d # c
      PROVE  call'[c] = call[c]
  BY <1>8 DEF Ends, TypeOK
<1>9. ASSUME NEW d \in Calls, NEW s \in Sections, SectionEnds(d, s)
      PROVE  \E status : Ends(d, s, status) /\ (status = "unconfigured" <=> ~ IsConfigured(s))
  BY <1>9, SectionEndsWith
<1>10. ASSUME RegistryChanges PROVE Settled
  BY <1>10 DEF RegistryChanges, Settled
<1>11. ASSUME Tick PROVE Settled
  BY <1>11 DEF Tick, Settled
<1>12. call'[c].results = call[c].results => Settled
  BY DEF Settled
<1>13. ASSUME NEW d \in Calls, NEW s \in Sections, SectionEnds(d, s)
       PROVE  Settled
  <2>1. PICK status : Ends(d, s, status) /\ (status = "unconfigured" <=> ~ IsConfigured(s))
    BY <1>9, <1>13
  <2>2. CASE d = c
    <3>1. /\ s \in DOMAIN call[c].results
          /\ call[c].results[s] = "running"
          /\ call'[c].results = [call[c].results EXCEPT ![s] = status]
      BY <1>7, <2>1, <2>2
    <3>. QED  BY <2>1, <3>1 DEF Settled
  <2>3. CASE d # c
    <3>1. call'[c] = call[c]
      BY <1>8, <2>1, <2>3
    <3>. QED  BY <3>1, <1>12
  <2>. QED  BY <2>2, <2>3
<1>14. Settled
  <2>1. CASE \E d \in Calls, tool \in Tools : Begin(d, tool)
    BY <1>3, <1>12, <2>1
  <2>2. CASE \E d \in Calls : GetLock(d) \/ LookupEnds(d) \/ Report(d) \/ Deliver(d) \/ Cancel(d)
    BY <1>4, <1>5, <1>6, <1>12, <2>2
  <2>3. CASE \E d \in Calls, s \in Sections : SectionEnds(d, s)
    BY <1>13, <2>3
  <2>4. CASE RegistryChanges \/ Tick \/ UNCHANGED vars
    BY <1>1, <1>10, <1>11, <2>4
  <2>. QED  BY <2>1, <2>2, <2>3, <2>4 DEF Next
<1>. QED  BY <1>14 DEF Settled

(* The probes are sent with an entry that is not expired. *)
LEMMA StepIntoProbing ==
  ASSUME TypeOK, [Next]_vars, NEW c \in Calls,
         call[c].pc # "probing", call'[c].pc = "probing"
  PROVE  now - call'[c].entry.made < TTL
<1>1. CASE UNCHANGED vars
  BY <1>1 DEF vars
<1>2. ASSUME NEW d \in Calls, NEW state, Becomes(d, state), state.pc # "probing" PROVE FALSE
  BY <1>2, CallsAfter
<1>3. ASSUME NEW d \in Calls, NEW tool, NEW e, Becomes(d, Probing(tool, e)) PROVE d = c /\ call'[c].entry = e
  <2>1. d = c
    BY <1>3, CallsAfter
  <2>2. call'[c] = Probing(tool, e)
    BY <1>3, <2>1, CallsAfter
  <2>. QED  BY <2>1, <2>2 DEF Probing
<1>4. ASSUME NEW d \in Calls, NEW tool, Hit(d, tool) PROVE now - call'[c].entry.made < TTL
  <2>1. PICK e \in Fresh : Becomes(d, Probing(tool, e))
    BY <1>4 DEF Hit
  <2>2. e \in cached /\ now < e.made + TTL
    BY <2>1 DEF Fresh
  <2>3. e.made \in Int /\ now \in Int
    BY <2>2, BoundAssumption DEF TypeOK, IsEntry
  <2>. QED  BY <1>3, <2>1, <2>2, <2>3, BoundAssumption
<1>5. ASSUME NEW d \in Calls, NEW tool, NEW device, NEW sure, Resolved(d, tool, Entry(device, sure))
      PROVE  now - call'[c].entry.made < TTL
  <2>1. call'[c].entry = Entry(device, sure)
    BY <1>3, <1>5 DEF Resolved
  <2>. QED  BY <2>1, BoundAssumption DEF Entry, TypeOK
<1>6. ASSUME NEW tool, NEW sure
      PROVE  /\ Waiting(tool).pc # "probing" /\ Finding(tool).pc # "probing"
             /\ Getting(tool, sure).pc # "probing" /\ Idle.pc # "probing" /\ Raised.pc # "probing"
  BY DEF Waiting, Finding, Getting, Idle, Raised
<1>7. ASSUME NEW d \in Calls, NEW tool, Lookup(d, tool) PROVE now - call'[c].entry.made < TTL
  BY <1>2, <1>5, <1>6, <1>7 DEF Lookup
<1>8. ASSUME NEW d \in Calls, NEW tool \in Tools, Begin(d, tool) PROVE now - call'[c].entry.made < TTL
  BY <1>2, <1>4, <1>6, <1>7, <1>8 DEF Begin
<1>9. ASSUME NEW d \in Calls, GetLock(d) PROVE now - call'[c].entry.made < TTL
  BY <1>4, <1>7, <1>9 DEF GetLock
<1>10. ASSUME NEW d \in Calls, LookupEnds(d) PROVE now - call'[c].entry.made < TTL
  BY <1>2, <1>5, <1>6, <1>10 DEF LookupEnds, Found, FindFails, Got, GetFails, OddAnswer
<1>11. ASSUME NEW d \in Calls, Report(d) \/ Deliver(d) \/ Cancel(d) PROVE FALSE
  <2>1. \A results : [pc |-> "reported", results |-> results].pc # "probing"
    OBVIOUS
  <2>. QED  BY <1>2, <1>6, <1>11, <2>1 DEF Report, Deliver, Cancel
<1>12. ASSUME NEW d \in Calls, NEW s \in Sections, SectionEnds(d, s)
       PROVE  FALSE
  <2>1. PICK status : Ends(d, s, status)
    BY <1>12, SectionEndsWith
  <2>. QED  BY <2>1 DEF Ends, TypeOK
<1>13. CASE RegistryChanges
  BY <1>13 DEF RegistryChanges
<1>14. CASE Tick
  BY <1>14 DEF Tick
<1>. QED  BY <1>1, <1>8, <1>9, <1>10, <1>11, <1>12, <1>13, <1>14 DEF Next

(* AsyncTTLCache never hands out a device that was looked up longer ago    *)
(* than the TTL.                                                           *)
THEOREM DevicesDoExpire == Spec => DevicesExpire
<1>1. TypeOK /\ [Next]_vars =>
        [\A c \in Calls :
           (call[c].pc # "probing" /\ call'[c].pc = "probing") => now - call'[c].entry.made < TTL]_vars
  BY StepIntoProbing
<1>. QED  BY TypeCorrect, <1>1, PTL DEF Spec, DevicesExpire

(* gather_with_timeout settles the sections one by one, each for good and  *)
(* by what its own backend has.                                            *)
THEOREM SectionsDoNotInterfere == Spec => SectionsAreIndependent
<1>1. ASSUME TypeOK, [Next]_vars, NEW c \in Calls,
             call[c].pc = "probing", call'[c].pc \in {"probing", "reported"}
      PROVE  LET changed == {s \in DOMAIN call[c].results : call'[c].results[s] # call[c].results[s]} IN
               /\ Cardinality(changed) <= 1
               /\ \A s \in changed :
                    /\ call[c].results[s] = "running"
                    /\ call'[c].results[s] = "unconfigured" <=> ~ IsConfigured(s)
  <2>. DEFINE changed == {s \in DOMAIN call[c].results : call'[c].results[s] # call[c].results[s]}
              Fine(s) == /\ call[c].results[s] = "running"
                         /\ call'[c].results[s] = "unconfigured" <=> ~ IsConfigured(s)
  <2>1. changed = {} \/ \E s : changed = {s} /\ Fine(s)
    <3>1. CASE call'[c].results = call[c].results
      BY <3>1
    <3>2. ASSUME NEW s \in DOMAIN call[c].results, NEW status, call[c].results[s] = "running",
                 call'[c].results = [call[c].results EXCEPT ![s] = status],
                 status = "unconfigured" <=> ~ IsConfigured(s)
          PROVE  changed = {} \/ (changed = {s} /\ Fine(s))
      <4>1. changed \subseteq {s} /\ call'[c].results[s] = status
        BY <3>2
      <4>2. Fine(s)
        BY <3>2, <4>1
      <4>. HIDE DEF changed, Fine
      <4>. QED  BY <4>1, <4>2
    <3>. HIDE DEF changed, Fine
    <3>3. CASE \E s \in DOMAIN call[c].results : \E status :
                 /\ call[c].results[s] = "running"
                 /\ call'[c].results = [call[c].results EXCEPT ![s] = status]
                 /\ status = "unconfigured" <=> ~ IsConfigured(s)
      BY <3>2, <3>3
    <3>4. \/ call'[c].results = call[c].results
          \/ \E s \in DOMAIN call[c].results : \E status :
               /\ call[c].results[s] = "running"
               /\ call'[c].results = [call[c].results EXCEPT ![s] = status]
               /\ status = "unconfigured" <=> ~ IsConfigured(s)
      BY <1>1, StepOfProbing
    <3>. QED  BY <3>1, <3>3, <3>4
  <2>. HIDE DEF changed, Fine
  <2>2. Cardinality(changed) <= 1 /\ \A s \in changed : Fine(s)
    <3>1. CASE changed = {}
      <4>1. Cardinality({}) = 0
        BY FS_EmptySet
      <4>. QED  BY <3>1, <4>1
    <3>2. ASSUME NEW s, changed = {s}, Fine(s)
          PROVE  Cardinality(changed) <= 1 /\ \A x \in changed : Fine(x)
      <4>1. Cardinality({s}) = 1
        BY FS_Singleton
      <4>. QED  BY <3>2, <4>1
    <3>. QED  BY <2>1, <3>1, <3>2
  <2>. QED  BY <2>2 DEF changed, Fine
<1>2. TypeOK /\ [Next]_vars =>
        [\A c \in Calls :
           (call[c].pc = "probing" /\ call'[c].pc \in {"probing", "reported"}) =>
             LET changed == {s \in DOMAIN call[c].results : call'[c].results[s] # call[c].results[s]} IN
               /\ Cardinality(changed) <= 1
               /\ \A s \in changed :
                    /\ call[c].results[s] = "running"
                    /\ call'[c].results[s] = "unconfigured" <=> ~ IsConfigured(s)]_vars
  BY <1>1
<1>. QED  BY TypeCorrect, <1>2, PTL DEF Spec, SectionsAreIndependent

----
(* The device that channels make: what _build_device has put together when *)
(* its loop has gone over a set of places.                                 *)

Looped(channels, f, places) ==
  f = [d \in SUBSET places |->
         IF d = {} THEN NoChannels ELSE With(f[d \ {Max(d)}], channels[Max(d)])]

(* There is such a function: it is built place by place. *)
LEMMA LoopedExists ==
  ASSUME NEW channels, NEW n \in Nat PROVE \E f : Looped(channels, f, 1..n)
<1>. DEFINE S == {m \in Nat : \E f : Looped(channels, f, 1..m)}
<1>1. 0 \in S
  <2>. DEFINE f == [d \in SUBSET (1..0) |-> NoChannels]
  <2>1. \A d \in SUBSET (1..0) : d = {}
    OBVIOUS
  <2>2. Looped(channels, f, 1..0)
    BY <2>1 DEF Looped
  <2>. QED  BY <2>2
<1>2. ASSUME NEW m \in Nat, m \in S PROVE m + 1 \in S
  <2>1. PICK f : Looped(channels, f, 1..m)
    BY <1>2
  <2>. DEFINE g == [d \in SUBSET (1..(m + 1)) |->
                      IF m + 1 \in d THEN With(f[d \ {m + 1}], channels[m + 1]) ELSE f[d]]
  <2>2. ASSUME NEW d \in SUBSET (1..(m + 1))
        PROVE  g[d] = IF d = {} THEN NoChannels ELSE With(g[d \ {Max(d)}], channels[Max(d)])
    <3>1. CASE m + 1 \in d
      <4>1. Max(d) = m + 1 /\ d \ {m + 1} \in SUBSET (1..m) /\ m + 1 \notin d \ {m + 1}
        <5>1. m + 1 \notin 1..m
          OBVIOUS
        <5>. QED  BY <3>1, <5>1, LastPlace
      <4>2. d \ {m + 1} \in SUBSET (1..(m + 1))
        OBVIOUS
      <4>3. g[d \ {m + 1}] = f[d \ {m + 1}]
        BY <4>1, <4>2
      <4>. QED  BY <3>1, <4>1, <4>3
    <3>2. CASE m + 1 \notin d
      <4>1. d \in SUBSET (1..m)
        BY <3>2
      <4>2. f[d] = IF d = {} THEN NoChannels ELSE With(f[d \ {Max(d)}], channels[Max(d)])
        BY <2>1, <4>1 DEF Looped
      <4>3. d \ {Max(d)} \in SUBSET (1..(m + 1)) /\ m + 1 \notin d \ {Max(d)}
        BY <3>2
      <4>4. g[d \ {Max(d)}] = f[d \ {Max(d)}] /\ g[d] = f[d]
        BY <3>2, <4>3
      <4>. QED  BY <4>2, <4>4
    <3>. QED  BY <3>1, <3>2
  <2>. HIDE DEF g
  <2>3. g = [d \in SUBSET (1..(m + 1)) |-> g[d]]
    BY DEF g
  <2>4. Looped(channels, g, 1..(m + 1))
    BY <2>2, <2>3 DEF Looped
  <2>. QED  BY <2>4
<1>. HIDE DEF S
<1>3. Nat \subseteq S
  BY <1>1, <1>2, Induction
<1>. QED  BY <1>3 DEF S

(* MergedChannels is where the loop ends. *)
LEMMA MergedChannelsIs ==
  ASSUME NEW channels, NEW n \in Nat, NEW places, places \subseteq 1..n
  PROVE  \E f : Looped(channels, f, places) /\ MergedChannels(channels, places) = f[places]
<1>1. PICK g : Looped(channels, g, 1..n)
  BY LoopedExists
<1>. DEFINE h == [d \in SUBSET places |-> g[d]]
            F == CHOOSE f : Looped(channels, f, places)
<1>2. \A d \in SUBSET places : /\ d \in SUBSET (1..n)
                               /\ d \ {Max(d)} \in SUBSET places
  OBVIOUS
<1>3. \A d \in SUBSET places :
        h[d] = IF d = {} THEN NoChannels ELSE With(h[d \ {Max(d)}], channels[Max(d)])
  BY <1>1, <1>2 DEF Looped
<1>. HIDE DEF h
<1>4. h = [d \in SUBSET places |-> h[d]]
  BY DEF h
<1>5. Looped(channels, h, places)
  BY <1>3, <1>4 DEF Looped
<1>6. Looped(channels, F, places)
  BY <1>5
<1>7. MergedChannels(channels, places) = F[places]
  BY DEF MergedChannels, MapThenFoldSet, Looped
<1>. QED  BY <1>6, <1>7

(* The channels have names, and their properties decide as update does. *)
Tells(device, channels, from) ==
  LET props(i) == channels[i].properties
      decides(i, p) == p \in DOMAIN props(i) /\ \A j \in from : j > i => p \notin DOMAIN props(j)
  IN  /\ device = [pvs |-> device.pvs, owner |-> device.owner, properties |-> device.properties]
      /\ device.pvs \in Seq({channels[i].name : i \in from})
      /\ Len(device.pvs) = Cardinality(from)
      /\ ToSet(device.pvs) = {channels[i].name : i \in from}
      /\ DOMAIN device.properties = UNION {DOMAIN props(i) : i \in from}
      /\ \A i \in from : \A p \in DOMAIN device.properties :
           decides(i, p) => device.properties[p] = props(i)[p]
      /\ \A i \in from :
           (channels[i].owner # NoValue /\ \A j \in from : j < i => channels[j].owner = NoValue)
             => device.owner = channels[i].owner
      /\ (\A i \in from : channels[i].owner = NoValue) => device.owner = NoValue

(* One more turn of the loop. *)
LEMMA WithTells ==
  ASSUME NEW channels, NEW k \in Nat, NEW from, from \subseteq 1..k,
         NEW device, Tells(device, channels, from)
  PROVE  Tells(With(device, channels[k + 1]), channels, from \cup {k + 1})
<1>. DEFINE c == channels[k + 1]
            to == from \cup {k + 1}
            names == {channels[i].name : i \in from}
            all == {channels[i].name : i \in to}
<1>1. PICK pvs : pvs = Append(device.pvs, c.name)
  OBVIOUS
<1>2. PICK owner : owner = IF device.owner = NoValue THEN c.owner ELSE device.owner
  OBVIOUS
<1>3. PICK properties : properties = Merged(device.properties, c.properties)
  OBVIOUS
<1>4. With(device, c) = [pvs |-> pvs, owner |-> owner, properties |-> properties]
  BY <1>1, <1>2, <1>3 DEF With
<1>5. \A i \in from : i < k + 1 /\ i # k + 1 /\ ~ (i > k + 1) /\ k + 1 > i /\ i \in Nat
  OBVIOUS
<1>6. pvs \in Seq(all) /\ Len(pvs) = Cardinality(to) /\ ToSet(pvs) = all
  <2>1. PICK s \in Seq(all) : s = device.pvs /\ Len(s) = Cardinality(from) /\ ToSet(s) = names
    <3>1. names \subseteq all
      OBVIOUS
    <3>2. \A s \in Seq(names) : s \in Seq(all)
      BY <3>1
    <3>. QED  BY <3>2 DEF Tells
  <2>2. c.name \in all /\ all = names \cup {c.name}
    OBVIOUS
  <2>3. PICK x : x = c.name
    OBVIOUS
  <2>. HIDE DEF c, names, all, to
  <2>4. pvs \in Seq(all) /\ Len(pvs) = Len(s) + 1 /\ ToSet(pvs) = ToSet(s) \cup {x}
    <3>1. /\ pvs = Append(s, x) /\ x \in all
      BY <1>1, <2>1, <2>2, <2>3
    <3>2. /\ Append(s, x) \in Seq(all) /\ Len(Append(s, x)) = Len(s) + 1
          /\ Append(s, x)[Len(s) + 1] = x
          /\ \A i \in 1..Len(s) : Append(s, x)[i] = s[i]
      BY <3>1
    <3>3. DOMAIN s = 1..Len(s) /\ DOMAIN pvs = 1..(Len(s) + 1) /\ Len(s) \in Nat
      BY <3>1, <3>2
    <3>4. \A m \in Nat : 1..(m + 1) = (1..m) \cup {m + 1}
      OBVIOUS
    <3>. QED  BY <3>1, <3>2, <3>3, <3>4 DEF ToSet
  <2>5. Cardinality(to) = Cardinality(from) + 1
    <3>1. IsFiniteSet(1..k)
      BY FS_Interval
    <3>2. IsFiniteSet(from)
      BY <3>1, FS_Subset
    <3>. QED  BY <1>5, <3>2, FS_AddElement DEF to
  <2>. QED  BY <2>1, <2>2, <2>3, <2>4, <2>5
<1>7. DOMAIN properties = UNION {DOMAIN channels[i].properties : i \in to}
  <2>1. DOMAIN properties = DOMAIN device.properties \cup DOMAIN c.properties
    BY <1>3 DEF Merged
  <2>2. DOMAIN device.properties = UNION {DOMAIN channels[i].properties : i \in from}
    BY DEF Tells
  <2>. QED  BY <2>1, <2>2
<1>8. ASSUME NEW i \in to, NEW p \in DOMAIN properties, p \in DOMAIN channels[i].properties,
             \A j \in to : j > i => p \notin DOMAIN channels[j].properties
      PROVE  properties[p] = channels[i].properties[p]
  <2>1. CASE i = k + 1
    BY <1>3, <1>8, <2>1 DEF Merged
  <2>2. CASE i \in from
    <3>1. p \notin DOMAIN c.properties
      BY <1>5, <1>8, <2>2
    <3>2. p \in DOMAIN device.properties
      BY <1>8, <2>2 DEF Tells
    <3>3. properties[p] = device.properties[p]
      BY <1>3, <3>1, <3>2 DEF Merged
    <3>4. \A j \in from : j > i => p \notin DOMAIN channels[j].properties
      BY <1>8
    <3>5. device.properties[p] = channels[i].properties[p]
      BY <1>8, <2>2, <3>2, <3>4 DEF Tells
    <3>. QED  BY <3>3, <3>5
  <2>. QED  BY <2>1, <2>2
<1>9. ASSUME NEW i \in to, channels[i].owner # NoValue,
             \A j \in to : j < i => channels[j].owner = NoValue
      PROVE  owner = channels[i].owner
  <2>1. CASE i = k + 1
    <3>1. \A j \in from : channels[j].owner = NoValue
      BY <1>5, <1>9, <2>1
    <3>2. device.owner = NoValue
      BY <3>1 DEF Tells
    <3>. QED  BY <1>2, <2>1, <3>2
  <2>2. CASE i \in from
    <3>1. \A j \in from : j < i => channels[j].owner = NoValue
      BY <1>9
    <3>2. device.owner = channels[i].owner
      BY <1>9, <2>2, <3>1 DEF Tells
    <3>. QED  BY <1>2, <1>9, <3>2
  <2>. QED  BY <2>1, <2>2
<1>10. (\A i \in to : channels[i].owner = NoValue) => owner = NoValue
  BY <1>2 DEF Tells
<1>. HIDE DEF c
<1>11. Tells([pvs |-> pvs, owner |-> owner, properties |-> properties], channels, to)
  BY <1>6, <1>7, <1>8, <1>9, <1>10 DEF Tells
<1>. QED  BY <1>4, <1>11 DEF c

(* The loop of _build_device loses nothing of the channels, and adds       *)
(* nothing.                                                                *)
LEMMA MergedChannelsTell ==
  ASSUME NEW channels, NEW n \in Nat, NEW places, places \subseteq 1..n
  PROVE  Tells(MergedChannels(channels, places), channels, places)
<1>1. PICK f : Looped(channels, f, places) /\ MergedChannels(channels, places) = f[places]
  BY MergedChannelsIs
<1>. DEFINE S == {k \in Nat : \A d \in SUBSET places : d \subseteq 1..k => Tells(f[d], channels, d)}
<1>2. f[{}] = NoChannels /\ Tells(NoChannels, channels, {})
  <2>1. f[{}] = NoChannels
    BY <1>1 DEF Looped
  <2>2. Cardinality({}) = 0
    BY FS_EmptySet
  <2>3. {channels[i].name : i \in {}} = {} /\ UNION {DOMAIN channels[i].properties : i \in {}} = {}
    OBVIOUS
  <2>4. ToSet(<<>>) = {} /\ <<>> \in Seq({}) /\ Len(<<>>) = 0
    BY DEF ToSet
  <2>. QED  BY <2>1, <2>2, <2>3, <2>4 DEF Tells, NoChannels
<1>3. 0 \in S
  <2>1. \A d \in SUBSET places : d \subseteq 1..0 => d = {}
    OBVIOUS
  <2>. QED  BY <1>2, <2>1
<1>4. ASSUME NEW k \in Nat, k \in S PROVE k + 1 \in S
  <2>1. ASSUME NEW d \in SUBSET places, d \subseteq 1..(k + 1) PROVE Tells(f[d], channels, d)
    <3>1. CASE d \subseteq 1..k
      BY <1>4, <3>1
    <3>2. CASE k + 1 \in d /\ Max(d) = k + 1 /\ d \ {k + 1} \subseteq 1..k
      <4>1. f[d] = With(f[d \ {k + 1}], channels[k + 1])
        BY <1>1, <3>2 DEF Looped
      <4>2. Tells(f[d \ {k + 1}], channels, d \ {k + 1})
        BY <1>4, <3>2
      <4>3. (d \ {k + 1}) \cup {k + 1} = d
        BY <3>2
      <4>4. Tells(With(f[d \ {k + 1}], channels[k + 1]), channels, (d \ {k + 1}) \cup {k + 1})
        <5>. HIDE DEF S
        <5>. QED  BY <3>2, <4>2, WithTells
      <4>. QED  BY <4>1, <4>3, <4>4
    <3>3. d \subseteq 1..k \/ (k + 1 \in d /\ Max(d) = k + 1 /\ d \ {k + 1} \subseteq 1..k)
      <4>. HIDE DEF S
      <4>. QED  BY <2>1, LastPlace
    <3>. QED  BY <3>1, <3>2, <3>3
  <2>. QED  BY <2>1
<1>. HIDE DEF S
<1>5. n \in S
  BY <1>3, <1>4, Induction
<1>. QED  BY <1>1, <1>5 DEF S

----
(* What a lookup ends with. *)

(* The channels of a registration are numbered, so are its groups and      *)
(* names.                                                                  *)
LEMMA PlacesAreNumbers ==
  ASSUME NEW channels \in Registrations
  PROVE  /\ \E n \in Nat : DOMAIN channels = 1..n
         /\ Grouped(channels) \subseteq DOMAIN channels
         /\ Named(channels) \subseteq DOMAIN channels
<1>1. channels \in Seq(ToSet(channels))
  BY RegistrationAssumption
<1>2. Len(channels) \in Nat /\ DOMAIN channels = 1..Len(channels)
  BY <1>1
<1>. QED  BY <1>2 DEF Grouped, Named

(* The group, or else the one of that name, or else the bare name. *)
LEMMA LookupIsRegistered ==
  ASSUME NEW channels \in Registrations
  PROVE  /\ Grouped(channels) # {} => IsRegistered(BuildDevice(channels, Grouped(channels)), channels)
         /\ Grouped(channels) = {} =>
              IsRegistered(IF Named(channels) = {} THEN BareDevice ELSE BuildDevice(channels, Named(channels)),
                           channels)
<1>. DEFINE from == IF Grouped(channels) # {} THEN Grouped(channels) ELSE Named(channels)
            loop == MergedChannels(channels, from)
            device == BuildDevice(channels, from)
<1>1. Tells(loop, channels, from)
  <2>1. PICK n \in Nat : DOMAIN channels = 1..n
    BY PlacesAreNumbers
  <2>2. from \subseteq 1..n
    BY <2>1, PlacesAreNumbers
  <2>. HIDE DEF from
  <2>. QED  BY <2>2, MergedChannelsTell
<1>2. from # {} => IsRegistered(device, channels)
  <2>1. /\ device.pvs = loop.pvs /\ device.properties = loop.properties
        /\ device.owner = IF Knows(loop, "owner") THEN loop.properties["owner"] ELSE loop.owner
    <3>1. loop = [pvs |-> loop.pvs, owner |-> loop.owner, properties |-> loop.properties]
      <4>. HIDE DEF loop
      <4>. QED  BY <1>1 DEF Tells
    <3>2. device = WithKnown(loop)
      BY DEF BuildDevice
    <3>. HIDE DEF loop, device
    <3>. QED  BY <3>1, <3>2 DEF WithKnown
  <2>. HIDE DEF device, loop
  <2>. DEFINE props(i) == channels[i].properties
              says(i) == /\ "owner" \in DOMAIN props(i) /\ props(i)["owner"] # NoValue
                         /\ \A j \in from : j > i => "owner" \notin DOMAIN props(j)
  <2>2. ASSUME NEW i \in from, says(i) PROVE device.owner = props(i)["owner"]
    <3>1. "owner" \in DOMAIN loop.properties /\ loop.properties["owner"] = props(i)["owner"]
      BY <1>1, <2>2 DEF Tells
    <3>. QED  BY <2>1, <2>2, <3>1 DEF Knows
  <2>3. ASSUME \A i \in from : ~ says(i) PROVE device.owner = loop.owner
    <3>1. SUFFICES ASSUME "owner" \in DOMAIN loop.properties PROVE loop.properties["owner"] = NoValue
      BY <2>1 DEF Knows
    <3>2. PICK i \in from : /\ "owner" \in DOMAIN props(i)
                            /\ \A j \in from : j > i => "owner" \notin DOMAIN props(j)
      <4>1. \E i \in from : "owner" \in DOMAIN props(i)
        BY <1>1, <3>1 DEF Tells
      <4>. DEFINE naming == {i \in from : "owner" \in DOMAIN props(i)}
      <4>2. PICK n \in Nat : DOMAIN channels = 1..n
        BY PlacesAreNumbers
      <4>3. from \subseteq 1..n
        BY <4>2, PlacesAreNumbers
      <4>4. naming \subseteq 0..n /\ naming # {}
        BY <4>1, <4>3
      <4>5. Max(naming) \in naming /\ \A j \in naming : j <= Max(naming)
        <5>. HIDE DEF naming
        <5>. QED  BY <4>4, MaxIs
      <4>6. PICK i : i = Max(naming)
        OBVIOUS
      <4>7. i \in from /\ "owner" \in DOMAIN props(i) /\ \A j \in naming : j <= i
        BY <4>5, <4>6
      <4>8. ASSUME NEW j \in from, j > i PROVE "owner" \notin DOMAIN props(j)
        BY <4>3, <4>7, <4>8
      <4>. QED  BY <4>7, <4>8
    <3>. QED  BY <1>1, <2>3, <3>1, <3>2 DEF Tells
  <2>. QED  BY <1>1, <2>1, <2>2, <2>3 DEF Tells, IsRegistered, Grouped, Named
<1>3. from = {} => IsRegistered(BareDevice, channels)
  BY DEF IsRegistered, Grouped, Named
<1>. HIDE DEF device
<1>4. CASE Grouped(channels) # {}
  BY <1>2, <1>4 DEF device
<1>5. CASE Grouped(channels) = {}
  BY <1>2, <1>3, <1>5 DEF device
<1>. QED  BY <1>4, <1>5

(* A call that asks for the channel of the name, and is sure, was told     *)
(* that there is no group, and there is none now.                          *)
NoGroup(c) == (call[c].pc = "getting" /\ call[c].sure) => Grouped(registry) = {}

IInv == TypeOK /\ \A c \in Calls : NoGroup(c)

(* A call becomes something else that is not sure, or rightly so. *)
LEMMA SureAfter ==
  ASSUME IInv, NEW c \in Calls, NEW state, Becomes(c, state), UNCHANGED registry,
         (state.pc = "getting" /\ state.sure) => Grouped(registry) = {}
  PROVE  \A d \in Calls : NoGroup(d)'
<1>1. ASSUME NEW d \in Calls PROVE (call'[d].pc = "getting" /\ call'[d].sure) => Grouped(registry) = {}
  <2>1. call'[d] = IF d = c THEN state ELSE call[d]
    BY CallsAfter DEF IInv
  <2>. QED  BY <2>1 DEF IInv, NoGroup
<1>. QED  BY <1>1 DEF NoGroup, Grouped

LEMMA IInvStep == IInv /\ [Next]_vars => IInv'
<1>. SUFFICES ASSUME IInv, [Next]_vars PROVE \A d \in Calls : NoGroup(d)'
  BY TypeStep DEF IInv
<1>1. ASSUME NEW tool, NEW e
      PROVE  /\ Waiting(tool).pc # "getting" /\ Finding(tool).pc # "getting"
             /\ Probing(tool, e).pc # "getting" /\ Idle.pc # "getting" /\ Raised.pc # "getting"
             /\ Getting(tool, FALSE).sure = FALSE
  BY DEF Waiting, Finding, Probing, Idle, Raised, Getting
<1>2. ASSUME NEW c \in Calls, NEW state, Becomes(c, state), state.pc # "getting", UNCHANGED registry
      PROVE  \A d \in Calls : NoGroup(d)'
  BY <1>2, SureAfter
<1>3. CASE UNCHANGED <<call, registry>>
  BY <1>3 DEF IInv, NoGroup, Grouped
<1>4. ASSUME NEW c \in Calls, NEW tool, Lookup(c, tool) \/ Hit(c, tool), UNCHANGED registry
      PROVE  \A d \in Calls : NoGroup(d)'
  BY <1>1, <1>2, <1>4 DEF Lookup, Hit, Resolved
<1>5. ASSUME NEW c \in Calls, NEW tool \in Tools, Begin(c, tool) PROVE \A d \in Calls : NoGroup(d)'
  BY <1>1, <1>2, <1>4, <1>5 DEF Begin
<1>6. ASSUME NEW c \in Calls, GetLock(c) PROVE \A d \in Calls : NoGroup(d)'
  BY <1>4, <1>6 DEF GetLock
<1>7. ASSUME NEW c \in Calls, LookupEnds(c) PROVE \A d \in Calls : NoGroup(d)'
  <2>1. CASE Found(c)
    <3>1. CASE Grouped(registry) # {}
      BY <1>1, <1>2, <2>1, <3>1 DEF Found, Resolved
    <3>2. CASE Grouped(registry) = {}
      BY <2>1, <3>2, SureAfter DEF Found
    <3>. QED  BY <3>1, <3>2
  <2>2. CASE FindFails(c)
    BY <1>1, <2>2, SureAfter DEF FindFails
  <2>3. CASE Got(c) \/ GetFails(c) \/ OddAnswer(c)
    BY <1>1, <1>2, <2>3 DEF Got, GetFails, OddAnswer, Resolved
  <2>. QED  BY <1>7, <2>1, <2>2, <2>3 DEF LookupEnds
<1>8. ASSUME NEW c \in Calls, NEW section \in Sections, SectionEnds(c, section)
      PROVE  \A d \in Calls : NoGroup(d)'
  <2>1. PICK status : Ends(c, section, status)
    BY <1>8, SectionEndsWith DEF IInv
  <2>2. PICK results : Becomes(c, [pc |-> "probing", entry |-> call[c].entry, results |-> results])
    BY <2>1, EndsIsLocal DEF IInv
  <2>. QED  BY <1>2, <2>1, <2>2 DEF Ends
<1>9. ASSUME NEW c \in Calls, Report(c) \/ Deliver(c) \/ Cancel(c) PROVE \A d \in Calls : NoGroup(d)'
  <2>1. \A results : [pc |-> "reported", results |-> results].pc # "getting"
    OBVIOUS
  <2>. QED  BY <1>1, <1>2, <1>9, <2>1 DEF Report, Deliver, Cancel
<1>10. CASE RegistryChanges
  <2>1. ASSUME NEW d \in Calls, call'[d].pc = "getting" PROVE ~ call'[d].sure
    <3>1. call'[d] = IF call[d].pc = "getting" THEN [call[d] EXCEPT !.sure = FALSE] ELSE call[d]
      BY <1>10 DEF RegistryChanges
    <3>2. CASE call[d].pc = "getting"
      <4>1. PICK tool \in Tools, sure \in BOOLEAN : call[d] = Getting(tool, sure)
        BY <3>2 DEF IInv, TypeOK, IsCallState, Waiting, Finding, Idle, Raised
      <4>2. PICK s : s = call[d]
        OBVIOUS
      <4>3. call'[d] = [s EXCEPT !.sure = FALSE] /\ "sure" \in DOMAIN s
        BY <3>1, <3>2, <4>1, <4>2 DEF Getting
      <4>. QED  BY <4>3
    <3>. QED  BY <2>1, <3>1, <3>2
  <2>. QED  BY <2>1 DEF NoGroup
<1>11. CASE Tick
  BY <1>3, <1>11 DEF Tick
<1>. QED
  BY <1>3, <1>5, <1>6, <1>7, <1>8, <1>9, <1>10, <1>11 DEF Next, vars

LEMMA AlwaysIInv == Spec => []IInv
<1>1. Init => IInv
  BY InitIsFine DEF Init, IInv, NoGroup, Idle
<1>. QED  BY <1>1, IInvStep, PTL DEF Spec

(* A step out of a lookup. *)
LEMMA StepOutOfLookup ==
  ASSUME IInv, [Next]_vars, NEW c \in Calls, LookingUp(c), call'[c].pc = "probing",
         call'[c].entry.sure
  PROVE  IsRegistered(call'[c].entry.device, registry)
<1>1. ASSUME NEW d \in Calls, NEW state, Becomes(d, state), d # c PROVE FALSE
  BY <1>1, CallsAfter DEF LookingUp, IInv
<1>2. ASSUME NEW state, Becomes(c, state) PROVE call'[c] = state
  BY <1>2, CallsAfter DEF IInv
<1>3. ASSUME NEW device, NEW sure, Resolved(c, call[c].tool, Entry(device, sure))
      PROVE  call'[c].entry.device = device /\ call'[c].entry.sure = sure
  <2>1. call'[c] = Probing(call[c].tool, Entry(device, sure))
    BY <1>2, <1>3 DEF Resolved
  <2>2. \A tool, e : Probing(tool, e).entry = e
    BY DEF Probing
  <2>3. call'[c].entry = Entry(device, sure)
    BY <2>1, <2>2
  <2>. QED  BY <2>3 DEF Entry
<1>4. ASSUME NEW d \in Calls, NEW tool \in Tools, Begin(d, tool) PROVE FALSE
  <2>1. d # c
    BY <1>4 DEF Begin, Idle, LookingUp
  <2>. QED  BY <1>1, <1>4, <2>1 DEF Begin, Hit, Lookup, Resolved
<1>5. ASSUME NEW d \in Calls, GetLock(d) \/ Report(d) \/ Deliver(d) PROVE FALSE
  <2>1. d # c
    BY <1>5 DEF GetLock, Report, Deliver, LookingUp
  <2>. QED  BY <1>1, <1>5, <2>1 DEF GetLock, Hit, Lookup, Resolved, Report, Deliver
<1>6. ASSUME NEW d \in Calls, Cancel(d) PROVE FALSE
  <2>1. d = c
    BY <1>1, <1>6 DEF Cancel
  <2>. QED  BY <1>2, <1>6, <2>1 DEF Cancel, Idle
<1>7. ASSUME NEW d \in Calls, LookupEnds(d)
      PROVE  IsRegistered(call'[c].entry.device, registry)
  <2>1. d = c
    BY <1>1, <1>7 DEF LookupEnds, Found, FindFails, Got, GetFails, OddAnswer, Resolved
  <2>2. \A tool, sure : Getting(tool, sure).pc # "probing" /\ Raised.pc # "probing"
    BY DEF Getting, Raised
  <2>3. registry \in Registrations
    BY DEF IInv, TypeOK
  <2>4. CASE Found(c)
    <3>1. Grouped(registry) # {}
      BY <1>2, <2>2, <2>4 DEF Found
    <3>2. call'[c].entry.device = BuildDevice(registry, Grouped(registry))
      BY <1>3, <2>4, <3>1 DEF Found
    <3>. QED  BY <2>3, <3>1, <3>2, LookupIsRegistered
  <2>5. CASE Got(c)
    <3>1. call'[c].entry.sure = call[c].sure
          /\ call'[c].entry.device =
               IF Named(registry) = {} THEN BareDevice ELSE BuildDevice(registry, Named(registry))
      BY <1>3, <2>5 DEF Got
    <3>2. Grouped(registry) = {}
      BY <2>5, <3>1 DEF Got, IInv, NoGroup
    <3>. QED  BY <2>3, <3>1, <3>2, LookupIsRegistered
  <2>6. CASE FindFails(c) \/ OddAnswer(c)
    BY <1>2, <2>2, <2>6 DEF FindFails, OddAnswer
  <2>7. CASE GetFails(c)
    BY <1>3, <2>7 DEF GetFails
  <2>. QED  BY <1>7, <2>1, <2>4, <2>5, <2>6, <2>7 DEF LookupEnds
<1>8. ASSUME NEW d \in Calls, NEW s \in Sections, SectionEnds(d, s) PROVE FALSE
  <2>1. PICK status : Ends(d, s, status)
    BY <1>8, SectionEndsWith DEF IInv
  <2>2. d # c
    BY <2>1 DEF Ends, LookingUp
  <2>3. call'[c] = call[c]
    BY <2>1, <2>2 DEF Ends, IInv, TypeOK
  <2>. QED  BY <2>3 DEF LookingUp
<1>9. CASE RegistryChanges
  <2>1. call'[c].pc = call[c].pc
    <3>1. PICK s : s = call[c]
      OBVIOUS
    <3>2. call'[c] = s \/ call'[c] = [s EXCEPT !.sure = FALSE]
      BY <1>9, <3>1 DEF RegistryChanges
    <3>3. "pc" \in DOMAIN s
      BY <3>1 DEF LookingUp, IInv, TypeOK, IsCallState, Waiting, Finding, Getting, Idle, Raised
    <3>. QED  BY <3>1, <3>2, <3>3
  <2>. QED  BY <2>1 DEF LookingUp
<1>10. CASE Tick \/ UNCHANGED vars
  BY <1>10 DEF Tick, vars, LookingUp
<1>. QED  BY <1>4, <1>5, <1>6, <1>7, <1>8, <1>9, <1>10 DEF Next

(* resolve_device loses nothing that ChannelFinder has registered of a     *)
(* device: whatever channels it holds, in whatever order, merging them and *)
(* falling back to the name give the device that they make.                *)
THEOREM DevicesAreRegistered == Spec => DeviceIsRegistered
<1>1. IInv /\ [Next]_vars =>
        [\A c \in Calls :
           (LookingUp(c) /\ call'[c].pc = "probing") =>
             LET e == call'[c].entry IN e.sure => IsRegistered(e.device, registry)]_vars
  BY StepOutOfLookup
<1>. QED  BY AlwaysIInv, <1>1, PTL DEF Spec, DeviceIsRegistered
====
