---- MODULE Diagnostics ----
(***************************************************************************)
(* get_device, device_status and diagnose_device for one device name: the  *)
(* resolution of the name through the device cache and ChannelFinder       *)
(* (services/device_service.py), and the fan-out to the backends in which  *)
(* each has its own timeout (services/diagnostics_service.py,              *)
(* core/models.py).                                                        *)
(*                                                                         *)
(* A request to ChannelFinder and its answer are one step, at the answer.  *)
(* The cache holds one key here; its keys and its size are the business of *)
(* IocCache.                                                               *)
(***************************************************************************)
EXTENDS Integers, Sequences, FiniteSets, SequencesExt, Providers

CONSTANTS
  Calls,          \* bound: tool calls in flight at once
  Name,           \* the device name that is asked for
  NoValue,        \* None
  Registrations,  \* the channels that ChannelFinder may hold: sequences of Channel
  Sections,       \* bound: the sections of diagnose_device that are modelled
  Settings,       \* the sets of backends that the settings may name
  NoCall,         \* nobody holds the lock
  TTL,            \* CacheSettings.device_ttl_seconds, in clock ticks
  MaxTime,        \* bound: clock ticks
  MaxChanges      \* bound: edits of ChannelFinder

(* A channel in ChannelFinder; its properties may be named without a value. *)
IsChannel(c) == DOMAIN c = {"name", "owner", "properties"}

ASSUME RegistrationAssumption ==
  \A r \in Registrations :
    /\ r \in Seq(ToSet(r))
    /\ \A i \in DOMAIN r : IsChannel(r[i])
    /\ \A i, j \in DOMAIN r : r[i].name = r[j].name => i = j

ASSUME SectionAssumption ==
  Sections \subseteq {"live_pvs", "history", "pod", "pod_logs", "argocd", "logbook", "documentation"}

ASSUME SettingAssumption ==
  \A s \in Settings : s \subseteq DOMAIN Requests \cup {"kubernetes", "channelfinder"}

ASSUME BoundAssumption ==
  /\ NoCall \notin Calls
  /\ TTL \in Nat \ {0}
  /\ MaxTime \in Nat
  /\ MaxChanges \in Nat

VARIABLES
  now,         \* the timer of cachetools.TTLCache
  configured,  \* the backends that the settings name
  registry,    \* ChannelFinder: the channels it holds
  changes,     \* how often the registry was edited
  cached,      \* AsyncTTLCache._cache at this key: at most one entry
  holder,      \* the call that holds AsyncTTLCache._locks[key]
  call         \* call[c]: what a tool call is doing

vars == <<now, configured, registry, changes, cached, holder, call>>

----
(* services/device_service.py: the device that channels make. *)

(* The first channel that names a property decides it. *)
MergedFirstWins(merged, properties) ==
  [p \in DOMAIN merged \cup DOMAIN properties |->
     IF p \in DOMAIN merged THEN merged[p] ELSE properties[p]]

(* merged_properties.update(channel.properties) *)
Merged(merged, properties) ==
  [p \in DOMAIN merged \cup DOMAIN properties |->
     IF p \in DOMAIN properties THEN properties[p] ELSE merged[p]]

(* One turn of the loop; owner = owner or channel.owner. *)
With(device, c) ==
  [pvs |-> Append(device.pvs, c.name),
   owner |-> IF device.owner = NoValue THEN c.owner ELSE device.owner,
   properties |-> Merged(device.properties, c.properties)]

NoChannels == [pvs |-> <<>>, owner |-> NoValue, properties |-> [p \in {} |-> NoValue]]

BareDevice == [NoChannels EXCEPT !.pvs = <<Name>>]

Knows(device, p) == p \in DOMAIN device.properties /\ device.properties[p] # NoValue

(* _KNOWN_PROPERTIES: a property named owner is the owner if it has a      *)
(* value; the others fill fields of their own.                             *)
WithKnown(device) ==
  [device EXCEPT !.owner = IF Knows(device, "owner") THEN device.properties["owner"] ELSE @]

(* The loop over the channels at these places, in their order. *)
MergedChannels(channels, places) ==
  MapThenFoldSet(LAMBDA c, device : With(device, c), NoChannels,
                 LAMBDA i : channels[i], LAMBDA S : Max(S), places)

BuildDevice(channels, places) == WithKnown(MergedChannels(channels, places))

(* find_channels(device=name): the places of its channels. *)
Grouped(channels) ==
  {i \in DOMAIN channels :
     "device" \in DOMAIN channels[i].properties /\ channels[i].properties["device"] = Name}

(* get_channel(name): the place of the channel of that name, if any. *)
Named(channels) == {i \in DOMAIN channels : channels[i].name = Name}

----
(* services/diagnostics_service.py: what a report asks, and of whom. *)

SectionsOf(tool) ==
  CASE tool = "get_device" -> {}
    [] tool = "device_status" -> {"live_pvs", "pod"} \cap Sections
    [] tool = "diagnose_device" -> Sections

Tools == {"get_device", "device_status", "diagnose_device"}

(* The fact without which a section is skipped; a device always has a PV. *)
Asked(section, device) ==
  CASE section = "pod" -> Knows(device, "iocName")
    [] section = "pod_logs" -> Knows(device, "k8sPod")
    [] section = "argocd" -> Knows(device, "argocdApp")
    [] OTHER -> TRUE

(* _pod_logs asks Loki where there is one. *)
PodLogsBackend == IF "loki" \in configured THEN "loki" ELSE "kubernetes"

(* settings.logbook_backend and settings.documentation_backend choose one; *)
(* configured has no other.                                                *)
LogbookBackend == IF "hub_logbook" \in configured THEN "hub_logbook" ELSE "olog"

DocumentationBackend ==
  IF configured \cap {"ragflow", "hub_documents"} = {} THEN "tfidf"
  ELSE IF "ragflow" \in configured THEN "ragflow" ELSE "hub_documents"

BackendOf(section) ==
  [live_pvs |-> "epics", history |-> "archiver", pod |-> "kubernetes",
   pod_logs |-> PodLogsBackend, argocd |-> "argocd", logbook |-> LogbookBackend,
   documentation |-> DocumentationBackend][section]

RequestOf(section) == IF BackendOf(section) = "kubernetes" THEN section ELSE BackendOf(section)

(* What a provider can raise, and the status that _run_one makes of it. *)
StatusOf ==
  [TimeoutError |-> "timeout",
   ProviderUnconfiguredError |-> "unconfigured",
   ProviderUnavailableError |-> "unavailable",
   ProviderTimeoutError |-> "unavailable",
   ArgusError |-> "error",
   Exception |-> "error"]

Statuses == {"ok", "unconfigured", "unavailable", "timeout", "error", "skipped"}

----
(* What a call is doing. *)

(* sure is history: no request of the lookup failed and the registry was   *)
(* not edited between its two requests.                                    *)
Entry(device, sure) == [device |-> device, made |-> now, sure |-> sure]

Idle == [pc |-> "idle"]

Waiting(tool) == [pc |-> "waiting", tool |-> tool]

Finding(tool) == [pc |-> "finding", tool |-> tool]

Getting(tool, sure) == [pc |-> "getting", tool |-> tool, sure |-> sure]

Probing(tool, entry) ==
  [pc |-> "probing", entry |-> entry,
   results |-> [s \in SectionsOf(tool) |-> IF Asked(s, entry.device) THEN "running" ELSE "skipped"]]

Raised == [pc |-> "raised"]

LookingUp(c) == call[c].pc \in {"finding", "getting"}

Becomes(c, state) == call' = [call EXCEPT ![c] = state]

Init ==
  /\ now = 0
  /\ configured \in Settings
  /\ registry \in Registrations
  /\ changes = 0
  /\ cached = {}
  /\ holder = NoCall
  /\ call = [c \in Calls |-> Idle]

----
(* AsyncTTLCache.get_or_set for resolve_device. *)

(* Keeping an entry up to the tick it expires at. *)
FreshTooLong == {e \in cached : now <= e.made + TTL}

Fresh == {e \in cached : now < e.made + TTL}

Resolved(c, tool, entry) ==
  /\ cached' = {entry}
  /\ Becomes(c, Probing(tool, entry))

(* _resolve_device_uncached up to its first await. *)
Lookup(c, tool) ==
  IF "channelfinder" \in configured
  THEN /\ Becomes(c, Finding(tool))
       /\ holder' = c
       /\ UNCHANGED cached
  ELSE Resolved(c, tool, Entry(BareDevice, FALSE)) /\ holder' = NoCall

Hit(c, tool) == \E e \in Fresh : Becomes(c, Probing(tool, e))

LockIsFree == holder = NoCall /\ \A c \in Calls : call[c].pc # "waiting"

(* The fast path, or the lock and what follows if nobody has it. *)
Begin(c, tool) ==
  /\ call[c] = Idle
  /\ \/ Hit(c, tool) /\ UNCHANGED <<cached, holder>>
     \/ Fresh = {} /\ LockIsFree /\ Lookup(c, tool)
     \/ Fresh = {} /\ ~ LockIsFree /\ Becomes(c, Waiting(tool)) /\ UNCHANGED <<cached, holder>>
  /\ UNCHANGED <<now, configured, registry, changes>>

(* The lock is handed on: look again, then look up. *)
GetLock(c) ==
  /\ call[c].pc = "waiting" /\ holder = NoCall
  /\ \/ Hit(c, call[c].tool) /\ UNCHANGED <<cached, holder>>
     \/ Fresh = {} /\ Lookup(c, call[c].tool)
  /\ UNCHANGED <<now, configured, registry, changes>>

Release(c) == holder' = IF holder = c THEN NoCall ELSE holder

(* find_channels answers with the channels of the device, or with none. *)
Found(c) ==
  /\ call[c].pc = "finding"
  /\ LET places == Grouped(registry) IN
       IF places # {}
       THEN Resolved(c, call[c].tool, Entry(BuildDevice(registry, places), TRUE)) /\ Release(c)
       ELSE Becomes(c, Getting(call[c].tool, TRUE)) /\ UNCHANGED <<cached, holder>>
  /\ UNCHANGED <<now, configured, registry, changes>>

(* A ChannelFinderError: no channels, and the bare name is tried. *)
FindFails(c) ==
  /\ call[c].pc = "finding"
  /\ Becomes(c, Getting(call[c].tool, FALSE))
  /\ UNCHANGED <<now, configured, registry, changes, cached, holder>>

(* Nothing of that name is a device all the same: its PV is the name. *)
Got(c) ==
  /\ call[c].pc = "getting"
  /\ LET places == Named(registry)
         device == IF places = {} THEN BareDevice ELSE BuildDevice(registry, places)
     IN  Resolved(c, call[c].tool, Entry(device, call[c].sure))
  /\ Release(c)
  /\ UNCHANGED <<now, configured, registry, changes>>

(* A ChannelFinderError: the bare device is kept like any other. *)
GetFails(c) ==
  /\ call[c].pc = "getting"
  /\ Resolved(c, call[c].tool, Entry(BareDevice, FALSE))
  /\ Release(c)
  /\ UNCHANGED <<now, configured, registry, changes>>

(* A body that is not JSON, or a channel without a name, is no             *)
(* ChannelFinderError: it passes every handler up to the tool dispatch.    *)
OddAnswer(c) ==
  /\ LookingUp(c)
  /\ Becomes(c, Raised)
  /\ Release(c)
  /\ UNCHANGED <<now, configured, registry, changes, cached>>

----
(* gather_with_timeout: every section under a timeout of its own. *)

(* A failing backend takes those still running down with it. *)
EndsAll(c, section, status) ==
  /\ call[c].pc = "probing"
  /\ section \in DOMAIN call[c].results
  /\ call[c].results[section] = "running"
  /\ call' = [call EXCEPT ![c].results = [s \in DOMAIN @ |->
                IF s = section THEN status
                ELSE IF status # "ok" /\ @[s] = "running" THEN "error" ELSE @[s]]]
  /\ UNCHANGED <<now, configured, registry, changes, cached, holder>>

Ends(c, section, status) ==
  /\ call[c].pc = "probing"
  /\ section \in DOMAIN call[c].results
  /\ call[c].results[section] = "running"
  /\ call' = [call EXCEPT ![c].results[section] = status]
  /\ UNCHANGED <<now, configured, registry, changes, cached, holder>>

IsConfigured(section) == BackendOf(section) \in configured

(* The backend answers in time. *)
Answers(c, section) == IsConfigured(section) /\ Ends(c, section, "ok")

(* Without settings it raises before it awaits anything. *)
Refuses(c, section) ==
  ~ IsConfigured(section) /\ Ends(c, section, StatusOf["ProviderUnconfiguredError"])

(* It raises what its provider makes of what the request met. *)
Raises(c, section) ==
  /\ IsConfigured(section)
  /\ \E e \in ErrorsOf(RequestOf(section)) : Ends(c, section, StatusOf[e])

(* The TF-IDF search never awaits: no timer fires before it is done. *)
Awaits(section) == BackendOf(section) # "tfidf"

(* Giving up only where the timeout is handed to the provider. *)
TimesOutIfAsked(c, section) ==
  /\ IsConfigured(section) /\ section \in {"live_pvs", "history", "logbook"}
  /\ Ends(c, section, "timeout")

(* asyncio.wait_for gives up. *)
TimesOut(c, section) == IsConfigured(section) /\ Awaits(section) /\ Ends(c, section, "timeout")

SectionEnds(c, section) ==
  Answers(c, section) \/ Refuses(c, section) \/ Raises(c, section) \/ TimesOut(c, section)

(* Such a search ends in the same turn of the event loop. *)
Computes(c, section) == ~ Awaits(section) /\ (Answers(c, section) \/ Raises(c, section))

NoneRunning(c) == \A s \in DOMAIN call[c].results : call[c].results[s] # "running"

(* The report, in which the sections neither ok nor skipped are degraded. *)
Report(c) ==
  /\ call[c].pc = "probing" /\ NoneRunning(c)
  /\ Becomes(c, [pc |-> "reported", results |-> call[c].results])
  /\ UNCHANGED <<now, configured, registry, changes, cached, holder>>

Deliver(c) ==
  /\ call[c].pc \in {"reported", "raised"}
  /\ Becomes(c, Idle)
  /\ UNCHANGED <<now, configured, registry, changes, cached, holder>>

(* The client gives the call up where it waits. *)
Cancel(c) ==
  /\ call[c].pc \in {"waiting", "finding", "getting", "probing"}
  /\ Becomes(c, Idle)
  /\ Release(c)
  /\ UNCHANGED <<now, configured, registry, changes, cached>>

----
(* Somebody edits ChannelFinder. *)
RegistryChanges ==
  /\ changes < MaxChanges
  /\ changes' = changes + 1
  /\ registry' \in Registrations \ {registry}
  /\ call' = [c \in Calls |-> IF call[c].pc = "getting" THEN [call[c] EXCEPT !.sure = FALSE] ELSE call[c]]
  /\ UNCHANGED <<now, configured, cached, holder>>

Tick ==
  /\ now < MaxTime
  /\ now' = now + 1
  /\ UNCHANGED <<configured, registry, changes, cached, holder, call>>

LookupEnds(c) == Found(c) \/ FindFails(c) \/ Got(c) \/ GetFails(c) \/ OddAnswer(c)

Next ==
  \/ \E c \in Calls, tool \in Tools : Begin(c, tool)
  \/ \E c \in Calls : GetLock(c) \/ LookupEnds(c) \/ Report(c) \/ Deliver(c) \/ Cancel(c)
  \/ \E c \in Calls, s \in Sections : SectionEnds(c, s)
  \/ RegistryChanges
  \/ Tick

Spec == Init /\ [][Next]_vars

(* The event loop resumes whatever can go on, a request to ChannelFinder   *)
(* ends within httpx's timeout, a provider without settings raises at      *)
(* once, the TF-IDF search runs to its end, and the timer of wait_for      *)
(* fires; that a backend of the fan-out ever answers is not assumed.       *)
Fairness ==
  \A c \in Calls :
    /\ SF_vars(GetLock(c)) /\ WF_vars(LookupEnds(c)) /\ WF_vars(Report(c))
    /\ \A s \in Sections : WF_vars(Refuses(c, s)) /\ WF_vars(Computes(c, s)) /\ WF_vars(TimesOut(c, s))

FairSpec == Spec /\ Fairness

----
Results == UNION {[SectionsOf(tool) -> Statuses \cup {"running"}] : tool \in Tools}

IsEntry(e) ==
  e = [device |-> e.device, made |-> e.made, sure |-> e.sure] /\ e.made \in 0..MaxTime

IsCallState(s) ==
  \/ s \in {Idle, Raised}
  \/ \E tool \in Tools : s \in {Waiting(tool), Finding(tool)} \cup {Getting(tool, sure) : sure \in BOOLEAN}
  \/ /\ s.pc = "probing"
     /\ s = [pc |-> "probing", entry |-> s.entry, results |-> s.results]
     /\ IsEntry(s.entry) /\ s.results \in Results
  \/ /\ s.pc = "reported"
     /\ s = [pc |-> "reported", results |-> s.results]
     /\ s.results \in Results

(* The types of the variables: no result has a status that ProviderResult  *)
(* does not know.                                                          *)
TypeOK ==
  /\ now \in 0..MaxTime
  /\ configured \in Settings
  /\ registry \in Registrations
  /\ changes \in 0..MaxChanges
  /\ Cardinality(cached) <= 1
  /\ \A e \in cached : IsEntry(e)
  /\ holder \in Calls \cup {NoCall}
  /\ call = [c \in Calls |-> call[c]]
  /\ \A c \in Calls : IsCallState(call[c])

(* What ChannelFinder, holding these channels, says the device is: its     *)
(* group, or else the one channel of that name, or else the bare name.     *)
(* The last channel that names a property decides it; the owner is the     *)
(* property of that name, or else that of the first channel that has one.  *)
IsRegistered(device, channels) ==
  LET props(i) == channels[i].properties
      group == {i \in DOMAIN channels : "device" \in DOMAIN props(i) /\ props(i)["device"] = Name}
      from == IF group # {} THEN group ELSE {i \in DOMAIN channels : channels[i].name = Name}
      decides(i, p) == p \in DOMAIN props(i) /\ \A j \in from : j > i => p \notin DOMAIN props(j)
      says(i) == decides(i, "owner") /\ props(i)["owner"] # NoValue
  IN  IF from = {} THEN device = BareDevice
      ELSE /\ Len(device.pvs) = Cardinality(from)
           /\ ToSet(device.pvs) = {channels[i].name : i \in from}
           /\ DOMAIN device.properties = UNION {DOMAIN props(i) : i \in from}
           /\ \A i \in from, p \in DOMAIN device.properties :
                decides(i, p) => device.properties[p] = props(i)[p]
           /\ \A i \in from : says(i) => device.owner = props(i)["owner"]
           /\ (\A i \in from : ~ says(i)) =>
                /\ \A i \in from :
                     (channels[i].owner # NoValue /\ \A j \in from : j < i => channels[j].owner = NoValue)
                       => device.owner = channels[i].owner
                /\ (\A i \in from : channels[i].owner = NoValue) => device.owner = NoValue

(* A device that a lookup ends with is the one that ChannelFinder has      *)
(* registered, unless a request failed or the registry was edited between  *)
(* the two requests: neither merging the channels nor falling back to the  *)
(* bare name loses what ChannelFinder knows.                               *)
DeviceIsRegistered ==
  [][\A c \in Calls :
       (LookingUp(c) /\ call'[c].pc = "probing") =>
         LET e == call'[c].entry IN e.sure => IsRegistered(e.device, registry)]_vars

(* No call takes up a device that was looked up longer ago than the TTL,   *)
(* however often it was asked for since: what an outage of ChannelFinder   *)
(* left in the cache is forgotten.                                         *)
DevicesExpire ==
  [][\A c \in Calls :
       (call[c].pc # "probing" /\ call'[c].pc = "probing") => now - call'[c].entry.made < TTL]_vars

(* The result of a section is there to stay, and it settles no other       *)
(* section: a backend that fails or is slow never cancels the others.  The *)
(* section says "unconfigured" exactly if its own backend has no settings, *)
(* whatever the others lack ("falling back to the live kubectl tail        *)
(* otherwise -- keeps beamlines without the platform's Loki deployed       *)
(* working exactly as before").                                            *)
SectionsAreIndependent ==
  [][\A c \in Calls :
       (call[c].pc = "probing" /\ call'[c].pc \in {"probing", "reported"}) =>
         LET changed == {s \in DOMAIN call[c].results : call'[c].results[s] # call[c].results[s]} IN
           /\ Cardinality(changed) <= 1
           /\ \A s \in changed :
                /\ call[c].results[s] = "running"
                /\ call'[c].results[s] = "unconfigured" <=> ~ IsConfigured(s)]_vars

InFlight(c) == call[c].pc \in {"waiting", "finding", "getting", "probing"}

(* Every call gets a report or an error, even if no backend ever answers   *)
(* ("A failing or slow provider never cancels the others and never raises  *)
(* out of this function").                                                 *)
EveryCallEnds == \A c \in Calls : InFlight(c) ~> ~ InFlight(c)
====
