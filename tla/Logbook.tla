---- MODULE Logbook ----
(***************************************************************************)
(* Creating, reading, searching and changing entries of the electronic     *)
(* logbook (providers/logbook/logbook.py, with the handlers of             *)
(* mcp_server/tools/history_tools.py): calls of several people, an Olog    *)
(* that others edit too, and answers that come late or never.              *)
(*                                                                         *)
(* A request that Olog serves and its answer are one step.  A request that *)
(* ARGUS gave up may still be served later.  The two-step confirmation of  *)
(* these tools is the business of ConfirmedWrites.                         *)
(***************************************************************************)
EXTENDS Integers, FiniteSets

CONSTANTS
  Calls,       \* bound: tool calls, each made once
  People,      \* those whose token a call may carry
  NoToken,     \* the caller of a call without a token
  Account,     \* LOGBOOK_USERNAME
  Logbooks,    \* the logbooks that Olog has
  MayWrite,    \* MayWrite[p]: those that p may write to
  Values,      \* what a field may hold
  NoTags,      \* tags or []
  Ids,         \* bound: Olog's numbers of entries
  NoId,        \* no number
  Facilities,  \* those whose logbooks the Knowledge Hub has documents of
  Here,        \* the one whose Olog this is
  NoEntry,     \* Olog has no entry of this number
  Entries,     \* records that the logbook begins with and that others write
  Asks,        \* what a call may ask for
  NoAsk, NoRequest, NoReply,
  MaxEdits     \* bound: edits by others

Arguments == {"title", "text", "logbooks", "tags"}

Required == {"title", "description", "logbooks", "tags"}

(* What ARGUS does not model of an entry is one field here. *)
Fields == Required \cup {"source", "attachments"}

Records == UNION {[D -> Values] : D \in {F \in SUBSET Fields : Required \subseteq F}}

(* An entry_id is a number, the Knowledge Hub's code for an entry of some  *)
(* facility's Olog (OLOG-SPARC-12), or a text that has a number in it      *)
(* ("QF12"). A number is one of this Olog's.                               *)
Names ==
  [form : {"number", "other"}, facility : {Here}, number : Ids]
    \cup [form : {"code"}, facility : Facilities, number : Ids]

ASSUME PeopleAssumption ==
  /\ NoToken \notin People
  /\ MayWrite \in [People \cup {Account} -> SUBSET Logbooks]

ASSUME ValueAssumption == Logbooks \subseteq Values /\ NoTags \in Values

ASSUME EntryAssumption ==
  /\ Entries \subseteq Records
  /\ NoEntry \notin Records
  /\ NoId \notin Ids
  /\ Here \in Facilities

ReadTools == {"get_alarm_history", "get_logbook_entry"}

Tools == {"create_logbook_entry", "update_logbook_entry"} \cup ReadTools

(* A tool, whose token the call carries, the entry_id, and the arguments   *)
(* that are given.                                                         *)
ASSUME AskAssumption ==
  Asks \subseteq [tool : Tools, who : People \cup {NoToken},
                 name : Names,
                 changes : UNION {[D -> Values] : D \in SUBSET Arguments}]

(* The codes of the errors: those that say that nothing was written, and   *)
(* those that leave it open.                                               *)
Refusals == {"validation_error", "logbook_unconfigured", "logbook_query_error", "logbook_refused"}

Failures == {"logbook_timeout", "logbook_unavailable", "internal_error"}

ASSUME SentinelAssumption ==
  /\ NoReply \notin Refusals \cup Failures \cup {"success"}
  /\ NoAsk \notin Asks
  /\ NoRequest \notin [record : Records, base : Nat]
  /\ MaxEdits \in Nat

VARIABLES
  configured,  \* LOGBOOK_BASE_URL is set
  olog,        \* Olog's entries
  version,     \* version[i]: how often entry i was written
  edits,       \* how often others wrote
  pc,          \* pc[c]: where call c waits
  ask,         \* ask[c]: what call c asks for
  request,     \* request[c]: the record call c sends, and the version it was read at
  reply,       \* reply[c]: "success" or the code of the error
  late,        \* the calls that were given up and whose request is still on its way
  landed       \* the calls whose request Olog has carried out

vars == <<configured, olog, version, edits, pc, ask, request, reply, late, landed>>

----
(* What is sent. *)

(* Taking the number in a device's name for an entry's. *)
AnyNumber(name) == name.number

(* olog_entry_id: the code's facility is not looked at. *)
OlogEntryId(name) == IF name.form \in {"number", "code"} THEN name.number ELSE NoId

(* The fields of a record that an argument is about. *)
FieldsOf(argument) == IF argument = "text" THEN {"description", "source"} ELSE {argument}

(* Leaving the source as it is. *)
UpdatedBesideSource(record, changes) ==
  [f \in DOMAIN record \cup (DOMAIN changes \ {"text"}) |->
     IF f \in DOMAIN changes \ {"text"} THEN changes[f]
     ELSE IF f = "description" /\ "text" \in DOMAIN changes THEN changes["text"] ELSE record[f]]

(* The record as it was read, with the given arguments over it; it has a   *)
(* source after it only if it had one before.                              *)
Updated(record, changes) ==
  [f \in DOMAIN record \cup (DOMAIN changes \ {"text"}) |->
     IF f \in DOMAIN changes \ {"text"} THEN changes[f]
     ELSE IF f \in {"description", "source"} /\ "text" \in DOMAIN changes THEN changes["text"]
     ELSE record[f]]

Created(changes) ==
  [f \in Required |->
     IF f = "description" THEN changes["text"]
     ELSE IF f = "tags" /\ "tags" \notin DOMAIN changes THEN NoTags ELSE changes[f]]

(* Whatever account may write. *)
PrincipalByAccount(who) == Account

(* _client: as the caller, else as the configured account. *)
Principal(who) == IF who \in People THEN who ELSE Account

(* The arguments that a handler takes. *)
Valid(a) ==
  /\ a.tool = "create_logbook_entry" => {"title", "text", "logbooks"} \subseteq DOMAIN a.changes
  /\ a.tool = "update_logbook_entry" => DOMAIN a.changes # {}

Init ==
  /\ configured \in BOOLEAN
  /\ olog \in [Ids -> Entries \cup {NoEntry}]
  /\ version = [i \in Ids |-> 0]
  /\ edits = 0
  /\ pc = [c \in Calls |-> "new"]
  /\ ask = [c \in Calls |-> NoAsk]
  /\ request = [c \in Calls |-> NoRequest]
  /\ reply = [c \in Calls |-> NoReply]
  /\ late = {}
  /\ landed = {}

----
(* Olog. *)

Entry(c) == OlogEntryId(ask[c].name)

(* It checks the logbooks of the entry as it is and of the record sent. *)
Permits(c, i) ==
  LET involved == {request[c].record["logbooks"]}
                    \cup (IF olog[i] = NoEntry THEN {} ELSE {olog[i]["logbooks"]})
  IN  involved \subseteq MayWrite[Principal(ask[c].who)]

(* A new entry gets a number of Olog's choice. *)
Target(c, i) ==
  IF ask[c].tool = "create_logbook_entry" THEN olog[i] = NoEntry ELSE i = Entry(c)

(* It replaces the whole record; it may keep the source of a new one. *)
CarriesOut(c, i) ==
  /\ Target(c, i) /\ Permits(c, i)
  /\ \E stored \in {request[c].record, [f \in DOMAIN request[c].record \cup {"source"} |->
                       IF f \in DOMAIN request[c].record THEN request[c].record[f]
                       ELSE request[c].record["description"]]} :
       /\ ask[c].tool = "update_logbook_entry" => stored = request[c].record
       /\ olog' = [olog EXCEPT ![i] = stored]
  /\ version' = [version EXCEPT ![i] = @ + 1]
  /\ landed' = landed \cup {c}

(* A request that was given up arrives after all. *)
ArrivesLate(c) ==
  /\ c \in late
  /\ late' = late \ {c}
  /\ \/ \E i \in Ids : CarriesOut(c, i)
     \/ UNCHANGED <<olog, version, landed>>
  /\ UNCHANGED <<configured, edits, pc, ask, request, reply>>

(* Others edit an entry in Olog itself. *)
OthersEdit(i) ==
  /\ edits < MaxEdits
  /\ edits' = edits + 1
  /\ olog[i] # NoEntry
  /\ \E r \in Entries : olog' = [olog EXCEPT ![i] = r]
  /\ version' = [version EXCEPT ![i] = @ + 1]
  /\ UNCHANGED <<configured, pc, ask, request, reply, late, landed>>

----
(* ARGUS. *)

Goes(c, place) == pc' = [pc EXCEPT ![c] = place] /\ UNCHANGED reply

Ends(c, code) == pc' = [pc EXCEPT ![c] = "done"] /\ reply' = [reply EXCEPT ![c] = code]

Sends(c, record, base) ==
  /\ request' = [request EXCEPT ![c] = [record |-> record, base |-> base]]
  /\ Goes(c, "writing")

(* With the Knowledge Hub as LOGBOOK_BACKEND all tools but the search need *)
(* Olog too; the search is modelled without it.                            *)
HasOlog == configured

NamesNoEntry(a) ==
  a.tool \in {"get_logbook_entry", "update_logbook_entry"} /\ OlogEntryId(a.name) = NoId

(* The error before any request: the arguments are looked at first, then   *)
(* the settings, then the entry's number.                                  *)
Rejected(c, a) ==
  \/ ~ Valid(a) /\ Ends(c, "validation_error")
  \/ Valid(a) /\ ~ HasOlog /\ Ends(c, "logbook_unconfigured")
  \/ Valid(a) /\ HasOlog /\ NamesNoEntry(a) /\ Ends(c, "logbook_query_error")

(* The handler, the service and the provider up to the first request. *)
Begin(c) ==
  /\ pc[c] = "new"
  /\ \E a \in Asks :
       /\ ask' = [ask EXCEPT ![c] = a]
       /\ \/ Rejected(c, a) /\ UNCHANGED request
          \/ /\ Valid(a) /\ HasOlog /\ ~ NamesNoEntry(a)
             /\ IF a.tool = "create_logbook_entry"
                THEN Sends(c, Created(a.changes), 0)
                ELSE Goes(c, "reading") /\ UNCHANGED request
  /\ UNCHANGED <<configured, olog, version, edits, late, landed>>

(* Olog has the entry that is to be read. *)
Found(c) == olog[Entry(c)] # NoEntry

(* A search or a get has its answer. *)
Reads(c) ==
  /\ pc[c] = "reading" /\ ask[c].tool \in ReadTools
  /\ ask[c].tool = "get_logbook_entry" => Found(c)
  /\ Ends(c, "success")
  /\ UNCHANGED <<configured, olog, version, edits, ask, request, late, landed>>

(* 404, before a get or an update. *)
IsMissing(c) ==
  /\ pc[c] = "reading" /\ ask[c].tool # "get_alarm_history" /\ ~ Found(c)
  /\ Ends(c, "logbook_query_error")
  /\ UNCHANGED <<configured, olog, version, edits, ask, request, late, landed>>

(* An update has read the entry and sends it back changed. *)
SendsBack(c) ==
  /\ pc[c] = "reading" /\ ask[c].tool = "update_logbook_entry" /\ Found(c)
  /\ Sends(c, Updated(olog[Entry(c)], ask[c].changes), version[Entry(c)])
  /\ UNCHANGED <<configured, olog, version, edits, ask, late, landed>>

(* What a 4xx answer comes to if 500 counts as one. *)
SavedUpTo500 == {"success", "internal_error", "logbook_unavailable", "logbook_timeout", "logbook_refused"}

(* What may become of the answer of a request that was carried out: it     *)
(* arrives, arrives garbled, is 5xx or is cut off, or is not awaited.      *)
Saved == {"success", "internal_error", "logbook_unavailable", "logbook_timeout"}

(* Olog carries the request out, and its answer arrives or does not. *)
Writes(c) ==
  /\ pc[c] = "writing"
  /\ \E i \in Ids : CarriesOut(c, i)
  /\ \E code \in Saved : Ends(c, code)
  /\ UNCHANGED <<configured, edits, ask, request, late>>

(* An answer below 500 that is not one of success, to either request: for  *)
(* want of a right, or for another reason. If the reason is about the name *)
(* of a logbook, the names are asked for too. A reason that is not in      *)
(* Olog's form breaks the call.                                            *)
IsRefused(c) ==
  /\ pc[c] \in {"reading", "writing"}
  /\ Goes(c, "naming") \/ Ends(c, "logbook_refused") \/ Ends(c, "internal_error")
  /\ UNCHANGED <<configured, olog, version, edits, ask, request, late, landed>>

(* list_logbooks: with the names, if they can be read and are names, or    *)
(* without.                                                                *)
GetsNames(c) ==
  /\ pc[c] = "naming"
  /\ Ends(c, "logbook_refused") \/ Ends(c, "internal_error")
  /\ UNCHANGED <<configured, olog, version, edits, ask, request, late, landed>>

(* Reading fails: too slow, 5xx or unreachable, or no record; a search     *)
(* knows an answer that is no list of entries.                             *)
ReadFails(c) ==
  /\ pc[c] = "reading"
  /\ \/ \E code \in {"logbook_timeout", "logbook_unavailable", "internal_error"} : Ends(c, code)
     \/ ask[c].tool = "get_alarm_history" /\ Ends(c, "logbook_query_error")
  /\ UNCHANGED <<configured, olog, version, edits, ask, request, late, landed>>

(* Giving up only a new entry. *)
GivesUpCreating(c) ==
  /\ pc[c] = "writing" /\ ask[c].tool = "create_logbook_entry"
  /\ \E code \in {"logbook_timeout", "logbook_unavailable"} : Ends(c, code)
  /\ late' \in {late, late \cup {c}}
  /\ UNCHANGED <<configured, olog, version, edits, ask, request, landed>>

(* Writing is given up before Olog got to it; the request is lost, or      *)
(* still on its way.                                                       *)
GivesUp(c) ==
  /\ pc[c] = "writing"
  /\ \E code \in {"logbook_timeout", "logbook_unavailable"} : Ends(c, code)
  /\ late' \in {late, late \cup {c}}
  /\ UNCHANGED <<configured, olog, version, edits, ask, request, landed>>

Next ==
  \/ \E c \in Calls :
       \/ Begin(c) \/ Reads(c) \/ IsMissing(c) \/ SendsBack(c) \/ ReadFails(c)
       \/ Writes(c) \/ IsRefused(c) \/ GetsNames(c) \/ GivesUp(c)
       \/ ArrivesLate(c)
  \/ \E i \in Ids : OthersEdit(i)

Spec == Init /\ [][Next]_vars

(* httpx ends every request by its timeout; that Olog answers is not       *)
(* assumed.                                                                *)
Fairness == \A c \in Calls : WF_vars(ReadFails(c)) /\ WF_vars(GivesUp(c)) /\ WF_vars(GetsNames(c))

FairSpec == Spec /\ Fairness

----
Places == {"new", "reading", "writing", "naming", "done"}

(* The types of the variables; entries have all the fields that an entry   *)
(* must have.                                                              *)
TypeOK ==
  /\ configured \in BOOLEAN
  /\ olog \in [Ids -> Records \cup {NoEntry}]
  /\ version \in [Ids -> Nat]
  /\ edits \in 0..MaxEdits
  /\ pc \in [Calls -> Places]
  /\ ask \in [Calls -> Asks \cup {NoAsk}]
  /\ request \in [Calls -> [record : Records, base : Nat] \cup {NoRequest}]
  /\ reply \in [Calls -> Refusals \cup Failures \cup {"success", NoReply}]
  /\ late \subseteq Calls
  /\ landed \subseteq Calls

Lands(c) == c \notin landed /\ c \in landed'

(* The entry of this Olog that an entry_id means, if any. *)
Meant(name) == IF name.form = "other" \/ name.facility # Here THEN {} ELSE {name.number}

(* "Only the given fields change": when an update is carried out, however  *)
(* late, the entry has what was given in the fields that the arguments are *)
(* about, and everything else is as it was - unless somebody else wrote    *)
(* the entry after it was read for this update.                            *)
OnlyGivenFieldsChange ==
  [][\A c \in Calls :
       (Lands(c) /\ ask[c].tool = "update_logbook_entry") =>
         LET i == Entry(c)
             given == ask[c].changes
         IN  version[i] = request[c].base =>
               /\ DOMAIN olog'[i] = DOMAIN olog[i]
               /\ \A f \in DOMAIN olog[i] :
                    /\ \A a \in DOMAIN given : f \in FieldsOf(a) => olog'[i][f] = given[a]
                    /\ (\A a \in DOMAIN given : f \notin FieldsOf(a)) => olog'[i][f] = olog[i][f]]_vars

(* "With a forwarded user token this is that person's edit": an entry is   *)
(* written, however late, only by a person who may write to its logbooks   *)
(* as they then are, or by a caller without a token where the account may. *)
(* What is written is a new entry or the one the caller meant ("a device   *)
(* name like QF12 must not become entry 12") - unless the caller gave the  *)
(* code of an entry of another facility: the entry of that number here is  *)
(* then written in its place, by whom may write to it.                     *)
WritersMayWrite ==
  [][\A c \in Calls, i \in Ids :
       (Lands(c) /\ olog'[i] # olog[i]) =>
         LET writable == IF ask[c].who = NoToken THEN MayWrite[Account] ELSE MayWrite[ask[c].who] IN
           /\ olog'[i]["logbooks"] \in writable
           /\ \/ olog[i] = NoEntry /\ ask[c].tool = "create_logbook_entry"
              \/ /\ olog[i] # NoEntry /\ olog[i]["logbooks"] \in writable
                 /\ ask[c].tool = "update_logbook_entry"
                 /\ \/ i \in Meant(ask[c].name)
                    \/ ask[c].name.facility # Here /\ i = ask[c].name.number]_vars

(* What the user is told is what happened: after "success" the entry was   *)
(* written, and after a refusal it was not and will not be. A failure      *)
(* leaves it open.                                                         *)
RepliesAreTrue ==
  \A c \in Calls :
    /\ reply[c] = "success" => (ask[c].tool \in ReadTools \/ c \in landed)
    /\ reply[c] \in Refusals => c \notin landed \cup late

(* Every call ends, though Olog never answers. *)
EveryCallEnds == \A c \in Calls : (pc[c] # "new") ~> (pc[c] = "done")
====
