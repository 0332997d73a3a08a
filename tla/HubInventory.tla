---------------------------- MODULE HubInventory ----------------------------
(***************************************************************************)
(* The device inventory read from the Knowledge Hub: list_inventory of     *)
(* services/knowledge_hub_inventory_service.py over the fan-out across     *)
(* workspaces of providers/knowledge_hub/client.py.                        *)
(*                                                                         *)
(* One call is modelled, since calls share nothing.  It reads the          *)
(* workspaces concurrently, each page by page, while people edit the hub's *)
(* records.  Asking for a page and receiving it are one action, at the     *)
(* moment the hub reads its records: a workspace's scan does nothing else  *)
(* in between.                                                             *)
(***************************************************************************)
EXTENDS Integers, Sequences, FiniteSets, SequencesExt

CONSTANTS
  Workspaces,   \* ids of the hub's workspaces
  NoWorkspace,  \* the argument workspace is not given
  Configured,   \* KNOWLEDGE_HUB_WORKSPACES, in order; empty: all of them
  Uids,         \* the hub's Control Device records
  Wanted,       \* those whose attributes pass devgroup, devfunc and zone
  BareWanted,   \* whether a record without attributes passes: no devgroup, no devfunc
  PageSize,     \* PAGE_SIZE
  MaxPages,     \* MAX_PAGES
  MaxChanges,   \* bound: edits of the hub's records during the call
  Beginnings,   \* the records a workspace may have when the call begins
  MaxOdd        \* bound: workspaces for which the hub answers oddly

NoRepeats(s) == \A i, j \in DOMAIN s : s[i] = s[j] => i = j

ASSUME NameAssumption ==
  /\ NoWorkspace \notin Workspaces
  /\ Configured \in Seq(Workspaces) /\ NoRepeats(Configured)
  /\ Wanted \subseteq Uids /\ BareWanted \in BOOLEAN
  /\ IsFiniteSet(Uids) /\ IsFiniteSet(Workspaces)
  /\ \A s \in Beginnings : s \in Seq(Uids) /\ NoRepeats(s)

ASSUME PageAssumption ==
  /\ PageSize \in Nat \ {0}
  /\ MaxPages \in Nat \ {0}
  /\ MaxChanges \in Nat
  /\ MaxOdd \in Nat

VARIABLES
  hub,      \* external: what the hub can do, and each workspace's records
  scan,     \* per workspace: the coroutine _workspace_devices
  listing,  \* the call of list_inventory and its answer
  past      \* history: what became of the records since the call began

listingVars == <<hub, scan, listing, past>>

-----------------------------------------------------------------------------
(* The hub.  One that predates offset and with_attributes ignores both.    *)

Records(w) == hub.records[w]

UpTo(s, n) == IF n < Len(s) THEN n ELSE Len(s)

Page(w, page) ==
  LET first == IF hub.paging THEN page * PageSize ELSE 0
  IN  SubSeq(Records(w), first + 1, UpTo(Records(w), first + PageSize))

(* Somebody adds a record, anywhere in the hub's order, or deletes one.    *)
(* Only a workspace that is being read matters: nothing else reads records. *)
HubAdds(w, u) ==
  /\ scan[w].pc \in {"paging", "fetching"}
  /\ past.changes < MaxChanges
  /\ w \in hub.imported
  /\ u \notin ToSet(Records(w))
  /\ \E i \in 1 .. Len(Records(w)) + 1 :
       hub' = [hub EXCEPT !.records[w] = InsertAt(@, i, u)]
  /\ past' = [past EXCEPT !.changes = @ + 1, !.ever[w] = @ \union {u}]
  /\ UNCHANGED <<scan, listing>>

HubDeletes(w, u) ==
  /\ scan[w].pc \in {"paging", "fetching"}
  /\ past.changes < MaxChanges
  /\ \E i \in DOMAIN Records(w) :
       /\ Records(w)[i] = u
       /\ hub' = [hub EXCEPT !.records[w] = RemoveAt(@, i)]
  /\ past' = [past EXCEPT !.changes = @ + 1,
                          !.deleted[w] = @ + 1,
                          !.lasting[w] = @ \ {u}]
  /\ UNCHANGED <<scan, listing>>

-----------------------------------------------------------------------------
(* The scan of one workspace.                                              *)

Notes == {"none", "short", "untyped"}

Scans == [pc      : {"idle", "paging", "fetching", "read", "failed"},
          page    : 0 .. MaxPages - 1,
          objects : SUBSET Uids,   \* _all_control_devices' objects, its seen
          total   : Nat,           \* what the last page said
          known   : SUBSET Uids,   \* objects whose attributes are there
          missing : SUBSET Uids,   \* objects still to be asked for
          note    : Notes]

Unread == [pc |-> "idle", page |-> 0, objects |-> {}, total |-> 0,
           known |-> {}, missing |-> {}, note |-> "none"]

Begun == [Unread EXCEPT !.pc = "paging"]

(* Leaving the loop without a word about a short list.                     *)
PagedSilently(s) ==
  LET missing == s.objects \ s.known
  IN  [s EXCEPT !.pc = IF missing = {} THEN "read" ELSE "fetching",
                !.missing = missing]

(* Leaving it with the records as the pages brought them.                  *)
PagedBare(s) ==
  [s EXCEPT !.pc = "read", !.note = IF Cardinality(s.objects) < s.total THEN "short" ELSE "none"]

(* Leaving the loop over pages: a short list is noted, and attributes that *)
(* the pages did not bring are asked for.                                  *)
Paged(s) ==
  LET missing == s.objects \ s.known
  IN  [s EXCEPT !.pc = IF missing = {} THEN "read" ELSE "fetching",
                !.missing = missing,
                !.note = IF Cardinality(s.objects) < s.total THEN "short" ELSE "none"]

(* The loop ends when a page brings nothing new, when everything is there, *)
(* or after the last page that is asked for.                               *)
LastPage(fresh, objects, total, page) ==
  \/ fresh = {}
  \/ Cardinality(objects) >= total
  \/ page + 1 >= MaxPages

Fresh(w) == ToSet(Page(w, scan[w].page)) \ scan[w].objects

WithPage(w, total) ==
  [scan[w] EXCEPT !.objects = @ \union Fresh(w),
                  !.total = total,
                  !.known = IF hub.paging THEN @ \union Fresh(w) ELSE @]

PageServed(w) ==
  LET got == WithPage(w, Len(Records(w)))
  IN  /\ scan[w].pc = "paging"
      /\ w \in hub.imported
      /\ scan' = [scan EXCEPT ![w] = IF LastPage(Fresh(w), got.objects, got.total, got.page)
                                       THEN Paged(got)
                                       ELSE [got EXCEPT !.page = @ + 1]]
      /\ UNCHANGED <<hub, listing, past>>

(* The workspace has no such type: nothing, and a note that says so.       *)
UnknownType(w) ==
  /\ scan[w].pc = "paging"
  /\ w \notin hub.imported
  /\ scan' = [scan EXCEPT ![w] = [Unread EXCEPT !.pc = "read", !.note = "untyped"]]
  /\ UNCHANGED <<hub, listing, past>>

(* Instead of a page the hub answers with something that is no object, or *)
(* with an object that has no total.  Either ends the loop; the latter     *)
(* makes the total 0, so that nothing seems to be short.                   *)
AnswersOddly(w) ==
  /\ w \in past.odd \/ Cardinality(past.odd) < MaxOdd
  /\ past' = [past EXCEPT !.odd = @ \union {w}]
  /\ UNCHANGED <<hub, listing>>

OddPage(w) ==
  /\ scan[w].pc = "paging"
  /\ \/ scan' = [scan EXCEPT ![w] = Paged(@)]
     \/ scan' = [scan EXCEPT ![w] = Paged(WithPage(w, 0))]
  /\ AnswersOddly(w)

(* get_object, one of those that _fetch_attributes gathers.  They end in   *)
(* any order, which the semaphore only narrows.                            *)
Fetched(s, u, known) ==
  LET missing == s.missing \ {u}
  IN  [s EXCEPT !.missing = missing,
                !.known = @ \union known,
                !.pc = IF missing = {} THEN "read" ELSE "fetching"]

ObjectServed(w, u) ==
  /\ scan[w].pc = "fetching"
  /\ u \in scan[w].missing \intersect ToSet(Records(w))
  /\ scan' = [scan EXCEPT ![w] = Fetched(@, u, {u})]
  /\ UNCHANGED <<hub, listing, past>>

(* Attributes that are none: they are taken for empty. *)
OddObject(w, u) ==
  /\ scan[w].pc = "fetching"
  /\ u \in scan[w].missing
  /\ scan' = [scan EXCEPT ![w] = Fetched(@, u, {})]
  /\ AnswersOddly(w)

(* A call of the hub raises: the workspace may not be read, a record that  *)
(* was listed is gone, the hub is down.                                    *)
ScanFails(w) ==
  /\ scan[w].pc \in {"paging", "fetching"}
  /\ scan' = [scan EXCEPT ![w] = [Unread EXCEPT !.pc = "failed"]]
  /\ UNCHANGED <<hub, listing, past>>

-----------------------------------------------------------------------------
(* The call.                                                               *)

Devices == [uid : Uids, workspace : Workspaces]

Listings == [status  : {"idle", "reading", "answered", "refused", "error"},
             ids     : Seq(Workspaces),
             devices : SUBSET Devices,
             notes   : SUBSET (Workspaces \X {"short", "untyped", "failed"})]

NotAsked == [status |-> "idle", ids |-> <<>>, devices |-> {}, notes |-> {}]

(* What list_workspaces may answer: all that the token may read, in the    *)
(* hub's order, or the configured ones among them, in the configured order.*)
InConfiguredOrder(ids) ==
  \A i, j \in DOMAIN ids :
    i < j => \E k, l \in DOMAIN Configured :
               k < l /\ Configured[k] = ids[i] /\ Configured[l] = ids[j]

ListWorkspaces ==
  {ids \in SetToAllKPermutations(Workspaces) :
     Configured # <<>> => /\ ToSet(ids) \subseteq ToSet(Configured)
                          /\ InConfiguredOrder(ids)}

WorkspaceIds(only) ==
  IF only = NoWorkspace THEN ListWorkspaces
  ELSE {IF only \in ToSet(ids) THEN <<only>> ELSE <<>> : ids \in ListWorkspaces}

(* list_inventory begins: the workspaces, which may be a cached list of    *)
(* what the token could read, a refusal when there is none to ask in, or   *)
(* the error of asking for them.                                           *)
Call(only) ==
  /\ listing.status = "idle"
  /\ \/ \E ids \in WorkspaceIds(only) :
          /\ listing' = [NotAsked EXCEPT !.status = IF ids = <<>> THEN "refused"
                                                    ELSE "reading",
                                         !.ids = ids]
          /\ scan' = [w \in Workspaces |-> IF w \in ToSet(ids) THEN Begun ELSE Unread]
     \/ listing' = [NotAsked EXCEPT !.status = "error"] /\ scan' = scan
  /\ UNCHANGED <<hub, past>>

Asked == ToSet(listing.ids)

(* The records of all workspaces asked in, in the order of the ids.        *)
Gathered == UNION {[uid : scan[w].objects, workspace : {w}] : w \in Asked}

(* matches_filters: a record without attributes has no devgroup, no        *)
(* devfunc and every zone.                                                 *)
Passes(device) ==
  IF device.uid \in scan[device.workspace].known THEN device.uid \in Wanted ELSE BareWanted

(* A record that is shared is visible in several workspaces; it counts     *)
(* where it is seen first.                                                 *)
SeenBefore(device) ==
  \E i, j \in DOMAIN listing.ids :
    /\ i < j
    /\ listing.ids[j] = device.workspace
    /\ device.uid \in scan[listing.ids[i]].objects

Merged == {device \in Gathered : ~SeenBefore(device) /\ Passes(device)}

(* Waiting for results only, not for failures.                             *)
EndedWell(w) == scan[w].pc = "read"

Ended(w) == scan[w].pc \in {"read", "failed"}

(* for_each_workspace has gathered every outcome: if nothing could be read *)
(* the first error is raised, otherwise the rest is merged and noted.      *)
AnswerListing ==
  /\ listing.status = "reading"
  /\ \A w \in Asked : Ended(w)
  /\ LET failed == {w \in Asked : scan[w].pc = "failed"}
     IN  listing' =
           IF failed = Asked THEN [listing EXCEPT !.status = "error"]
           ELSE [listing EXCEPT
                   !.status = "answered",
                   !.devices = Merged,
                   !.notes = {<<w, "failed">> : w \in failed}
                             \union {<<w, scan[w].note>> :
                                       w \in {v \in Asked : scan[v].note # "none"}}]
  /\ UNCHANGED <<hub, scan, past>>

-----------------------------------------------------------------------------
(* A workspace whose configuration was never imported has no records.      *)
Hubs == [paging : BOOLEAN, imported : SUBSET Workspaces,
         records : [Workspaces -> Beginnings]]

ListingInit ==
  /\ hub \in {h \in Hubs : \A w \in Workspaces \ h.imported : h.records[w] = <<>>}
  /\ scan = [w \in Workspaces |-> Unread]
  /\ listing = NotAsked
  /\ past = [changes |-> 0, odd |-> {},
             deleted |-> [w \in Workspaces |-> 0],
             lasting |-> [w \in Workspaces |-> ToSet(hub.records[w])],
             ever    |-> [w \in Workspaces |-> ToSet(hub.records[w])]]

(* One answer of the hub to the scan of w.                                 *)
Served(w) ==
  \/ PageServed(w)
  \/ UnknownType(w)
  \/ OddPage(w)
  \/ \E u \in Uids : ObjectServed(w, u) \/ OddObject(w, u)
  \/ ScanFails(w)

HubChanges(w) == \E u \in Uids : HubAdds(w, u) \/ HubDeletes(w, u)

ListingNext ==
  \/ \E only \in Workspaces \union {NoWorkspace} : Call(only)
  \/ \E w \in Workspaces : Served(w)
  \/ \E w \in Workspaces : HubChanges(w)
  \/ AnswerListing

(* The hub answers every request or the HTTP client's timeout fails it;    *)
(* the event loop resumes the gathering coroutine.                         *)
ListingFairness ==
  /\ \A w \in Workspaces : WF_listingVars(Served(w))
  /\ WF_listingVars(AnswerListing)

ListingSpec == ListingInit /\ [][ListingNext]_listingVars /\ ListingFairness

-----------------------------------------------------------------------------
(* Properties.                                                             *)

(* The variables keep their types: no page past the last is asked for, and *)
(* the hub has a record of a workspace once.                               *)
ListingTypes ==
  /\ hub \in [paging : BOOLEAN, imported : SUBSET Workspaces,
              records : [Workspaces -> Seq(Uids)]]
  /\ \A w \in Workspaces : NoRepeats(Records(w))
  /\ scan \in [Workspaces -> Scans]
  /\ listing \in Listings
  /\ past \in [changes : 0 .. MaxChanges, odd : SUBSET Workspaces,
               deleted : [Workspaces -> Nat],
               lasting : [Workspaces -> SUBSET Uids],
               ever    : [Workspaces -> SUBSET Uids]]

Listed == {device.uid : device \in listing.devices}

Noted(w) == \E note \in listing.notes : note[1] = w

(* The hub answered oddly for w or for a workspace whose records count     *)
(* before those of w.                                                      *)
OddUpTo(w) ==
  \E i, j \in DOMAIN listing.ids : i <= j /\ listing.ids[j] = w /\ listing.ids[i] \in past.odd

(* An inventory that carries no note about a workspace lacks no more of    *)
(* its devices than were deleted from it while it was read: each deletion  *)
(* may move one record across the offset of the next page.  In particular  *)
(* it is complete when nobody deletes, whatever is added in between,       *)
(* whether the hub pages or not.  This is claimed of hubs whose answers    *)
(* are the objects that the client expects, with a total: an odd page ends *)
(* the scan, and the list is short without a note; an odd get_object hides *)
(* a record, also in the workspaces after that share it.                   *)
MissesAtMostTheDeleted ==
  listing.status = "answered" =>
    \A w \in Asked :
      ~Noted(w) /\ ~OddUpTo(w) =>
        Cardinality((past.lasting[w] \intersect Wanted) \ Listed) <= past.deleted[w]

(* What is listed was there during the call, in the workspace it is listed *)
(* under, and passes the filters, unless the hub answered oddly when it    *)
(* was asked for the attributes and the filters let those without pass.    *)
NothingInvented ==
  \A device \in listing.devices :
    /\ device.workspace \in Asked /\ device.uid \in past.ever[device.workspace]
    /\ device.uid \in Wanted \/ (BareWanted /\ device.workspace \in past.odd)

(* Every call ends, with an answer or an error, however the records move.  *)
CallsEnd == listing.status = "reading" ~> listing.status # "reading"
=============================================================================
