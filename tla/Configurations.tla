---- MODULE Configurations ----
(***************************************************************************)
(* Creating a save-and-restore configuration, and finding one by its path  *)
(* (services/saverestore_service.py, providers/saverestore/saverestore.py, *)
(* mcp_server/tools/saverestore_tools.py).  The devices that a user names  *)
(* become a list of PVs, the folder is walked to part by part, and both    *)
(* are done twice: for the preview, and again when the user has agreed.    *)
(*                                                                         *)
(* Every request is one action, at the moment it is served; others edit    *)
(* the device inventory and the tree of nodes in between.  How the         *)
(* inventory is listed is the business of HubInventory.                    *)
(***************************************************************************)
EXTENDS Integers, Sequences, FiniteSets, SequencesExt

CONSTANTS
  Calls,        \* bound: tool calls, each made once
  Names,        \* of devices, folders and configurations
  Lower,        \* [Names -> Names]: str.lower
  PVs, NoPv,    \* names of PVs, and None
  Quantities,   \* what a device has setpoints and readbacks of, sorted by role
  Explicit,     \* the owner of the PVs that are given explicitly
  Workspaces,
  Source,       \* where devices are listed: "yaml" or "knowledge_hub"
  Inventories,  \* the devices there may be: sequences of devices
  Ids,          \* bound: the nodes of save-and-restore, in the order it lists them
  Root, NoNode,
  Trees,        \* the nodes there may be at the start
  Asks,         \* what a call may ask for
  MaxChanges    \* bound: edits by others

(* key_pvs: a role is a quantity's setpoint or readback. *)
IsDevice(d) ==
  /\ DOMAIN d = {"name", "workspace", "setpoints", "readbacks"}
  /\ d.name \in Names /\ d.workspace \in Workspaces
  /\ \A roles \in {d.setpoints, d.readbacks} :
       DOMAIN roles \subseteq ToSet(Quantities) /\ \A q \in DOMAIN roles : roles[q] \in PVs

Pairs == [setpoint : PVs, readback : PVs \cup {NoPv}]

IsNode(n) ==
  /\ DOMAIN n = {"type", "name", "parent", "pvs"}
  /\ n.type \in {"FOLDER", "CONFIGURATION"}
  /\ n.name \in Names /\ n.parent \in Ids /\ n.pvs \in Seq(Pairs)

IsTree(t) ==
  /\ DOMAIN t = Ids
  /\ \A i \in Ids : t[i] = NoNode \/ IsNode(t[i])
  /\ t[Root] # NoNode /\ t[Root].type = "FOLDER"

(* A folder or a configuration is named by its id or by its path, whose    *)
(* last part, for a configuration, is the name. An item of pvs is          *)
(* malformed if it has no setpoint.                                        *)
IsAsk(a) ==
  /\ a.kind \in {"create", "find"}
  /\ \/ a.folder.by = "id" /\ a.folder.id \in Ids
     \/ a.folder.by = "path" /\ a.folder.parts \in Seq(Names)
  /\ a.name \in Names
  /\ a.kind = "create" =>
       /\ a.devices \in Seq(Names) /\ a.readbacks \in BOOLEAN
       /\ a.pvs \in Seq([setpoint : PVs \cup {NoPv}, readback : PVs \cup {NoPv}])

ASSUME NameAssumption ==
  /\ Lower \in [Names -> Names]
  /\ NoPv \notin PVs /\ Explicit \notin Names
  /\ Source \in {"yaml", "knowledge_hub"}

IsSeq(s) == s \in Seq(ToSet(s))

ASSUME InventoryAssumption ==
  /\ IsSeq(Quantities)
  /\ \A inv \in Inventories : IsSeq(inv) /\ \A i \in DOMAIN inv : IsDevice(inv[i])

ASSUME TreeAssumption ==
  /\ Ids \subseteq Nat /\ IsFiniteSet(Ids)
  /\ Root \in Ids /\ NoNode \notin Ids
  /\ \A t \in Trees : IsTree(t)

ASSUME AskAssumption == MaxChanges \in Nat /\ \A a \in Asks : IsAsk(a)

VARIABLES
  inventory,  \* the devices there are
  tree,       \* the nodes of save-and-restore
  changes,    \* edits by others
  call,       \* call[c]: where a tool call is
  quiet       \* history: the calls whose listings were complete and during which nobody changed anything

vars == <<inventory, tree, changes, call, quiet>>

----
(* plan_configuration. *)

(* by_name: the last of the listed devices with a name counts. *)
Alike(listing, wanted) == {i \in DOMAIN listing : Lower[listing[i].name] = Lower[wanted]}

DeviceOf(listing, wanted) == listing[Max(Alike(listing, wanted))]

(* The readbacks wanted by the preview are forgotten. *)
WantsReadbacksAtFirst(s) == s.ask.readbacks \/ s.confirmed

(* include_readbacks *)
WantsReadbacks(s) == s.ask.readbacks

Entry(s, setpoint, readback, owner) ==
  [setpoint |-> setpoint, readback |-> IF WantsReadbacks(s) THEN readback ELSE NoPv, owner |-> owner]

(* What a wanted device offers, role by role. *)
Offers(s, listing, wanted) ==
  IF Alike(listing, wanted) = {} THEN <<>>
  ELSE LET device == DeviceOf(listing, wanted)
           Of(q) ==
             IF q \notin DOMAIN device.setpoints THEN <<>>
             ELSE <<Entry(s, device.setpoints[q],
                          IF q \in DOMAIN device.readbacks THEN device.readbacks[q] ELSE NoPv, device.name)>>
       IN  FlattenSeq([i \in DOMAIN Quantities |-> Of(Quantities[i])])

(* add: the first to offer a setpoint contributes it. *)
Add(pvs, entry) ==
  IF \E i \in DOMAIN pvs : pvs[i].setpoint = entry.setpoint THEN pvs ELSE Append(pvs, entry)

(* Only unknown devices are reported. *)
SkippedIfUnknown(s, listing) == {w \in ToSet(s.ask.devices) : Alike(listing, w) = {}}

(* The names under which devices that contribute nothing are reported. *)
Skipped(s, listing) ==
  {w \in ToSet(s.ask.devices) : Alike(listing, w) = {}}
    \cup {DeviceOf(listing, w).name :
            w \in {v \in ToSet(s.ask.devices) : Alike(listing, v) # {} /\ Offers(s, listing, v) = <<>>}}

PlanOf(s, listing) ==
  LET wanted == s.ask.devices
      given == s.ask.pvs
      offered == FlattenSeq([i \in DOMAIN wanted |-> Offers(s, listing, wanted[i])])
      explicit == [i \in DOMAIN given |-> Entry(s, given[i].setpoint, given[i].readback, Explicit)]
  IN  [pvs |-> FoldLeft(Add, <<>>, offered \o explicit), skipped |-> Skipped(s, listing)]

(* Only an empty item is refused. *)
MalformedIfEmpty(a) == \E i \in DOMAIN a.pvs : a.pvs[i].setpoint = NoPv /\ a.pvs[i].readback = NoPv

Malformed(a) == \E i \in DOMAIN a.pvs : a.pvs[i].setpoint = NoPv

(* What is stored of a plan. *)
Stored(plan) ==
  [i \in DOMAIN plan.pvs |-> [setpoint |-> plan.pvs[i].setpoint, readback |-> plan.pvs[i].readback]]

Idle == [pc |-> "idle"]

NothingPlanned == [pvs |-> <<>>, skipped |-> {}]

(* listing: the devices that the plan was made from. at: the folder being  *)
(* walked through, and left: the parts of the path still to be walked.     *)
(* shown: the preview. node: what was created or found.                    *)
Started(ask) ==
  [pc |-> "planning", ask |-> ask, confirmed |-> FALSE, listing |-> <<>>, plan |-> NothingPlanned,
   at |-> Root, left |-> <<>>, shown |-> [plan |-> NothingPlanned, folder |-> NoNode],
   node |-> NoNode]

(* An answer with the node that was created or found, and any other one.   *)
Done(s, node) == [s EXCEPT !.pc = "done", !.node = node]

Ended(code) == [pc |-> "ended", code |-> code]

Becomes(c, s) == call' = [call EXCEPT ![c] = s]

Init ==
  /\ inventory \in Inventories
  /\ tree \in Trees
  /\ changes = 0
  /\ call = [c \in Calls |-> Idle]
  /\ quiet = {}

----
(* resolve_folder and resolve_configuration. *)

(* The folder has been found. *)
Arrived(s, folder) ==
  LET next == IF s.ask.kind = "find" THEN "picking" ELSE IF s.confirmed THEN "creating" ELSE "shown"
  IN  [s EXCEPT !.pc = next, !.at = folder,
                !.shown = IF next = "shown" THEN [plan |-> s.plan, folder |-> folder] ELSE @]

(* By id, by path, or not at all: the root is not a folder to use. *)
ToFolder(s) ==
  IF s.ask.folder.by = "id" THEN [s EXCEPT !.pc = "getting"]
  ELSE IF s.ask.folder.parts # <<>> THEN [s EXCEPT !.pc = "walking", !.at = Root, !.left = s.ask.folder.parts]
  ELSE Ended(IF s.ask.kind = "find" THEN "validation_error" ELSE "query_error")

Planned(s, listing) ==
  LET t == [s EXCEPT !.listing = listing, !.plan = PlanOf(s, listing)]
  IN  IF Malformed(s.ask) \/ t.plan.pvs = <<>> THEN Ended("validation_error") ELSE ToFolder(t)

(* Planning needs the devices' listing only if devices are named. *)
ToPlan(s) ==
  IF s.ask.kind = "find" THEN ToFolder(s)
  ELSE IF s.ask.devices # <<>> THEN [s EXCEPT !.pc = "listing"]
  ELSE Planned(s, <<>>)

Begin(c, ask) ==
  /\ call[c] = Idle
  /\ Becomes(c, ToPlan(Started(ask)))
  /\ quiet' = quiet \cup {c}
  /\ UNCHANGED <<inventory, tree, changes>>

(* What is listed when a workspace cannot be read: a note says so, which   *)
(* plan_configuration does not look at.                                    *)
Without(workspace) ==
  FlattenSeq([i \in DOMAIN inventory |->
                IF inventory[i].workspace = workspace THEN <<>> ELSE <<inventory[i]>>])

(* The YAML's list_inventory requires a repo that is not passed. *)
Lists(c) ==
  /\ call[c].pc = "listing"
  /\ Source = "knowledge_hub"
  /\ \E listing \in {inventory} \cup {Without(w) : w \in Workspaces} :
       /\ Becomes(c, Planned(call[c], listing))
       /\ quiet' = IF listing = inventory THEN quiet ELSE quiet \ {c}
  /\ UNCHANGED <<inventory, tree, changes>>

(* get_node *)
Gets(c) ==
  /\ call[c].pc = "getting"
  /\ LET s == call[c]
         id == s.ask.folder.id
         wanted == IF s.ask.kind = "find" THEN "CONFIGURATION" ELSE "FOLDER"
     IN  Becomes(c, IF tree[id] = NoNode THEN Ended("refused")
                    ELSE IF tree[id].type # wanted THEN Ended("query_error")
                    ELSE IF s.ask.kind = "find" THEN Done(s, id)
                    ELSE Arrived(s, id))
  /\ UNCHANGED <<inventory, tree, changes, quiet>>

(* get_children *)
Children(folder) == {i \in Ids \ {Root} : tree[i] # NoNode /\ tree[i].parent = folder}

(* Whatever has the name. *)
MatchOfAnyType(folder, type, name) ==
  LET here == Children(folder)
      exact == {i \in here : tree[i].name = name}
  IN  IF exact # {} THEN exact ELSE {i \in here : Lower[tree[i].name] = Lower[name]}

(* A child of this type: of exactly this name if there is one, or else of  *)
(* the same name in another case. The first one listed is taken.           *)
Matching(folder, type, name) ==
  LET here == {i \in Children(folder) : tree[i].type = type}
      exact == {i \in here : tree[i].name = name}
  IN  IF exact # {} THEN exact ELSE {i \in here : Lower[tree[i].name] = Lower[name]}

(* One part of the path. *)
Walks(c) ==
  /\ call[c].pc = "walking"
  /\ LET s == call[c]
         found == Matching(s.at, "FOLDER", Head(s.left))
         t == [s EXCEPT !.at = Min(found), !.left = Tail(s.left)]
     IN  Becomes(c, IF tree[s.at] = NoNode THEN Ended("refused")
                    ELSE IF found = {} THEN Ended("query_error")
                    ELSE IF t.left = <<>> THEN Arrived(t, t.at)
                    ELSE t)
  /\ UNCHANGED <<inventory, tree, changes, quiet>>

Picks(c) ==
  /\ call[c].pc = "picking"
  /\ LET s == call[c]
         found == Matching(s.at, "CONFIGURATION", s.ask.name)
     IN  Becomes(c, IF tree[s.at] = NoNode THEN Ended("refused")
                    ELSE IF found = {} THEN Ended("query_error")
                    ELSE Done(s, Min(found)))
  /\ UNCHANGED <<inventory, tree, changes, quiet>>

----
(* Creating, after the preview. *)

(* The confirmed call carries the same arguments, not what was shown. *)
Agree(c) ==
  /\ call[c].pc = "shown"
  /\ LET s == call[c]
     IN  Becomes(c, ToPlan([Started(s.ask) EXCEPT !.confirmed = TRUE, !.shown = s.shown]))
  /\ UNCHANGED <<inventory, tree, changes, quiet>>

Decline(c) ==
  /\ call[c].pc = "shown"
  /\ Becomes(c, Ended("declined"))
  /\ UNCHANGED <<inventory, tree, changes, quiet>>

(* The service takes a configuration for a folder it knows, unless there   *)
(* is one of that name in it.                                              *)
Takes(s, id) ==
  /\ tree[id] = NoNode
  /\ tree[s.at] # NoNode
  /\ \A i \in Children(s.at) : tree[i].type = "CONFIGURATION" => tree[i].name # s.ask.name
  /\ tree' = [tree EXCEPT ![id] = [type |-> "CONFIGURATION", name |-> s.ask.name, parent |-> s.at,
                                   pvs |-> Stored(s.plan)]]

(* Stored: for a caller who is told, or who has been told of a timeout.    *)
Creates(c) ==
  /\ call[c].pc \in {"creating", "gaveup"}
  /\ \E id \in Ids : Takes(call[c], id) /\ Becomes(c, Done(call[c], id))
  /\ quiet' = quiet \cap {c}
  /\ UNCHANGED <<inventory, changes>>

(* _request: the service refuses, or does not take the request. *)
IsRefused(c) ==
  /\ call[c].pc \in {"listing", "getting", "walking", "picking", "creating"}
  /\ Becomes(c, Ended("refused"))
  /\ UNCHANGED <<inventory, tree, changes, quiet>>

(* A timeout, a connection that breaks, or an answer that cannot be read:  *)
(* the configuration may be stored all the same.                           *)
GivesUp(c) ==
  /\ call[c].pc = "creating"
  /\ Becomes(c, [call[c] EXCEPT !.pc = "gaveup"])
  /\ UNCHANGED <<inventory, tree, changes, quiet>>

----
(* The others: the inventory is imported again, nodes are renamed, moved   *)
(* and deleted.                                                            *)

Disturb ==
  /\ changes < MaxChanges
  /\ changes' = changes + 1
  /\ quiet' = {}

Import(devices) ==
  /\ Disturb
  /\ devices # inventory
  /\ inventory' = devices
  /\ UNCHANGED <<tree, call>>

Rename(i, name) ==
  /\ Disturb
  /\ tree[i] # NoNode /\ tree[i].name # name
  /\ tree' = [tree EXCEPT ![i].name = name]
  /\ UNCHANGED <<inventory, call>>

Move(i, folder) ==
  /\ Disturb
  /\ tree[i] # NoNode /\ tree[folder] # NoNode
  /\ tree[folder].type = "FOLDER" /\ Children(i) = {} /\ folder \notin {i, tree[i].parent}
  /\ tree' = [tree EXCEPT ![i].parent = folder]
  /\ UNCHANGED <<inventory, call>>

Delete(i) ==
  /\ Disturb
  /\ tree[i] # NoNode /\ Children(i) = {}
  /\ tree' = [tree EXCEPT ![i] = NoNode]
  /\ UNCHANGED <<inventory, call>>

Next ==
  \/ \E c \in Calls :
       \/ \E ask \in Asks : Begin(c, ask)
       \/ Lists(c) \/ Gets(c) \/ Walks(c) \/ Picks(c)
       \/ Agree(c) \/ Decline(c) \/ Creates(c)
       \/ IsRefused(c) \/ GivesUp(c)
  \/ \E devices \in Inventories : Import(devices)
  \/ \E i \in Ids \ {Root} :
       \/ \E name \in Names : Rename(i, name)
       \/ \E folder \in Ids : Move(i, folder)
       \/ Delete(i)

Spec == Init /\ [][Next]_vars

----
Plans ==
  [pvs : Seq([setpoint : PVs, readback : PVs \cup {NoPv}, owner : Names \cup {Explicit}]),
   skipped : SUBSET Names]

IsCall(s) ==
  /\ s.ask \in Asks
  /\ s.pc \in {"listing", "getting", "walking", "picking", "shown", "creating", "gaveup", "done"}
  /\ s.confirmed \in BOOLEAN /\ s.plan \in Plans
  /\ s.at \in Ids /\ s.left \in Seq(Names)
  /\ s.shown.plan \in Plans /\ s.shown.folder \in Ids \cup {NoNode}
  /\ s.node \in Ids \cup {NoNode}

Endings == {Ended(code) : code \in {"declined", "validation_error", "query_error", "refused"}}

(* The types of the variables. *)
TypeOK ==
  /\ inventory \in Inventories
  /\ IsTree(tree)
  /\ changes \in 0..MaxChanges
  /\ DOMAIN call = Calls /\ \A c \in Calls : call[c] \in {Idle} \cup Endings \/ IsCall(call[c])
  /\ quiet \subseteq Calls

Begun == {c \in Calls : call[c].pc \notin {"idle", "ended"}}

Offered(s, wanted) == ToSet(Offers(s, s.listing, wanted))

(* A plan has exactly the setpoints of the devices and PVs asked for, each *)
(* once and as one of them offers it, with the readback only if readbacks  *)
(* are wanted; and a device that contributes none is reported as skipped   *)
(* ("never silently dropped"), unless all it offers is there already.      *)
PlanIsExact ==
  \A c \in Begun :
    LET s == call[c]
        devices == ToSet(s.ask.devices)
        given == {[setpoint |-> p.setpoint, readback |-> IF s.ask.readbacks THEN p.readback ELSE NoPv,
                   owner |-> Explicit] : p \in ToSet(s.ask.pvs)}
        offers == given \cup UNION {Offered(s, w) : w \in devices}
        pvs == ToSet(s.plan.pvs)
    IN  s.plan # NothingPlanned =>
          /\ pvs \subseteq offers
          /\ \A o \in offers : \E p \in pvs : p.setpoint = o.setpoint
          /\ \A p, q \in pvs : p.setpoint = q.setpoint => p = q
          /\ Len(s.plan.pvs) = Cardinality(pvs)
          /\ ~ s.ask.readbacks => \A p \in pvs : p.readback = NoPv
          /\ \A w \in devices :
               Offered(s, w) = {} => \E d \in s.plan.skipped : Lower[d] = Lower[w]

(* What is created, if the devices were listed in full and nobody else     *)
(* changed anything since the call began, is what the user was shown and   *)
(* agreed to: the same PVs in the same folder, though both are worked out  *)
(* again, and though the answer may be late.                               *)
QuietCreateIsShown ==
  \A c \in Begun \cap quiet :
    LET s == call[c]
    IN  s.ask.kind = "create" /\ s.node # NoNode =>
          /\ tree[s.node].pvs = Stored(s.shown.plan)
          /\ tree[s.node].parent = s.shown.folder

(* Whether a node is named by this part of a path: no sibling of its type  *)
(* has the better claim to the name.                                       *)
Answers(i, type, name) ==
  /\ tree[i].type = type
  /\ Lower[tree[i].name] = Lower[name]
  /\ (\E j \in Children(tree[i].parent) : tree[j].type = type /\ tree[j].name = name) => tree[i].name = name

IsAtPath(folder, parts) ==
  \E chain \in [1..Len(parts) -> Ids \ {Root}] :
    /\ chain[Len(parts)] = folder
    /\ \A k \in 1..Len(parts) :
         /\ tree[chain[k]] # NoNode
         /\ tree[chain[k]].parent = IF k = 1 THEN Root ELSE chain[k - 1]
         /\ Answers(chain[k], "FOLDER", parts[k])

(* Unless somebody changed the nodes on the way, a path leads to what it   *)
(* names: folder by folder from the root, the exact name before one in     *)
(* another case, and at its end the configuration of that name.            *)
PathsAreFollowed ==
  \A c \in Begun \cap quiet :
    LET s == call[c]
    IN  s.ask.folder.by = "path" =>
          /\ s.pc \in {"shown", "creating", "gaveup", "picking"} => IsAtPath(s.at, s.ask.folder.parts)
          /\ s.ask.kind = "find" /\ s.node # NoNode =>
               /\ IsAtPath(tree[s.node].parent, s.ask.folder.parts)
               /\ Answers(s.node, "CONFIGURATION", s.ask.name)
====
