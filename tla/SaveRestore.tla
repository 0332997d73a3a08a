---- MODULE SaveRestore ----
(***************************************************************************)
(* Taking and restoring the snapshots of configurations                    *)
(* (services/saverestore_service.py over providers/saverestore).  A        *)
(* restore is previewed (find the snapshot, compare it with the machine),  *)
(* agreed to by the user, and then run from the same arguments: find       *)
(* again, compare again, write.                                            *)
(*                                                                         *)
(* Every request is one action, at the moment the save-and-restore service *)
(* serves it; other users, operators and the machine act in between.  The  *)
(* walk along a path is one step here, where it ends: Configurations walks *)
(* it folder by folder.  The service is external: it reads or writes the   *)
(* PVs of a request at once, never writes a read-only PV, cannot write one *)
(* that is not connected, and lists snapshots in the order of their saving.*)
(***************************************************************************)
EXTENDS Integers, Sequences, FiniteSets

CONSTANTS
  Calls,      \* bound: restores and snapshots in progress at once
  PVs,        \* the setpoint PVs of the configurations
  ReadOnly,   \* those that the configurations declare read-only
  Compares,   \* those that the service's comparison lists
  Values,     \* what a PV may hold
  NoValue,    \* a PV that is not connected
  Configs,    \* the configurations
  Paths,      \* the paths that people write for them
  NoConfig,   \* where a path leads to no configuration
  Names,      \* the names of snapshots
  Lower,      \* [Names -> Names]: str.lower
  WallClock,  \* what the clock on the wall of ARGUS showed at each save
  Restores,   \* bound: the snapshot arguments of restores, a subset of References
  Takes,      \* bound: the places and names of snapshots to take
  MaxNodes,   \* bound: snapshots ever taken
  MaxEdits    \* bound: what others change, on the machine or in the tree

(* The configuration argument: a node id or a path. *)
Places == Configs \cup Paths

(* The snapshot argument: an id, or a name or "latest" in a configuration. *)
References ==
  [by: {"id"}, id: 1..MaxNodes] \cup [by: {"name"}, place: Places, name: Names]
    \cup [by: {"latest"}, place: Places]

(* The comparison lists the PVs that a restore may write; whether it lists *)
(* the read-only ones too is the service's business.                       *)
ASSUME SnapshotAssumption ==
  /\ IsFiniteSet(PVs) /\ ReadOnly \subseteq PVs
  /\ PVs \ ReadOnly \subseteq Compares /\ Compares \subseteq PVs
  /\ NoValue \notin Values
  /\ NoConfig \notin Configs /\ Paths \cap Configs = {}
  /\ Lower \in [Names -> Names]
  /\ MaxNodes \in Nat
  /\ WallClock \in [1..MaxNodes -> Nat]
  /\ MaxEdits \in Nat

ASSUME ArgumentAssumption ==
  Restores \subseteq References /\ Takes \subseteq [place: Places, name: Names]

VARIABLES
  live,     \* the machine: live[pv]
  nodes,    \* the snapshots, in the order they were saved
  leads,    \* leads[path]: the configuration there now
  call,     \* call[c]: where a tool call is
  edits,    \* how often others changed something
  quiet,    \* history: the restores since whose start nobody else changed anything
  steady,   \* history: those since when nobody renamed, deleted or moved anything
  touched   \* history: touched[c], the PVs that others changed since c compared

vars == <<live, nodes, leads, call, edits, quiet, steady, touched>>

Readings == [PVs -> Values \cup {NoValue}]

Node == [config: Configs, name: Names, saved: Readings, deleted: BOOLEAN]

Idle == [pc |-> "idle"]

Ended(outcome) == [pc |-> "ended", outcome |-> outcome]

(* What the preview found: the snapshot, the number of those that there    *)
(* were then, and the PVs that would change.                               *)
Shown == [node: 0..MaxNodes, upto: 0..MaxNodes, changes: SUBSET PVs]

NotShown == [node |-> 0, upto |-> 0, changes |-> {}]

(* resolve_snapshot: an id is looked up, anything else in a configuration. *)
Restoring(ref, agreed, shown) ==
  [pc |-> IF ref.by = "id" THEN "get" ELSE "locate", ref |-> ref, agreed |-> agreed,
   shown |-> shown, config |-> NoConfig, node |-> 0, compared |-> {}]

Init ==
  /\ live \in Readings
  /\ nodes = <<>>
  /\ leads \in [Paths -> Configs]
  /\ call = [c \in Calls |-> Idle]
  /\ edits = 0
  /\ quiet = {}
  /\ steady = {}
  /\ touched = [c \in Calls |-> {}]

Becomes(c, state) == call' = [call EXCEPT ![c] = state]

----
(* resolve_configuration and resolve_snapshot. *)

LeadsTo(place) == IF place \in Configs THEN {place} ELSE {leads[place]} \ {NoConfig}

Kept == {i \in 1..Len(nodes) : ~ nodes[i].deleted}

(* Taking the first of an unsorted list. *)
AnyOf(ids) == ids

(* list_snapshots sorts by the time of creation, newest first, which is    *)
(* the local one, taken for UTC: it goes back when the clock is put back.  *)
Precedes(i, j) == WallClock[i] > WallClock[j] \/ (WallClock[i] = WallClock[j] /\ i < j)

FirstOf(ids) == {i \in ids : \A j \in ids \ {i} : Precedes(i, j)}

(* The snapshot a name or "latest" stands for now; none is an error. *)
Chosen(ref, config) ==
  LET all == {i \in Kept : nodes[i].config = config} IN
    IF ref.by = "latest" THEN FirstOf(all)
    ELSE LET named == {i \in all : nodes[i].name = ref.name}
             alike == {i \in all : Lower[nodes[i].name] = Lower[ref.name]}
         IN  IF named # {} THEN FirstOf(named) ELSE FirstOf(alike)

AskToRestore(c, ref) ==
  /\ call[c] = Idle
  /\ Becomes(c, Restoring(ref, FALSE, NotShown))
  /\ quiet' = quiet \cup {c}
  /\ steady' = steady \cup {c}
  /\ UNCHANGED <<live, nodes, leads, edits, touched>>

Locate(c) ==
  /\ call[c].pc = "locate"
  /\ \E config \in LeadsTo(call[c].ref.place) :
       Becomes(c, [call[c] EXCEPT !.pc = "list", !.config = config])
  /\ UNCHANGED <<live, nodes, leads, edits, quiet, steady, touched>>

Candidates(c) ==
  IF call[c].pc = "get" THEN {call[c].ref.id} \cap Kept ELSE Chosen(call[c].ref, call[c].config)

(* The node is found, in the preview or for the confirmed call. *)
Resolve(c) ==
  /\ call[c].pc \in {"get", "list"}
  /\ \E node \in Candidates(c) :
       Becomes(c, [call[c] EXCEPT !.pc = "compare", !.node = node,
                     !.shown = IF call[c].agreed THEN @
                               ELSE [node |-> node, upto |-> Len(nodes), changes |-> {}]])
  /\ UNCHANGED <<live, nodes, leads, edits, quiet, steady, touched>>

----
(* restore_preview and restore. *)

(* Reporting for the restore what the preview found. *)
DiffersAsShown(c) ==
  IF call[c].agreed THEN call[c].shown.changes
  ELSE {pv \in Compares : nodes[call[c].node].saved[pv] # live[pv]}

Differs(c) == {pv \in Compares : nodes[call[c].node].saved[pv] # live[pv]}

(* The end of a preview is shown to the user; in the restore itself the    *)
(* write comes next.                                                       *)
Compare(c) ==
  /\ call[c].pc = "compare" /\ call[c].node \in Kept
  /\ Becomes(c, IF call[c].agreed THEN [call[c] EXCEPT !.pc = "write", !.compared = Differs(c)]
                ELSE [call[c] EXCEPT !.pc = "shown", !.shown.changes = Differs(c)])
  /\ touched' = [touched EXCEPT ![c] = {}]
  /\ UNCHANGED <<live, nodes, leads, edits, quiet, steady>>

(* The confirmed call carries the same arguments, not what was shown. *)
Agree(c) ==
  /\ call[c].pc = "shown"
  /\ Becomes(c, Restoring(call[c].ref, TRUE, call[c].shown))
  /\ UNCHANGED <<live, nodes, leads, edits, quiet, steady, touched>>

Decline(c) ==
  /\ call[c].pc = "shown"
  /\ Becomes(c, Idle)
  /\ UNCHANGED <<live, nodes, leads, edits, quiet, steady, touched>>

(* The PVs of a snapshot that cannot be written back now. *)
Failing(node) ==
  {pv \in PVs \ ReadOnly : nodes[node].saved[pv] = NoValue \/ live[pv] = NoValue}

WrittenBack(node) ==
  [pv \in PVs |-> IF pv \in Failing(node) \cup ReadOnly THEN live[pv] ELSE nodes[node].saved[pv]]

(* The service writes; other restores see PVs change under them. *)
Overwrites(c) ==
  /\ call[c].pc = "write" /\ call[c].node \in Kept
  /\ live' = WrittenBack(call[c].node)
  /\ touched' = [d \in Calls |->
                   IF d = c THEN touched[d] ELSE touched[d] \cup {pv \in PVs : live'[pv] # live[pv]}]
  /\ quiet' = quiet \cap {c}
  /\ UNCHANGED <<nodes, leads, edits, steady>>

(* pvs_written is the number of PVs compared, read-only ones included, but *)
(* for those that failed.                                                  *)
Write(c) ==
  LET failed == Failing(call[c].node) IN
  /\ Overwrites(c)
  /\ Becomes(c, [pc |-> "restored", ref |-> call[c].ref, shown |-> call[c].shown, node |-> call[c].node,
                 changed |-> call[c].compared, failed |-> failed,
                 written |-> Cardinality(Compares) - Cardinality(failed)])

(* The service wrote, and its answer did not arrive in time. *)
WriteTimesOut(c) == Overwrites(c) /\ Becomes(c, Ended("error"))

----
(* take_snapshot: the service reads the PVs, ARGUS sends them back.  *)

AskForSnapshot(c, take) ==
  /\ call[c] = Idle
  /\ Becomes(c, [pc |-> "find", place |-> take.place, name |-> take.name])
  /\ UNCHANGED <<live, nodes, leads, edits, quiet, steady, touched>>

Find(c) ==
  /\ call[c].pc = "find"
  /\ \E config \in LeadsTo(call[c].place) :
       Becomes(c, [pc |-> "read", config |-> config, name |-> call[c].name])
  /\ UNCHANGED <<live, nodes, leads, edits, quiet, steady, touched>>

Read(c) ==
  /\ call[c].pc = "read"
  /\ Becomes(c, [pc |-> "save", config |-> call[c].config, name |-> call[c].name, items |-> live])
  /\ UNCHANGED <<live, nodes, leads, edits, quiet, steady, touched>>

(* Storing what the PVs hold by now. *)
SavedNodeAnew(c) ==
  [config |-> call[c].config, name |-> call[c].name, saved |-> live, deleted |-> FALSE]

SavedNode(c) ==
  [config |-> call[c].config, name |-> call[c].name, saved |-> call[c].items, deleted |-> FALSE]

(* The answer may be lost after the snapshot was saved. *)
Save(c) ==
  /\ call[c].pc = "save" /\ Len(nodes) < MaxNodes
  /\ nodes' = Append(nodes, SavedNode(c))
  /\ \/ Becomes(c, [pc |-> "taken", node |-> Len(nodes) + 1, config |-> call[c].config,
                    items |-> call[c].items, missing |-> {pv \in PVs : call[c].items[pv] = NoValue}])
     \/ Becomes(c, Ended("error"))
  /\ quiet' = quiet \cap {c}
  /\ UNCHANGED <<live, leads, edits, steady, touched>>

(* A request is refused, fails, or finds nothing. *)
Fails(c) ==
  /\ call[c].pc \in {"get", "locate", "list", "compare", "write", "find", "read", "save"}
  /\ Becomes(c, Ended("error"))
  /\ UNCHANGED <<live, nodes, leads, edits, quiet, steady, touched>>

Deliver(c) ==
  /\ call[c].pc \in {"restored", "taken", "ended"}
  /\ Becomes(c, Idle)
  /\ UNCHANGED <<live, nodes, leads, edits, quiet, steady, touched>>

----
(* The others. *)

Edit ==
  /\ edits < MaxEdits
  /\ edits' = edits + 1
  /\ quiet' = {}
  /\ UNCHANGED call

Move(pv, value) ==
  /\ Edit
  /\ live' = [live EXCEPT ![pv] = value]
  /\ touched' = [c \in Calls |-> touched[c] \cup {pv}]
  /\ UNCHANGED <<nodes, leads, steady>>

Delete(i) ==
  /\ Edit /\ i \in Kept
  /\ nodes' = [nodes EXCEPT ![i].deleted = TRUE]
  /\ steady' = {}
  /\ UNCHANGED <<live, leads, touched>>

Rename(i, name) ==
  /\ Edit /\ i \in Kept
  /\ nodes' = [nodes EXCEPT ![i].name = name]
  /\ steady' = {}
  /\ UNCHANGED <<live, leads, touched>>

(* A configuration or a folder above it is renamed, moved or deleted. *)
Repoint(path, config) ==
  /\ Edit
  /\ leads' = [leads EXCEPT ![path] = config]
  /\ steady' = {}
  /\ UNCHANGED <<live, nodes, touched>>

Next ==
  \/ \E c \in Calls :
       \/ \E ref \in Restores : AskToRestore(c, ref)
       \/ \E take \in Takes : AskForSnapshot(c, take)
       \/ Locate(c) \/ Resolve(c) \/ Compare(c) \/ Agree(c) \/ Decline(c) \/ Write(c) \/ WriteTimesOut(c)
       \/ Find(c) \/ Read(c) \/ Save(c) \/ Fails(c) \/ Deliver(c)
  \/ \E pv \in PVs, value \in Values \cup {NoValue} : Move(pv, value)
  \/ \E i \in 1..Len(nodes) : Delete(i) \/ \E name \in Names : Rename(i, name)
  \/ \E path \in Paths, config \in Configs \cup {NoConfig} : Repoint(path, config)

Spec == Init /\ [][Next]_vars

----
CallStates ==
  {Idle, Ended("error")}
  \cup [pc: {"get", "locate", "list", "compare", "shown", "write"}, ref: References, agreed: BOOLEAN,
        shown: Shown, config: Configs \cup {NoConfig}, node: 0..MaxNodes, compared: SUBSET PVs]
  \cup [pc: {"restored"}, ref: References, shown: Shown, node: 1..MaxNodes,
        changed: SUBSET PVs, failed: SUBSET PVs, written: Nat]
  \cup [pc: {"find"}, place: Places, name: Names]
  \cup [pc: {"read"}, config: Configs, name: Names]
  \cup [pc: {"save"}, config: Configs, name: Names, items: Readings]
  \cup [pc: {"taken"}, node: 1..MaxNodes, config: Configs, items: Readings, missing: SUBSET PVs]

(* The types of the variables. *)
TypeOK ==
  /\ live \in Readings
  /\ nodes \in Seq(Node) /\ Len(nodes) <= MaxNodes
  /\ leads \in [Paths -> Configs \cup {NoConfig}]
  /\ call \in [Calls -> CallStates]
  /\ edits \in 0..MaxEdits
  /\ quiet \subseteq Calls /\ steady \subseteq Calls
  /\ touched \in [Calls -> SUBSET PVs]

Committed(c) == call[c].pc \in {"write", "restored"}

(* What is restored is the snapshot that was shown, always if it was named *)
(* by its id; by a name or as "latest" it may be one saved since, but no   *)
(* other unless somebody renamed, deleted or moved something since the     *)
(* restore was asked for ("Use it ONLY when the user explicitly asks to    *)
(* restore a specific snapshot (or 'the latest' of a named                 *)
(* configuration)").                                                       *)
RestoresShownOrNew ==
  \A c \in Calls :
    Committed(c) =>
      LET shown == call[c].shown IN
        IF call[c].ref.by = "id" THEN call[c].node = shown.node /\ shown.node = call[c].ref.id
        ELSE c \in steady => call[c].node = shown.node \/ call[c].node > shown.upto

(* The PVs that a restore reports as changed are those that its write      *)
(* changes, but for the ones that failed or are read-only, and for those   *)
(* that somebody changed between the comparison and the write              *)
(* ("changed_before_restore").                                             *)
RestoreReportsChanges ==
  [][\A c \in Calls :
       (call[c].pc = "write" /\ call'[c].pc = "restored") =>
         \A pv \in PVs \ touched[c] :
           live'[pv] # live[pv] <=> pv \in call'[c].changed \ (call'[c].failed \cup ReadOnly)]_vars

(* If nobody else touched the machine or the snapshots, the restore does   *)
(* what was shown: the same snapshot, changing the same PVs ("Its preview  *)
(* is the service's own comparison: which PVs would change").              *)
QuietRestoreIsShown ==
  \A c \in quiet :
    Committed(c) =>
      /\ call[c].node = call[c].shown.node
      /\ call[c].pc = "write" => call[c].compared = call[c].shown.changes
      /\ call[c].pc = "restored" => call[c].changed = call[c].shown.changes

(* A snapshot that is reported as taken is the one stored, of the          *)
(* configuration that was found, with the values that were read and the    *)
(* PVs that were not connected, though others save theirs between the      *)
(* reading and the saving.                                                 *)
TakenIsStored ==
  \A c \in Calls :
    call[c].pc = "taken" =>
      LET node == nodes[call[c].node] IN
        /\ node.config = call[c].config /\ node.saved = call[c].items
        /\ call[c].missing = {pv \in PVs : node.saved[pv] = NoValue}
====
