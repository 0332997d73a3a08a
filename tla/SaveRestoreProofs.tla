---- MODULE SaveRestoreProofs ----
(***************************************************************************)
(* What SaveRestore guarantees for any number of calls, PVs, names and     *)
(* snapshots.  Snapshots are added at the end and keep what they hold, so  *)
(* while nobody renames, deletes or moves anything, a reference that comes *)
(* to stand for another snapshot stands for a newer one.                   *)
(***************************************************************************)
EXTENDS SaveRestore, FiniteSetTheorems, TLAPS

RestoringPcs == {"get", "locate", "list", "compare", "shown", "write"}

RestoringCalls ==
  [pc: RestoringPcs, ref: References, agreed: BOOLEAN, shown: Shown,
   config: Configs \cup {NoConfig}, node: 0..MaxNodes, compared: SUBSET PVs]

(* A snapshot was found in the preview. *)
WasShown(c) ==
  \/ call[c].pc \in {"compare", "shown", "write", "restored"}
  \/ call[c].pc \in {"get", "locate", "list"} /\ call[c].agreed

HasNode(c) == call[c].pc \in {"compare", "write", "restored"}

(* Ids are looked up, other references in a configuration. *)
AsksBy(c) ==
  /\ call[c].pc = "get" => call[c].ref.by = "id"
  /\ call[c].pc \in {"locate", "list"} => call[c].ref.by # "id"

(* What an id leads to. *)
IdStands(c) ==
  /\ WasShown(c) /\ call[c].ref.by = "id" => call[c].shown.node = call[c].ref.id
  /\ HasNode(c) /\ call[c].ref.by = "id" => call[c].node = call[c].ref.id

(* What was shown is all that was there then and would be found now. *)
ShownStands(c) ==
  c \in steady =>
    /\ call[c].pc = "list" => call[c].config \in LeadsTo(call[c].ref.place)
    /\ WasShown(c) => call[c].shown.upto <= Len(nodes)
    /\ WasShown(c) /\ call[c].pc # "restored" /\ call[c].ref.by # "id" =>
         \A config \in LeadsTo(call[c].ref.place) : \A i \in Chosen(call[c].ref, config) :
           i = call[c].shown.node \/ i > call[c].shown.upto
    /\ HasNode(c) /\ call[c].ref.by # "id" =>
         call[c].node = call[c].shown.node \/ call[c].node > call[c].shown.upto

NodeStands(c) == HasNode(c) => call[c].node \in 1..Len(nodes)

(* A comparison is right for the PVs that nobody touched since. *)
ComparedStands(c) ==
  call[c].pc = "write" =>
    \A pv \in PVs \ touched[c] :
      pv \in call[c].compared <=> pv \in Compares /\ nodes[call[c].node].saved[pv] # live[pv]

TakenStands(c) ==
  call[c].pc = "taken" =>
    /\ call[c].node \in 1..Len(nodes)
    /\ nodes[call[c].node].config = call[c].config
    /\ nodes[call[c].node].saved = call[c].items
    /\ call[c].missing = {pv \in PVs : call[c].items[pv] = NoValue}

(* What a call whose world is quiet was shown is what it would be shown.  *)
QuietStands(c) ==
  c \in quiet =>
    /\ WasShown(c) => call[c].shown.upto = Len(nodes)
    /\ call[c].pc = "shown" \/ (call[c].pc \in {"get", "locate", "list", "compare"} /\ call[c].agreed) =>
         /\ call[c].shown.node \in 1..Len(nodes)
         /\ call[c].shown.changes = {pv \in Compares : nodes[call[c].shown.node].saved[pv] # live[pv]}
    /\ call[c].pc = "write" => call[c].compared = call[c].shown.changes
    /\ call[c].pc = "restored" => call[c].changed = call[c].shown.changes

Stands(c) ==
  /\ AsksBy(c) /\ IdStands(c) /\ ShownStands(c) /\ NodeStands(c)
  /\ ComparedStands(c) /\ TakenStands(c) /\ QuietStands(c)

IInv == TypeOK /\ quiet \subseteq steady /\ \A c \in Calls : Stands(c)

----
(* What a call is at each place. *)

(* What is known of a call that restores. *)
LEMMA RestoringType ==
  ASSUME TypeOK, NEW c \in Calls, call[c].pc \in RestoringPcs
  PROVE  call[c] \in RestoringCalls
  BY DEF TypeOK, CallStates, Idle, Ended, RestoringPcs, RestoringCalls

(* What is known of a call that saves a snapshot. *)
LEMMA SavingType ==
  ASSUME TypeOK, NEW c \in Calls, call[c].pc = "save"
  PROVE  call[c].config \in Configs /\ call[c].name \in Names /\ call[c].items \in Readings
  BY DEF TypeOK, CallStates, Idle, Ended

(* A call may restore. *)
LEMMA RestoringIsState == RestoringCalls \subseteq CallStates
  BY DEF RestoringCalls, RestoringPcs, CallStates

(* A call may be over. *)
LEMMA EndedIsState == Idle \in CallStates /\ Ended("error") \in CallStates
  BY DEF CallStates

(* The next state of one call. *)
LEMMA BecomesType ==
  ASSUME TypeOK, NEW c \in Calls, NEW state \in CallStates, Becomes(c, state)
  PROVE  call' \in [Calls -> CallStates]
  BY DEF TypeOK, Becomes

(* The other calls stay where they are. *)
LEMMA BecomesOnly ==
  ASSUME TypeOK, NEW c \in Calls, NEW state, Becomes(c, state)
  PROVE  /\ call'[c] = state
         /\ \A d \in Calls \ {c} : call'[d] = call[d]
  BY DEF TypeOK, Becomes

(* What is known of a restore that begins, or begins again. *)
LEMMA RestoringBegins ==
  ASSUME NEW ref \in References, NEW agreed \in BOOLEAN, NEW shown \in Shown
  PROVE  Restoring(ref, agreed, shown) \in RestoringCalls
<1>1. 0 \in 0..MaxNodes
  BY SnapshotAssumption
<1>. QED
  BY <1>1 DEF Restoring, RestoringCalls, RestoringPcs

(* A comparison may have been shown to nobody. *)
LEMMA NotShownIsShown == NotShown \in Shown
  BY SnapshotAssumption DEF NotShown, Shown

(* The snapshots that are kept are nodes of the tree. *)
LEMMA KeptAreNodes == ASSUME TypeOK, NEW i \in Kept PROVE i \in 1..MaxNodes /\ i \in 1..Len(nodes)
  BY SnapshotAssumption DEF TypeOK, Kept

(* A reference stands for a snapshot that is kept. *)
LEMMA ChosenAreKept == ASSUME NEW ref, NEW config, NEW i \in Chosen(ref, config) PROVE i \in Kept
  BY DEF Chosen, FirstOf

(* A call finds a snapshot that is kept. *)
LEMMA CandidatesAreKept == ASSUME NEW c, NEW i \in Candidates(c) PROVE i \in Kept
  BY ChosenAreKept DEF Candidates

(* What is known of a snapshot. *)
LEMMA NodeType ==
  ASSUME TypeOK, NEW i \in 1..Len(nodes)
  PROVE  nodes[i] \in Node /\ nodes[i].saved \in Readings
<1>1. PICK node \in Node : node = nodes[i]
  BY DEF TypeOK
<1>2. node.saved \in Readings
  BY DEF Node
<1>. QED
  BY <1>1, <1>2

(* A restore leaves readings; what fails of it is in the comparison. *)
LEMMA WrittenBackType ==
  ASSUME TypeOK, NEW node \in Kept
  PROVE  /\ Failing(node) \in SUBSET PVs
         /\ WrittenBack(node) \in Readings
         /\ Cardinality(Compares) - Cardinality(Failing(node)) \in Nat
<1>1. nodes[node].saved \in Readings
  BY KeptAreNodes, NodeType
<1>2. live \in Readings
  BY DEF TypeOK
<1>3. \A pv \in PVs : nodes[node].saved[pv] \in Values \cup {NoValue} /\ live[pv] \in Values \cup {NoValue}
  BY <1>1, <1>2 DEF Readings
<1>4. PICK failed : failed = Failing(node)
  OBVIOUS
<1>5. failed \subseteq Compares
  BY <1>4, SnapshotAssumption DEF Failing
<1>6. IsFiniteSet(Compares)
  BY SnapshotAssumption, FS_Subset
<1>7. /\ Cardinality(Compares) \in Nat /\ Cardinality(failed) \in Nat
      /\ Cardinality(failed) <= Cardinality(Compares)
  BY <1>5, <1>6, FS_Subset, FS_CardinalityType
<1>8. Cardinality(Compares) - Cardinality(failed) \in Nat
  BY <1>7
<1>9. WrittenBack(node) \in Readings
  BY <1>3 DEF WrittenBack, Readings
<1>10. Failing(node) \in SUBSET PVs
  BY DEF Failing
<1>. QED
  BY <1>4, <1>8, <1>9, <1>10

(* A place leads to a configuration. *)
LEMMA LeadsType ==
  ASSUME TypeOK, NEW place \in Places, NEW config \in LeadsTo(place) PROVE config \in Configs
  BY DEF TypeOK, Places, LeadsTo

LEMMA InitTypeOK == Init => TypeOK
  BY SnapshotAssumption, EndedIsState DEF Init, TypeOK

LEMMA TypeStep == ASSUME TypeOK, \A c \in Calls : AsksBy(c), [Next]_vars PROVE TypeOK'
<1>1. ASSUME NEW c \in Calls, NEW ref \in Restores, AskToRestore(c, ref) PROVE TypeOK'
  <2>1. Restoring(ref, FALSE, NotShown) \in CallStates
    BY NotShownIsShown, RestoringBegins, RestoringIsState, ArgumentAssumption
  <2>2. call' \in [Calls -> CallStates]
    BY <1>1, <2>1, BecomesType DEF AskToRestore
  <2>. QED BY <1>1, <2>2 DEF AskToRestore, TypeOK
<1>2. ASSUME NEW c \in Calls, NEW take \in Takes, AskForSnapshot(c, take) PROVE TypeOK'
  <2>1. take.place \in Places /\ take.name \in Names
    BY ArgumentAssumption
  <2>2. [pc |-> "find", place |-> take.place, name |-> take.name] \in CallStates
    BY <2>1 DEF CallStates
  <2>3. call' \in [Calls -> CallStates]
    BY <1>2, <2>2, BecomesType DEF AskForSnapshot
  <2>. QED BY <1>2, <2>3 DEF AskForSnapshot, TypeOK
<1>3. ASSUME NEW c \in Calls, Locate(c) PROVE TypeOK'
  <2>1. PICK r \in RestoringCalls : r = call[c]
    BY <1>3, RestoringType DEF Locate, RestoringPcs
  <2>2. PICK config \in LeadsTo(r.ref.place) :
          Becomes(c, [r EXCEPT !.pc = "list", !.config = config])
    BY <1>3, <2>1 DEF Locate
  <2>3. r.ref.place \in Places
    BY <1>3, <2>1 DEF AsksBy, Locate, RestoringCalls, References
  <2>4. config \in Configs
    BY <2>2, <2>3, LeadsType
  <2>5. [r EXCEPT !.pc = "list", !.config = config] \in RestoringCalls
    BY <2>4 DEF RestoringCalls, RestoringPcs
  <2>6. call' \in [Calls -> CallStates]
    BY <2>2, <2>5, RestoringIsState, BecomesType
  <2>. QED BY <1>3, <2>6 DEF Locate, TypeOK
<1>4. ASSUME NEW c \in Calls, Resolve(c) PROVE TypeOK'
  <2>1. PICK r \in RestoringCalls : r = call[c]
    BY <1>4, RestoringType DEF Resolve, RestoringPcs
  <2>2. PICK node \in Candidates(c) :
          Becomes(c, [r EXCEPT !.pc = "compare", !.node = node,
                        !.shown = IF r.agreed THEN r.shown
                                  ELSE [node |-> node, upto |-> Len(nodes), changes |-> {}]])
    BY <1>4, <2>1 DEF Resolve
  <2>3. node \in 0..MaxNodes /\ Len(nodes) \in 0..MaxNodes
    BY KeptAreNodes, CandidatesAreKept, SnapshotAssumption DEF TypeOK
  <2>4. [node |-> node, upto |-> Len(nodes), changes |-> {}] \in Shown
    BY <2>3 DEF Shown
  <2>5. PICK shown \in Shown : shown = IF r.agreed THEN r.shown
                                       ELSE [node |-> node, upto |-> Len(nodes), changes |-> {}]
    BY <2>4 DEF RestoringCalls
  <2>6. [r EXCEPT !.pc = "compare", !.node = node, !.shown = shown] \in RestoringCalls
    BY <2>3 DEF RestoringCalls, RestoringPcs
  <2>7. call' \in [Calls -> CallStates]
    BY <2>2, <2>5, <2>6, RestoringIsState, BecomesType
  <2>. QED BY <1>4, <2>7 DEF Resolve, TypeOK
<1>5. ASSUME NEW c \in Calls, Compare(c) PROVE TypeOK'
  <2>1. PICK r \in RestoringCalls : r = call[c]
    BY <1>5, RestoringType DEF Compare, RestoringPcs
  <2>2. PICK differs \in SUBSET PVs : differs = Differs(c)
    BY SnapshotAssumption DEF Differs
  <2>3. [r EXCEPT !.pc = "write", !.compared = differs] \in RestoringCalls
    BY DEF RestoringCalls, RestoringPcs
  <2>4. [r.shown EXCEPT !.changes = differs] \in Shown
    BY DEF Shown, RestoringCalls
  <2>5. [r EXCEPT !.pc = "shown", !.shown.changes = differs] \in RestoringCalls
    BY <2>4 DEF RestoringCalls, RestoringPcs
  <2>6. call' \in [Calls -> CallStates]
    BY <1>5, <2>1, <2>2, <2>3, <2>5, RestoringIsState, BecomesType DEF Compare
  <2>7. touched' \in [Calls -> SUBSET PVs]
    BY <1>5 DEF Compare, TypeOK
  <2>. QED BY <1>5, <2>6, <2>7 DEF Compare, TypeOK
<1>6. ASSUME NEW c \in Calls, Agree(c) PROVE TypeOK'
  <2>1. call[c].ref \in References /\ call[c].shown \in Shown
    BY <1>6, RestoringType DEF Agree, RestoringPcs, RestoringCalls
  <2>2. Restoring(call[c].ref, TRUE, call[c].shown) \in CallStates
    BY <2>1, RestoringBegins, RestoringIsState
  <2>3. call' \in [Calls -> CallStates]
    BY <1>6, <2>2, BecomesType DEF Agree
  <2>. QED BY <1>6, <2>3 DEF Agree, TypeOK
<1>7. ASSUME NEW c \in Calls, Decline(c) \/ Fails(c) \/ Deliver(c) PROVE TypeOK'
  <2>1. call' \in [Calls -> CallStates]
    BY <1>7, EndedIsState, BecomesType DEF Decline, Fails, Deliver
  <2>. QED BY <1>7, <2>1 DEF Decline, Fails, Deliver, TypeOK
<1>8. ASSUME NEW c \in Calls, Write(c) \/ WriteTimesOut(c) PROVE TypeOK'
  <2>1. Overwrites(c)
    BY <1>8 DEF Write, WriteTimesOut
  <2>2. PICK r \in RestoringCalls : r = call[c]
    BY <2>1, RestoringType DEF Overwrites, RestoringPcs
  <2>3. r.node \in Kept
    BY <2>1, <2>2 DEF Overwrites
  <2>4. PICK failed \in SUBSET PVs : failed = Failing(r.node)
    BY <2>3, WrittenBackType
  <2>5. PICK written \in Nat : written = Cardinality(Compares) - Cardinality(failed)
    BY <2>3, <2>4, WrittenBackType
  <2>6. [pc |-> "restored", ref |-> r.ref, shown |-> r.shown, node |-> r.node,
         changed |-> r.compared, failed |-> failed, written |-> written] \in CallStates
    BY <2>3, KeptAreNodes DEF RestoringCalls, CallStates
  <2>7. call' \in [Calls -> CallStates]
    BY <1>8, <2>2, <2>4, <2>5, <2>6, EndedIsState, BecomesType DEF Write, WriteTimesOut
  <2>8. live' \in Readings
    BY <2>1, <2>2, <2>3, WrittenBackType DEF Overwrites
  <2>9. touched' \in [Calls -> SUBSET PVs]
    BY <2>1 DEF Overwrites, TypeOK
  <2>. QED BY <2>1, <2>7, <2>8, <2>9 DEF Overwrites, TypeOK
<1>9. ASSUME NEW c \in Calls, Find(c) PROVE TypeOK'
  <2>1. call[c].place \in Places /\ call[c].name \in Names
    BY <1>9 DEF Find, TypeOK, CallStates, Idle, Ended
  <2>2. PICK config \in LeadsTo(call[c].place) :
          Becomes(c, [pc |-> "read", config |-> config, name |-> call[c].name])
    BY <1>9 DEF Find
  <2>3. [pc |-> "read", config |-> config, name |-> call[c].name] \in CallStates
    BY <2>1, LeadsType DEF CallStates
  <2>4. call' \in [Calls -> CallStates]
    BY <2>2, <2>3, BecomesType
  <2>. QED BY <1>9, <2>4 DEF Find, TypeOK
<1>10. ASSUME NEW c \in Calls, Read(c) PROVE TypeOK'
  <2>1. call[c].config \in Configs /\ call[c].name \in Names
    BY <1>10 DEF Read, TypeOK, CallStates, Idle, Ended
  <2>2. [pc |-> "save", config |-> call[c].config, name |-> call[c].name, items |-> live] \in CallStates
    BY <2>1 DEF CallStates, TypeOK
  <2>3. call' \in [Calls -> CallStates]
    BY <1>10, <2>2, BecomesType DEF Read
  <2>. QED BY <1>10, <2>3 DEF Read, TypeOK
<1>11. ASSUME NEW c \in Calls, Save(c) PROVE TypeOK'
  <2>1. call[c].config \in Configs /\ call[c].name \in Names /\ call[c].items \in Readings
    BY <1>11, SavingType DEF Save
  <2>2. SavedNode(c) \in Node
    BY <2>1 DEF SavedNode, Node
  <2>3. nodes' \in Seq(Node) /\ Len(nodes') = Len(nodes) + 1
    BY <1>11, <2>2 DEF Save, TypeOK
  <2>4. Len(nodes) \in Nat /\ Len(nodes) < MaxNodes
    BY <1>11 DEF Save, TypeOK
  <2>5. Len(nodes) + 1 \in 1..MaxNodes
    BY <2>4, SnapshotAssumption
  <2>6. [pc |-> "taken", node |-> Len(nodes) + 1, config |-> call[c].config, items |-> call[c].items,
         missing |-> {pv \in PVs : call[c].items[pv] = NoValue}] \in CallStates
    BY <2>1, <2>5 DEF CallStates
  <2>7. call' \in [Calls -> CallStates]
    BY <1>11, <2>6, EndedIsState, BecomesType DEF Save
  <2>8. Len(nodes') <= MaxNodes
    BY <2>3, <2>5
  <2>. QED BY <1>11, <2>3, <2>7, <2>8 DEF Save, TypeOK
<1>12. ASSUME NEW pv \in PVs, NEW value \in Values \cup {NoValue}, Move(pv, value) PROVE TypeOK'
  <2>1. live' \in Readings /\ touched' \in [Calls -> SUBSET PVs]
    BY <1>12 DEF Move, TypeOK, Readings
  <2>. QED BY <1>12, <2>1, SnapshotAssumption DEF Move, Edit, TypeOK
<1>13. ASSUME NEW i \in 1..Len(nodes), Delete(i) \/ \E name \in Names : Rename(i, name) PROVE TypeOK'
  <2>1. PICK n \in Node : n = nodes[i]
    BY NodeType
  <2>2. /\ [n EXCEPT !.deleted = TRUE] \in Node
        /\ \A name \in Names : [n EXCEPT !.name = name] \in Node
    BY DEF Node
  <2>3. PICK m \in Node : nodes' = [nodes EXCEPT ![i] = m]
    BY <1>13, <2>1, <2>2 DEF Delete, Rename
  <2>4. nodes' \in Seq(Node) /\ Len(nodes') = Len(nodes)
    BY <2>3 DEF TypeOK
  <2>. QED BY <1>13, <2>4, SnapshotAssumption DEF Delete, Rename, Edit, TypeOK
<1>14. ASSUME NEW path \in Paths, NEW config \in Configs \cup {NoConfig}, Repoint(path, config)
       PROVE  TypeOK'
  <2>1. leads' \in [Paths -> Configs \cup {NoConfig}]
    BY <1>14 DEF Repoint, TypeOK
  <2>. QED BY <1>14, <2>1, SnapshotAssumption DEF Repoint, Edit, TypeOK
<1>15. CASE UNCHANGED vars
  BY <1>15 DEF vars, TypeOK
<1>. QED
  BY <1>1, <1>2, <1>3, <1>4, <1>5, <1>6, <1>7, <1>8, <1>9, <1>10, <1>11, <1>12, <1>13, <1>14, <1>15
     DEF Next

----
(* How the world moves under a call. *)

(* Snapshots are added at the end and keep what they hold. *)
Grows ==
  /\ Len(nodes) \in Nat /\ Len(nodes') \in Nat /\ Len(nodes) <= Len(nodes')
  /\ \A i \in 1..Len(nodes) :
       nodes'[i].config = nodes[i].config /\ nodes'[i].saved = nodes[i].saved

LEMMA GrowsStep == ASSUME TypeOK, [Next]_vars PROVE Grows
<1>1. nodes \in Seq(Node) /\ Len(nodes) \in Nat
  BY DEF TypeOK
<1>2. CASE nodes' = nodes
  BY <1>1, <1>2 DEF Grows
<1>3. ASSUME NEW c \in Calls, Save(c) PROVE Grows
  <2>1. nodes' = Append(nodes, SavedNode(c))
    BY <1>3 DEF Save
  <2>. QED BY <1>1, <2>1 DEF Grows
<1>4. ASSUME NEW i \in 1..Len(nodes), Delete(i) \/ \E name \in Names : Rename(i, name) PROVE Grows
  <2>1. PICK n \in Node : n = nodes[i]
    BY NodeType
  <2>2. PICK m : nodes' = [nodes EXCEPT ![i] = m] /\ m.config = n.config /\ m.saved = n.saved
    <3>1. /\ [n EXCEPT !.deleted = TRUE].config = n.config
          /\ [n EXCEPT !.deleted = TRUE].saved = n.saved
          /\ \A name \in Names : /\ [n EXCEPT !.name = name].config = n.config
                                 /\ [n EXCEPT !.name = name].saved = n.saved
      BY DEF Node
    <3>. QED BY <1>4, <2>1, <3>1 DEF Delete, Rename
  <2>3. Len(nodes') = Len(nodes)
    BY <1>1, <2>2
  <2>4. \A k \in 1..Len(nodes) : nodes'[k] = IF k = i THEN m ELSE nodes[k]
    BY <1>1, <2>2
  <2>. QED BY <1>1, <2>1, <2>2, <2>3, <2>4 DEF Grows
<1>. QED
  BY <1>2, <1>3, <1>4
     DEF Next, vars, AskToRestore, AskForSnapshot, Locate, Resolve, Compare, Agree, Decline, Write,
         WriteTimesOut, Overwrites, Find, Read, Fails, Deliver, Move, Repoint

Asks(c) == \E ref \in Restores : AskToRestore(c, ref)

Steps(c) ==
  \/ Asks(c) \/ \E take \in Takes : AskForSnapshot(c, take)
  \/ Locate(c) \/ Resolve(c) \/ Compare(c) \/ Agree(c) \/ Decline(c) \/ Write(c) \/ WriteTimesOut(c)
  \/ Find(c) \/ Read(c) \/ Save(c) \/ Fails(c) \/ Deliver(c)

(* A call moves by steps of its own. *)
LEMMA StepsOf ==
  ASSUME TypeOK, [Next]_vars, NEW d \in Calls
  PROVE  call'[d] = call[d] \/ Steps(d)
<1>1. ASSUME NEW c \in Calls, Steps(c), c # d PROVE call'[d] = call[d]
  <2>1. PICK state : Becomes(c, state)
    BY <1>1 DEF Steps, Asks, AskToRestore, AskForSnapshot, Locate, Resolve, Compare, Agree, Decline,
                Write, WriteTimesOut, Find, Read, Save, Fails, Deliver
  <2>. QED BY <1>1, <2>1, BecomesOnly
<1>. QED
  BY <1>1 DEF Next, Steps, Asks, vars, Move, Delete, Rename, Repoint, Edit

(* What a steady call sees. *)
LEMMA SteadyStep ==
  ASSUME TypeOK, [Next]_vars, NEW d \in Calls, d \in steady'
  PROVE  /\ d \in steady \/ Asks(d)
         /\ leads' = leads
         /\ nodes' = nodes \/ \E node \in Node : nodes' = Append(nodes, node)
<1>1. ASSUME NEW c \in Calls, Save(c)
      PROVE  steady' = steady /\ leads' = leads /\ \E node \in Node : nodes' = Append(nodes, node)
  <2>1. call[c].config \in Configs /\ call[c].name \in Names /\ call[c].items \in Readings
    BY <1>1, SavingType DEF Save
  <2>2. SavedNode(c) \in Node
    BY <2>1 DEF SavedNode, Node
  <2>. QED BY <1>1, <2>2 DEF Save
<1>2. ASSUME NEW c \in Calls, Asks(c), c # d
      PROVE  (d \in steady' => d \in steady) /\ leads' = leads /\ nodes' = nodes
  BY <1>2 DEF Asks, AskToRestore
<1>3. Asks(d) => leads' = leads /\ nodes' = nodes
  BY DEF Asks, AskToRestore
<1>4. ASSUME NEW c \in Calls, Steps(c), ~ Asks(c), ~ Save(c)
      PROVE  steady' = steady /\ leads' = leads /\ nodes' = nodes
  BY <1>4 DEF Steps, AskForSnapshot, Locate, Resolve, Compare, Agree, Decline,
              Write, WriteTimesOut, Overwrites, Find, Read, Fails, Deliver
<1>. QED
  BY <1>1, <1>2, <1>3, <1>4 DEF Next, Steps, Asks, vars, Move, Delete, Rename, Repoint

(* What a quiet call sees. *)
LEMMA QuietStep ==
  ASSUME TypeOK, [Next]_vars, NEW d \in Calls, d \in quiet'
  PROVE  /\ d \in quiet \/ Asks(d)
         /\ d \in steady => d \in steady'
         /\ Steps(d) \/ (nodes' = nodes /\ live' = live)
<1>1. ASSUME NEW c \in Calls, Asks(c)
      PROVE  /\ d \in quiet \/ Asks(d)
             /\ d \in steady => d \in steady'
             /\ nodes' = nodes /\ live' = live
  BY <1>1 DEF Asks, AskToRestore
<1>2. ASSUME NEW c \in Calls, Save(c) \/ Write(c) \/ WriteTimesOut(c)
      PROVE  d \in quiet /\ c = d /\ steady' = steady
  BY <1>2 DEF Save, Write, WriteTimesOut, Overwrites
<1>3. ASSUME NEW c \in Calls, Steps(c), ~ Asks(c), ~ (Save(c) \/ Write(c) \/ WriteTimesOut(c))
      PROVE  steady' = steady /\ quiet' = quiet /\ nodes' = nodes /\ live' = live
  BY <1>3 DEF Steps, AskForSnapshot, Locate, Resolve, Compare, Agree, Decline, Find, Read, Fails, Deliver
<1>4. ~ Edit
  BY DEF Edit
<1>. QED
  BY <1>1, <1>2, <1>3, <1>4 DEF Next, Steps, Asks, vars, Move, Delete, Rename, Repoint

(* What changed under a call that stays where it is is touched. *)
LEMMA TouchedStep ==
  ASSUME TypeOK, [Next]_vars, NEW d \in Calls, call[d].pc = "write", call'[d] = call[d],
         NEW pv \in PVs, pv \notin touched'[d]
  PROVE  pv \notin touched[d] /\ live'[pv] = live[pv]
<1>1. ASSUME NEW c \in Calls, Write(c) \/ WriteTimesOut(c) PROVE pv \notin touched[d] /\ live'[pv] = live[pv]
  <2>1. Overwrites(c)
    BY <1>1 DEF Write, WriteTimesOut
  <2>2. c # d
    <3>1. PICK state : Becomes(c, state) /\ state.pc # "write"
      BY <1>1 DEF Write, WriteTimesOut, Ended
    <3>2. call'[c].pc # "write"
      BY <3>1, BecomesOnly
    <3>. QED BY <3>2
  <2>. QED BY <2>1, <2>2 DEF Overwrites
<1>2. ASSUME NEW c \in Calls, Compare(c) PROVE pv \notin touched[d] /\ live'[pv] = live[pv]
  <2>1. c # d
    BY <1>2 DEF Compare
  <2>. QED BY <1>2, <2>1 DEF Compare, TypeOK
<1>3. ASSUME NEW p \in PVs, NEW value \in Values \cup {NoValue}, Move(p, value)
      PROVE  pv \notin touched[d] /\ live'[pv] = live[pv]
  BY <1>3 DEF Move, TypeOK, Readings
<1>4. CASE UNCHANGED <<live, touched>>
  BY <1>4
<1>. QED
  BY <1>1, <1>2, <1>3, <1>4
     DEF Next, vars, AskToRestore, AskForSnapshot, Locate, Resolve, Agree, Decline,
         Find, Read, Save, Fails, Deliver, Delete, Rename, Repoint

----
(* Two snapshots cannot both come first. *)
LEMMA FirstIsOne ==
  ASSUME NEW ids \in SUBSET (1..MaxNodes), NEW i \in FirstOf(ids), NEW j \in FirstOf(ids)
  PROVE  i = j
<1>1. SUFFICES ASSUME i # j PROVE FALSE
  OBVIOUS
<1>2. i \in 1..MaxNodes /\ j \in 1..MaxNodes /\ Precedes(i, j) /\ Precedes(j, i)
  BY <1>1 DEF FirstOf
<1>3. i \in Nat /\ j \in Nat /\ WallClock[i] \in Nat /\ WallClock[j] \in Nat
  BY <1>2, SnapshotAssumption
<1>. QED
  BY <1>2, <1>3 DEF Precedes

(* A reference stands for one snapshot. *)
LEMMA ChosenIsOne ==
  ASSUME TypeOK, NEW ref, NEW config, NEW i \in Chosen(ref, config), NEW j \in Chosen(ref, config)
  PROVE  i = j
<1>. DEFINE all == {k \in Kept : nodes[k].config = config}
            named == {k \in all : nodes[k].name = ref.name}
            alike == {k \in all : Lower[nodes[k].name] = Lower[ref.name]}
<1>1. all \in SUBSET (1..MaxNodes) /\ named \in SUBSET (1..MaxNodes) /\ alike \in SUBSET (1..MaxNodes)
  BY KeptAreNodes
<1>2. Chosen(ref, config) = IF ref.by = "latest" THEN FirstOf(all)
                            ELSE IF named # {} THEN FirstOf(named) ELSE FirstOf(alike)
  BY DEF Chosen
<1>. HIDE DEF all, named, alike
<1>. QED
  BY <1>1, <1>2, FirstIsOne

(* What comes first of more comes first of less. *)
LEMMA FirstOfLess ==
  ASSUME NEW less, NEW more, less \subseteq more, NEW i \in less, i \in FirstOf(more)
  PROVE  i \in FirstOf(less)
  BY DEF FirstOf

(* A snapshot saved since apart, a reference stands for what it stood for. *)
LEMMA ChosenLater ==
  ASSUME TypeOK, NEW node \in Node, nodes' = Append(nodes, node), NEW ref, NEW config,
         NEW i \in Chosen(ref, config)', i <= Len(nodes)
  PROVE  i \in Chosen(ref, config)
<1>. DEFINE all == {k \in Kept : nodes[k].config = config}
            named == {k \in all : nodes[k].name = ref.name}
            alike == {k \in all : Lower[nodes[k].name] = Lower[ref.name]}
<1>1. /\ Len(nodes) \in Nat /\ Len(nodes') = Len(nodes) + 1
      /\ \A k \in 1..Len(nodes) : nodes'[k] = nodes[k]
  BY DEF TypeOK
<1>2. /\ \A k \in Kept : k \in Kept' /\ nodes'[k] = nodes[k]
      /\ \A k \in Kept' : k \in 1..Len(nodes) => k \in Kept
  BY <1>1 DEF Kept
<1>3. all \subseteq all' /\ named \subseteq named' /\ alike \subseteq alike'
  BY <1>2
<1>4. i \in Kept'
  BY DEF Chosen, FirstOf
<1>5. i \in 1..Len(nodes)
  BY <1>1, <1>4 DEF Kept
<1>6. (i \in all' => i \in all) /\ (i \in named' => i \in named) /\ (i \in alike' => i \in alike)
  BY <1>1, <1>2, <1>5
<1>7. Chosen(ref, config) = IF ref.by = "latest" THEN FirstOf(all)
                            ELSE IF named # {} THEN FirstOf(named) ELSE FirstOf(alike)
  BY DEF Chosen
<1>8. Chosen(ref, config)' = IF ref.by = "latest" THEN FirstOf(all')
                             ELSE IF named' # {} THEN FirstOf(named') ELSE FirstOf(alike')
  BY DEF Chosen, FirstOf, Precedes
<1>9. /\ i \in FirstOf(all') => i \in all'
      /\ i \in FirstOf(named') => i \in named'
      /\ i \in FirstOf(alike') => i \in alike'
  BY DEF FirstOf
<1>. HIDE DEF all, named, alike
<1>. QED
  BY <1>3, <1>6, <1>7, <1>8, <1>9, FirstOfLess

----
(* Each step leaves a call where it stands. *)

(* Nothing is claimed of a call that is not restoring and took nothing. *)
LEMMA StandsElsewhere ==
  ASSUME NEW c \in Calls, call'[c].pc \in {"idle", "ended", "find", "read", "save"}
  PROVE  Stands(c)'
  BY DEF Stands, AsksBy, WasShown, HasNode, IdStands, ShownStands, NodeStands, ComparedStands,
         TakenStands, QuietStands

LEMMA StandsElsewhereStep ==
  ASSUME TypeOK, NEW c \in Calls,
         \/ \E take \in Takes : AskForSnapshot(c, take)
         \/ Find(c) \/ Read(c) \/ Decline(c) \/ WriteTimesOut(c) \/ Fails(c) \/ Deliver(c)
  PROVE  Stands(c)'
<1>. DEFINE pcs == {"idle", "ended", "find", "read", "save"}
<1>1. PICK state : Becomes(c, state) /\ state.pc \in pcs
  <2>1. ASSUME NEW take \in Takes, AskForSnapshot(c, take) PROVE \E s : Becomes(c, s) /\ s.pc \in pcs
    BY <2>1 DEF AskForSnapshot
  <2>2. Find(c) => \E s : Becomes(c, s) /\ s.pc \in pcs
    BY DEF Find
  <2>3. Read(c) => \E s : Becomes(c, s) /\ s.pc \in pcs
    BY DEF Read
  <2>4. /\ Decline(c) \/ Deliver(c) => Becomes(c, Idle)
        /\ WriteTimesOut(c) \/ Fails(c) => Becomes(c, Ended("error"))
        /\ Idle.pc \in pcs /\ Ended("error").pc \in pcs
    BY DEF Decline, WriteTimesOut, Fails, Deliver, Idle, Ended
  <2>. QED BY <2>1, <2>2, <2>3, <2>4
<1>2. call'[c].pc \in {"idle", "ended", "find", "read", "save"}
  BY <1>1, BecomesOnly
<1>. QED
  BY <1>2, StandsElsewhere

(* A restore begins. *)
LEMMA StandsAsks == ASSUME IInv, NEW c \in Calls, Asks(c) PROVE Stands(c)'
<1>1. PICK ref \in References : Becomes(c, Restoring(ref, FALSE, NotShown))
  BY ArgumentAssumption DEF Asks, AskToRestore
<1>2. call'[c] = Restoring(ref, FALSE, NotShown)
  BY <1>1, BecomesOnly DEF IInv
<1>3. /\ call'[c].pc \in {"get", "locate"} /\ (call'[c].pc = "get" <=> call'[c].ref.by = "id")
      /\ ~ call'[c].agreed
  BY <1>2 DEF Restoring
<1>. QED
  BY <1>3 DEF Stands, AsksBy, WasShown, HasNode, IdStands, ShownStands, NodeStands, ComparedStands,
              TakenStands, QuietStands

(* The configuration is found. *)
LEMMA StandsLocate == ASSUME IInv, NEW c \in Calls, Locate(c) PROVE Stands(c)'
<1>. USE DEF IInv, Stands
<1>1. PICK r \in RestoringCalls : r = call[c]
  BY RestoringType DEF Locate, RestoringPcs
<1>2. PICK config \in LeadsTo(r.ref.place) :
        Becomes(c, [r EXCEPT !.pc = "list", !.config = config])
  BY <1>1 DEF Locate
<1>3. call'[c] = [r EXCEPT !.pc = "list", !.config = config]
  BY <1>2, BecomesOnly
<1>4. PICK s : /\ s = call'[c] /\ r.pc = "locate" /\ s.pc = "list" /\ s.config = config
               /\ s.ref = r.ref /\ s.agreed = r.agreed /\ s.shown = r.shown
  BY <1>1, <1>3 DEF RestoringCalls, Locate
<1>5. UNCHANGED <<live, nodes, leads, quiet, steady, touched>>
  BY DEF Locate
<1>6. /\ LeadsTo(r.ref.place)' = LeadsTo(r.ref.place)
      /\ \A co : Chosen(r.ref, co)' = Chosen(r.ref, co)
  BY <1>5 DEF LeadsTo, Chosen, FirstOf, Precedes, Kept
<1>7. AsksBy(c)' /\ IdStands(c)'
  BY <1>1, <1>4 DEF AsksBy, IdStands, WasShown, HasNode
<1>8. ShownStands(c)'
  <2>1. s.config \in LeadsTo(s.ref.place)'
    BY <1>2, <1>4, <1>6
  <2>2. WasShown(c)' <=> WasShown(c)
    BY <1>1, <1>4 DEF WasShown
  <2>3. c \in steady /\ WasShown(c) =>
          /\ s.shown.upto <= Len(nodes')
          /\ s.ref.by # "id" => \A co \in LeadsTo(s.ref.place)' : \A i \in Chosen(s.ref, co)' :
               i = s.shown.node \/ i > s.shown.upto
    BY <1>1, <1>4, <1>5, <1>6 DEF ShownStands
  <2>. QED BY <1>4, <1>5, <2>1, <2>2, <2>3 DEF ShownStands, HasNode
<1>9. NodeStands(c)' /\ ComparedStands(c)' /\ TakenStands(c)'
  BY <1>4 DEF NodeStands, ComparedStands, TakenStands, HasNode
<1>10. QuietStands(c)'
  BY <1>1, <1>4, <1>5 DEF QuietStands, WasShown
<1>. QED
  BY <1>7, <1>8, <1>9, <1>10

(* A place leads to one configuration. *)
LEMMA LeadsToOne ==
  ASSUME NEW place, NEW c1 \in LeadsTo(place), NEW c2 \in LeadsTo(place) PROVE c1 = c2
  BY DEF LeadsTo

(* The snapshot is found. *)
LEMMA StandsResolve == ASSUME IInv, NEW c \in Calls, Resolve(c) PROVE Stands(c)'
<1>. USE DEF IInv, Stands
<1>1. PICK r \in RestoringCalls : r = call[c]
  BY RestoringType DEF Resolve, RestoringPcs
<1>2. PICK node \in Candidates(c) :
        Becomes(c, [r EXCEPT !.pc = "compare", !.node = node,
                      !.shown = IF r.agreed THEN r.shown
                                ELSE [node |-> node, upto |-> Len(nodes), changes |-> {}]])
  BY <1>1 DEF Resolve
<1>3. call'[c] = [r EXCEPT !.pc = "compare", !.node = node,
                    !.shown = IF r.agreed THEN r.shown
                              ELSE [node |-> node, upto |-> Len(nodes), changes |-> {}]]
  BY <1>2, BecomesOnly
<1>4. PICK s : /\ s = call'[c] /\ r.pc \in {"get", "list"} /\ s.pc = "compare" /\ s.node = node
               /\ s.ref = r.ref /\ s.agreed = r.agreed
               /\ s.shown = IF r.agreed THEN r.shown
                            ELSE [node |-> node, upto |-> Len(nodes), changes |-> {}]
  BY <1>1, <1>3 DEF RestoringCalls, Resolve
<1>5. UNCHANGED <<live, nodes, leads, quiet, steady, touched>>
  BY DEF Resolve
<1>6. /\ LeadsTo(r.ref.place)' = LeadsTo(r.ref.place)
      /\ \A co : Chosen(r.ref, co)' = Chosen(r.ref, co)
  BY <1>5 DEF LeadsTo, Chosen, FirstOf, Precedes, Kept
<1>7. node \in 1..Len(nodes) /\ Len(nodes) \in Nat
  BY KeptAreNodes, CandidatesAreKept DEF TypeOK
<1>8. /\ r.ref.by = "id" => node = r.ref.id
      /\ r.ref.by # "id" => r.pc = "list" /\ node \in Chosen(r.ref, r.config)
  BY <1>1, <1>2, <1>4 DEF AsksBy, Candidates
<1>9. ~ r.agreed => s.shown.node = node /\ s.shown.upto = Len(nodes)
  BY <1>4
<1>10. r.agreed => WasShown(c) /\ s.shown = r.shown
  BY <1>1, <1>4 DEF WasShown
<1>11. r.agreed \in BOOLEAN
  BY DEF RestoringCalls
<1>12. IdStands(c)'
  BY <1>1, <1>4, <1>8, <1>9, <1>10, <1>11 DEF IdStands
<1>13. ShownStands(c)'
  <2>1. SUFFICES ASSUME c \in steady
                 PROVE  /\ s.shown.upto <= Len(nodes)
                        /\ s.ref.by # "id" =>
                             /\ \A config \in LeadsTo(r.ref.place) : \A i \in Chosen(r.ref, config) :
                                  i = s.shown.node \/ i > s.shown.upto
                             /\ node = s.shown.node \/ node > s.shown.upto
    BY <1>4, <1>5, <1>6 DEF ShownStands
  <2>2. CASE r.agreed
    BY <1>1, <1>4, <1>8, <1>10, <2>1, <2>2 DEF ShownStands
  <2>3. CASE ~ r.agreed
    <3>1. ASSUME s.ref.by # "id", NEW config \in LeadsTo(r.ref.place), NEW i \in Chosen(r.ref, config)
          PROVE  i = node
      <4>1. r.config \in LeadsTo(r.ref.place)
        BY <1>1, <1>4, <1>8, <2>1, <3>1 DEF ShownStands
      <4>2. config = r.config
        BY <3>1, <4>1, LeadsToOne
      <4>. QED BY <1>4, <1>8, <3>1, <4>2, ChosenIsOne
    <3>. QED BY <1>7, <1>9, <2>3, <3>1
  <2>. QED BY <1>11, <2>2, <2>3
<1>14. NodeStands(c)'
  BY <1>4, <1>5, <1>7 DEF NodeStands
<1>15. AsksBy(c)' /\ ComparedStands(c)' /\ TakenStands(c)'
  BY <1>4 DEF AsksBy, ComparedStands, TakenStands
<1>16. QuietStands(c)'
  BY <1>1, <1>4, <1>5, <1>9, <1>10, <1>11 DEF QuietStands
<1>. QED
  BY <1>12, <1>13, <1>14, <1>15, <1>16

(* Nothing but what was shown is found by a call whose world is quiet. *)
LEMMA QuietNode ==
  ASSUME IInv, NEW c \in Calls, c \in quiet, HasNode(c)
  PROVE  call[c].node = call[c].shown.node
<1>1. c \in steady /\ Stands(c) /\ WasShown(c)
  BY DEF IInv, HasNode, WasShown
<1>2. CASE call[c].ref.by = "id"
  BY <1>1, <1>2 DEF Stands, IdStands
<1>3. CASE call[c].ref.by # "id"
  <2>1. call[c].node = call[c].shown.node \/ call[c].node > call[c].shown.upto
    BY <1>1, <1>3 DEF Stands, ShownStands
  <2>2. call[c].shown.upto = Len(nodes) /\ call[c].node \in 1..Len(nodes) /\ Len(nodes) \in Nat
    BY <1>1 DEF Stands, QuietStands, NodeStands, IInv, TypeOK
  <2>. QED BY <2>1, <2>2
<1>. QED
  BY <1>2, <1>3

(* The comparison. *)
LEMMA StandsCompare == ASSUME IInv, NEW c \in Calls, Compare(c) PROVE Stands(c)'
<1>. USE DEF IInv, Stands
<1>1. PICK r \in RestoringCalls : r = call[c]
  BY RestoringType DEF Compare, RestoringPcs
<1>2. PICK differs : differs = Differs(c)
  OBVIOUS
<1>3. call'[c] = IF r.agreed THEN [r EXCEPT !.pc = "write", !.compared = differs]
                 ELSE [r EXCEPT !.pc = "shown", !.shown.changes = differs]
  BY <1>1, <1>2, BecomesOnly DEF Compare
<1>4. PICK s : /\ s = call'[c] /\ r.pc = "compare" /\ s.node = r.node /\ s.ref = r.ref
               /\ s.shown.node = r.shown.node /\ s.shown.upto = r.shown.upto
               /\ r.agreed => s.pc = "write" /\ s.compared = differs /\ s.shown = r.shown
               /\ ~ r.agreed => s.pc = "shown" /\ s.shown.changes = differs
  <2>1. r.pc = "compare" /\ r.shown \in Shown
    BY <1>1 DEF RestoringCalls, Compare
  <2>2. CASE r.agreed
    BY <1>3, <2>1, <2>2 DEF RestoringCalls
  <2>3. CASE ~ r.agreed
    <3>1. PICK shown : /\ shown = [r.shown EXCEPT !.changes = differs]
                       /\ shown.node = r.shown.node /\ shown.upto = r.shown.upto
                       /\ shown.changes = differs
      <4>1. /\ [r.shown EXCEPT !.changes = differs].node = r.shown.node
            /\ [r.shown EXCEPT !.changes = differs].upto = r.shown.upto
            /\ [r.shown EXCEPT !.changes = differs].changes = differs
        BY <2>1 DEF Shown
      <4>. QED BY <4>1
    <3>2. call'[c] = [r EXCEPT !.pc = "shown", !.shown = shown]
      BY <1>3, <2>3, <3>1
    <3>. QED BY <2>1, <2>3, <3>1, <3>2 DEF RestoringCalls
  <2>. QED BY <2>2, <2>3
<1>5. UNCHANGED <<live, nodes, leads, quiet, steady>>
  BY DEF Compare
<1>6. /\ LeadsTo(r.ref.place)' = LeadsTo(r.ref.place)
      /\ \A co : Chosen(r.ref, co)' = Chosen(r.ref, co)
  BY <1>5 DEF LeadsTo, Chosen, FirstOf, Precedes, Kept
<1>7. r.agreed \in BOOLEAN
  BY DEF RestoringCalls
<1>8. WasShown(c) /\ HasNode(c) /\ s.pc \in {"write", "shown"}
  BY <1>1, <1>4, <1>7 DEF WasShown, HasNode
<1>9. differs = {pv \in Compares : nodes[r.node].saved[pv] # live[pv]}
  BY <1>1, <1>2 DEF Differs
<1>10. AsksBy(c)' /\ IdStands(c)'
  BY <1>1, <1>4, <1>8 DEF AsksBy, IdStands
<1>11. ShownStands(c)'
  <2>1. c \in steady =>
          /\ s.shown.upto <= Len(nodes)
          /\ s.ref.by # "id" =>
               /\ \A config \in LeadsTo(r.ref.place) : \A i \in Chosen(r.ref, config) :
                    i = s.shown.node \/ i > s.shown.upto
               /\ s.node = s.shown.node \/ s.node > s.shown.upto
    BY <1>1, <1>4, <1>8 DEF ShownStands
  <2>. QED BY <1>4, <1>5, <1>6, <1>8, <2>1 DEF ShownStands
<1>12. NodeStands(c)' /\ TakenStands(c)'
  BY <1>1, <1>4, <1>5, <1>8 DEF NodeStands, TakenStands
<1>13. ComparedStands(c)'
  <2>1. SUFFICES ASSUME s.pc = "write", NEW pv \in PVs
                 PROVE  pv \in s.compared <=> pv \in Compares /\ nodes[r.node].saved[pv] # live[pv]
    BY <1>4, <1>5 DEF ComparedStands
  <2>2. s.compared = differs
    BY <1>4, <1>7, <2>1
  <2>. QED BY <1>9, <2>2
<1>14. QuietStands(c)'
  <2>1. SUFFICES ASSUME c \in quiet
                 PROVE  /\ s.shown.upto = Len(nodes)
                        /\ s.pc = "shown" =>
                             /\ s.shown.node \in 1..Len(nodes)
                             /\ s.shown.changes = {pv \in Compares : nodes[s.shown.node].saved[pv] # live[pv]}
                        /\ s.pc = "write" => s.compared = s.shown.changes
    BY <1>4, <1>5, <1>8 DEF QuietStands
  <2>2. r.node = r.shown.node /\ r.node \in 1..Len(nodes)
    BY <1>1, <1>8, <2>1, QuietNode DEF NodeStands
  <2>3. r.agreed => r.shown.changes = differs
    BY <1>1, <1>4, <1>9, <2>1, <2>2 DEF QuietStands
  <2>4. r.shown.upto = Len(nodes)
    BY <1>1, <1>8, <2>1 DEF QuietStands
  <2>5. CASE r.agreed
    BY <1>4, <2>3, <2>4, <2>5
  <2>6. CASE ~ r.agreed
    <3>1. s.pc = "shown" /\ s.shown.changes = differs /\ s.shown.node = r.node
      BY <1>4, <2>2, <2>6
    <3>. QED BY <1>4, <1>9, <2>2, <2>4, <3>1
  <2>. QED BY <1>7, <2>5, <2>6
<1>. QED
  BY <1>10, <1>11, <1>12, <1>13, <1>14

(* The user agrees to what was shown. *)
LEMMA StandsAgree == ASSUME IInv, NEW c \in Calls, Agree(c) PROVE Stands(c)'
<1>. USE DEF IInv, Stands
<1>1. PICK r \in RestoringCalls : r = call[c]
  BY RestoringType DEF Agree, RestoringPcs
<1>2. call'[c] = Restoring(r.ref, TRUE, r.shown)
  BY <1>1, BecomesOnly DEF Agree
<1>3. PICK s : /\ s = call'[c] /\ r.pc = "shown" /\ s.ref = r.ref /\ s.shown = r.shown /\ s.agreed
               /\ s.pc \in {"get", "locate"} /\ (s.pc = "get" <=> s.ref.by = "id")
  BY <1>1, <1>2 DEF Agree, Restoring
<1>4. UNCHANGED <<live, nodes, leads, quiet, steady, touched>>
  BY DEF Agree
<1>5. /\ LeadsTo(r.ref.place)' = LeadsTo(r.ref.place)
      /\ \A co : Chosen(r.ref, co)' = Chosen(r.ref, co)
  BY <1>4 DEF LeadsTo, Chosen, FirstOf, Precedes, Kept
<1>6. WasShown(c)
  BY <1>1, <1>3 DEF WasShown
<1>7. AsksBy(c)' /\ IdStands(c)'
  BY <1>1, <1>3, <1>6 DEF AsksBy, IdStands, HasNode
<1>8. ShownStands(c)'
  <2>1. c \in steady =>
          /\ s.shown.upto <= Len(nodes)
          /\ s.ref.by # "id" =>
               \A config \in LeadsTo(r.ref.place) : \A i \in Chosen(r.ref, config) :
                 i = s.shown.node \/ i > s.shown.upto
    BY <1>1, <1>3, <1>6 DEF ShownStands
  <2>. QED BY <1>3, <1>4, <1>5, <2>1 DEF ShownStands, HasNode
<1>9. NodeStands(c)' /\ ComparedStands(c)' /\ TakenStands(c)'
  BY <1>3 DEF NodeStands, ComparedStands, TakenStands, HasNode
<1>10. QuietStands(c)'
  BY <1>1, <1>3, <1>4, <1>6 DEF QuietStands
<1>. QED
  BY <1>7, <1>8, <1>9, <1>10

(* The snapshot is written back. *)
LEMMA StandsWrite == ASSUME IInv, NEW c \in Calls, Write(c) PROVE Stands(c)'
<1>. USE DEF IInv, Stands
<1>1. PICK r \in RestoringCalls : r = call[c]
  BY RestoringType DEF Write, Overwrites, RestoringPcs
<1>2. PICK failed, written :
        call'[c] = [pc |-> "restored", ref |-> r.ref, shown |-> r.shown, node |-> r.node,
                    changed |-> r.compared, failed |-> failed, written |-> written]
  <2>1. PICK f, w : f = Failing(r.node) /\ w = Cardinality(Compares) - Cardinality(f)
    OBVIOUS
  <2>2. Becomes(c, [pc |-> "restored", ref |-> r.ref, shown |-> r.shown, node |-> r.node,
                    changed |-> r.compared, failed |-> f, written |-> w])
    BY <1>1, <2>1 DEF Write
  <2>3. call'[c] = [pc |-> "restored", ref |-> r.ref, shown |-> r.shown, node |-> r.node,
                    changed |-> r.compared, failed |-> f, written |-> w]
    BY <2>2, BecomesOnly
  <2>. QED BY <2>3
<1>3. PICK s : /\ s = call'[c] /\ r.pc = "write" /\ s.pc = "restored" /\ s.ref = r.ref
               /\ s.shown = r.shown /\ s.node = r.node /\ s.changed = r.compared
  BY <1>1, <1>2 DEF Write, Overwrites
<1>4. nodes' = nodes /\ steady' = steady /\ (c \in quiet' => c \in quiet)
  BY DEF Write, Overwrites
<1>5. WasShown(c) /\ HasNode(c)
  BY <1>1, <1>3 DEF WasShown, HasNode
<1>6. AsksBy(c)' /\ IdStands(c)'
  BY <1>1, <1>3, <1>5 DEF AsksBy, IdStands
<1>7. ShownStands(c)'
  BY <1>1, <1>3, <1>4, <1>5 DEF ShownStands
<1>8. NodeStands(c)' /\ ComparedStands(c)' /\ TakenStands(c)'
  BY <1>1, <1>3, <1>4, <1>5 DEF NodeStands, ComparedStands, TakenStands
<1>9. QuietStands(c)'
  BY <1>1, <1>3, <1>4, <1>5 DEF QuietStands
<1>. QED
  BY <1>6, <1>7, <1>8, <1>9

(* The snapshot is saved, and its answer arrives or not. *)
LEMMA StandsSave == ASSUME IInv, NEW c \in Calls, Save(c) PROVE Stands(c)'
<1>. USE DEF IInv, Stands
<1>1. CASE Becomes(c, Ended("error"))
  <2>1. call'[c].pc = "ended"
    BY <1>1, BecomesOnly DEF Ended
  <2>. QED BY <2>1, StandsElsewhere
<1>2. CASE ~ Becomes(c, Ended("error"))
  <2>1. PICK items, config, s :
          /\ s = call'[c] /\ nodes' = Append(nodes, SavedNode(c))
          /\ SavedNode(c).config = config /\ SavedNode(c).saved = items
          /\ s.pc = "taken" /\ s.node = Len(nodes) + 1 /\ s.config = config /\ s.items = items
          /\ s.missing = {pv \in PVs : items[pv] = NoValue}
    BY <1>2, BecomesOnly DEF Save, SavedNode
  <2>2. nodes \in Seq(Node) /\ SavedNode(c) \in Node
    <3>1. call[c].config \in Configs /\ call[c].name \in Names /\ call[c].items \in Readings
      BY SavingType DEF Save
    <3>. QED BY <3>1 DEF SavedNode, Node, TypeOK
  <2>3. nodes'[s.node] = SavedNode(c) /\ s.node \in 1..Len(nodes')
    BY <2>1, <2>2
  <2>4. TakenStands(c)'
    BY <2>1, <2>3 DEF TakenStands
  <2>. QED BY <2>1, <2>4 DEF AsksBy, WasShown, HasNode, IdStands, ShownStands, NodeStands,
                             ComparedStands, QuietStands
<1>. QED
  BY <1>1, <1>2

(* A call that stays where it is stands as the world moves. *)
LEMMA StandsFrame ==
  ASSUME IInv, [Next]_vars, NEW c \in Calls, call'[c] = call[c], ~ Steps(c)
  PROVE  Stands(c)'
<1>1. /\ TypeOK /\ AsksBy(c) /\ IdStands(c) /\ ShownStands(c) /\ NodeStands(c)
      /\ ComparedStands(c) /\ TakenStands(c) /\ QuietStands(c) /\ ~ Asks(c)
  BY DEF IInv, Stands, Steps
<1>2. PICK r : r = call[c] /\ r = call'[c]
  OBVIOUS
<1>3. (WasShown(c)' <=> WasShown(c)) /\ (HasNode(c)' <=> HasNode(c))
  BY <1>2 DEF WasShown, HasNode
<1>4. Grows
  BY <1>1, GrowsStep
<1>5. AsksBy(c)' /\ IdStands(c)'
  BY <1>1, <1>2, <1>3 DEF AsksBy, IdStands
<1>6. ShownStands(c)'
  <2>1. SUFFICES ASSUME c \in steady' PROVE ShownStands(c)'
    BY DEF ShownStands
  <2>2. /\ c \in steady /\ leads' = leads
        /\ nodes' = nodes \/ \E node \in Node : nodes' = Append(nodes, node)
    BY <1>1, <2>1, SteadyStep
  <2>3. LeadsTo(r.ref.place)' = LeadsTo(r.ref.place)
    BY <2>2 DEF LeadsTo
  <2>4. WasShown(c) => r.shown.upto <= Len(nodes')
    <3>1. ASSUME WasShown(c) PROVE r.shown.upto \in Nat
      BY <1>1, <1>2, <3>1 DEF TypeOK, CallStates, Idle, Ended, WasShown, Shown
    <3>. QED BY <1>1, <1>2, <1>4, <2>2, <3>1 DEF ShownStands, Grows
  <2>5. ASSUME WasShown(c), r.pc # "restored", r.ref.by # "id",
               NEW config \in LeadsTo(r.ref.place), NEW i \in Chosen(r.ref, config)'
        PROVE  i = r.shown.node \/ i > r.shown.upto
    <3>1. i \in Chosen(r.ref, config) => i = r.shown.node \/ i > r.shown.upto
      BY <1>1, <1>2, <2>2, <2>5 DEF ShownStands
    <3>2. CASE nodes' = nodes
      <4>1. Chosen(r.ref, config)' = Chosen(r.ref, config)
        BY <3>2 DEF Chosen, FirstOf, Precedes, Kept
      <4>. QED BY <2>5, <3>1, <4>1
    <3>3. ASSUME NEW node \in Node, nodes' = Append(nodes, node)
          PROVE  i = r.shown.node \/ i > r.shown.upto
      <4>1. i \in 1..Len(nodes')
        <5>1. i \in Kept'
          BY <2>5 DEF Chosen, FirstOf
        <5>. QED BY <5>1 DEF Kept
      <4>2. CASE i <= Len(nodes)
        BY <1>1, <2>5, <3>1, <3>3, <4>2, ChosenLater
      <4>3. CASE i > Len(nodes)
        <5>1. r.shown.upto \in Nat
          BY <1>1, <1>2, <2>5 DEF TypeOK, CallStates, Idle, Ended, WasShown, Shown
        <5>2. r.shown.upto <= Len(nodes)
          BY <1>1, <1>2, <2>2, <2>5 DEF ShownStands
        <5>. QED BY <1>4, <4>1, <4>3, <5>1, <5>2 DEF Grows
      <4>. QED BY <1>4, <4>1, <4>2, <4>3 DEF Grows
    <3>. QED BY <2>2, <3>2, <3>3
  <2>6. /\ r.pc = "list" => r.config \in LeadsTo(r.ref.place)
        /\ HasNode(c) /\ r.ref.by # "id" => r.node = r.shown.node \/ r.node > r.shown.upto
    BY <1>1, <1>2, <2>2 DEF ShownStands
  <2>. QED BY <1>2, <1>3, <2>3, <2>4, <2>5, <2>6 DEF ShownStands
<1>7. NodeStands(c)'
  BY <1>1, <1>2, <1>3, <1>4 DEF NodeStands, Grows
<1>8. ComparedStands(c)'
  <2>1. SUFFICES ASSUME r.pc = "write", NEW pv \in PVs, pv \notin touched'[c]
                 PROVE  pv \in r.compared <=> pv \in Compares /\ nodes'[r.node].saved[pv] # live'[pv]
    BY <1>2 DEF ComparedStands
  <2>2. pv \notin touched[c] /\ live'[pv] = live[pv]
    BY <1>1, <1>2, <2>1, TouchedStep
  <2>3. nodes'[r.node].saved = nodes[r.node].saved
    BY <1>1, <1>2, <1>4, <2>1 DEF NodeStands, HasNode, Grows
  <2>4. pv \in r.compared <=> pv \in Compares /\ nodes[r.node].saved[pv] # live[pv]
    BY <1>1, <1>2, <2>1, <2>2 DEF ComparedStands
  <2>. QED BY <2>2, <2>3, <2>4
<1>9. TakenStands(c)'
  BY <1>1, <1>2, <1>4 DEF TakenStands, Grows
<1>10. QuietStands(c)'
  <2>1. SUFFICES ASSUME c \in quiet' PROVE QuietStands(c)'
    BY DEF QuietStands
  <2>2. c \in quiet /\ nodes' = nodes /\ live' = live
    BY <1>1, <2>1, QuietStep
  <2>. QED BY <1>1, <1>2, <1>3, <2>2 DEF QuietStands
<1>. QED
  BY <1>5, <1>6, <1>7, <1>8, <1>9, <1>10 DEF Stands

----
(* What holds of every behaviour. *)

LEMMA InitIInv == Init => IInv
<1>1. SUFFICES ASSUME Init PROVE IInv
  OBVIOUS
<1>2. TypeOK /\ quiet \subseteq steady
  BY <1>1, InitTypeOK DEF Init
<1>3. ASSUME NEW c \in Calls PROVE Stands(c)
  <2>1. call[c].pc = "idle"
    BY <1>1, <1>3 DEF Init, Idle
  <2>. QED BY <2>1 DEF Stands, AsksBy, WasShown, HasNode, IdStands, ShownStands, NodeStands,
                       ComparedStands, TakenStands, QuietStands
<1>. QED
  BY <1>2, <1>3 DEF IInv

LEMMA StepIInv == IInv /\ [Next]_vars => IInv'
<1>1. SUFFICES ASSUME IInv, [Next]_vars PROVE IInv'
  OBVIOUS
<1>2. TypeOK /\ \A c \in Calls : AsksBy(c)
  BY <1>1 DEF IInv, Stands
<1>3. TypeOK'
  BY <1>1, <1>2, TypeStep
<1>4. ASSUME NEW c \in Calls PROVE Stands(c)'
  <2>1. CASE Steps(c)
    BY <1>1, <1>2, <1>4, <2>1, StandsElsewhereStep, StandsAsks, StandsLocate, StandsResolve,
       StandsCompare, StandsAgree, StandsWrite, StandsSave DEF Steps
  <2>2. CASE ~ Steps(c)
    BY <1>1, <1>2, <1>4, <2>2, StepsOf, StandsFrame
  <2>. QED BY <2>1, <2>2
<1>5. ASSUME NEW c \in quiet' PROVE c \in steady'
  <2>1. c \in Calls
    BY <1>3, <1>5 DEF TypeOK
  <2>2. c \in quiet \/ Asks(c)
    BY <1>1, <1>2, <1>5, <2>1, QuietStep
  <2>3. CASE c \in quiet
    BY <1>1, <1>2, <1>5, <2>1, <2>3, QuietStep DEF IInv
  <2>4. CASE Asks(c)
    BY <2>4 DEF Asks, AskToRestore
  <2>. QED BY <2>2, <2>3, <2>4
<1>. QED
  BY <1>3, <1>4, <1>5 DEF IInv

THEOREM Invariance == Spec => []IInv
  BY InitIInv, StepIInv, PTL DEF Spec

(* The variables have their types, however many calls, people and          *)
(* operators act at once.                                                  *)
THEOREM TypeCorrect == Spec => []TypeOK
<1>1. IInv => TypeOK
  BY DEF IInv
<1>. QED
  BY <1>1, Invariance, PTL

(* A restore of an id restores what was shown; a restore of a name or of   *)
(* the latest restores that or one saved since, unless somebody renamed,   *)
(* deleted or moved something meanwhile.                                   *)
THEOREM RestoresWhatWasShown == Spec => []RestoresShownOrNew
<1>1. ASSUME IInv PROVE RestoresShownOrNew
  <2>1. ASSUME NEW c \in Calls, Committed(c) PROVE Stands(c) /\ WasShown(c) /\ HasNode(c)
    BY <1>1, <2>1 DEF IInv, Committed, WasShown, HasNode
  <2>. QED BY <2>1 DEF RestoresShownOrNew, Stands, IdStands, ShownStands
<1>. QED
  BY <1>1, Invariance, PTL

(* A restore that nobody interferes with does what its preview showed. *)
THEOREM QuietRestoresAreShown == Spec => []QuietRestoreIsShown
<1>1. ASSUME IInv PROVE QuietRestoreIsShown
  <2>1. SUFFICES ASSUME NEW c \in quiet, Committed(c)
                 PROVE  /\ call[c].node = call[c].shown.node
                        /\ call[c].pc = "write" => call[c].compared = call[c].shown.changes
                        /\ call[c].pc = "restored" => call[c].changed = call[c].shown.changes
    BY DEF QuietRestoreIsShown
  <2>2. c \in Calls /\ HasNode(c)
    BY <1>1, <2>1 DEF IInv, TypeOK, Committed, HasNode
  <2>3. call[c].node = call[c].shown.node
    BY <1>1, <2>1, <2>2, QuietNode
  <2>4. QuietStands(c)
    BY <1>1, <2>2 DEF IInv, Stands
  <2>. QED BY <2>1, <2>3, <2>4 DEF QuietStands
<1>. QED
  BY <1>1, Invariance, PTL

(* A snapshot reported as taken is stored with the values that were read,  *)
(* and stays so whatever others save, rename or delete.                    *)
THEOREM TakenAreStored == Spec => []TakenIsStored
<1>1. ASSUME IInv PROVE TakenIsStored
  <2>1. \A c \in Calls : TakenStands(c)
    BY <1>1 DEF IInv, Stands
  <2>. QED BY <2>1 DEF TakenIsStored, TakenStands
<1>. QED
  BY <1>1, Invariance, PTL

(* The PVs a restore reports as changed are the ones that its write        *)
(* changes, apart from those that failed, are read-only, or were changed   *)
(* by somebody between its comparison and its write.                       *)
THEOREM RestoresReportChanges == Spec => RestoreReportsChanges
<1>. DEFINE A == \A c \in Calls :
                   (call[c].pc = "write" /\ call'[c].pc = "restored") =>
                     \A pv \in PVs \ touched[c] :
                       live'[pv] # live[pv] <=> pv \in call'[c].changed \ (call'[c].failed \cup ReadOnly)
<1>1. ASSUME IInv, [Next]_vars PROVE A
  <2>1. SUFFICES ASSUME NEW c \in Calls, call[c].pc = "write", call'[c].pc = "restored",
                        NEW pv \in PVs, pv \notin touched[c]
                 PROVE  live'[pv] # live[pv]
                          <=> pv \in call'[c].changed \ (call'[c].failed \cup ReadOnly)
    OBVIOUS
  <2>2. TypeOK /\ ComparedStands(c)
    BY <1>1 DEF IInv, Stands
  <2>3. Write(c)
    <3>1. Steps(c)
      BY <1>1, <2>1, <2>2, StepsOf
    <3>2. WriteTimesOut(c) \/ Fails(c) => call'[c].pc = "ended"
      BY <2>2, BecomesOnly DEF WriteTimesOut, Fails, Ended
    <3>3. ~ Asks(c) /\ ~ \E take \in Takes : AskForSnapshot(c, take)
      <4>1. call[c] # Idle
        BY <2>1 DEF Idle
      <4>. QED BY <4>1 DEF Asks, AskToRestore, AskForSnapshot
    <3>4. ~ (Locate(c) \/ Resolve(c) \/ Compare(c) \/ Agree(c) \/ Decline(c))
      BY <2>1 DEF Locate, Resolve, Compare, Agree, Decline
    <3>5. ~ (Find(c) \/ Read(c) \/ Save(c) \/ Deliver(c))
      BY <2>1 DEF Find, Read, Save, Deliver
    <3>. QED BY <2>1, <3>1, <3>2, <3>3, <3>4, <3>5 DEF Steps
  <2>4. PICK node \in Kept : node = call[c].node
    BY <2>3 DEF Write, Overwrites
  <2>5. PICK f, w : f = Failing(node) /\ w = Cardinality(Compares) - Cardinality(f)
    OBVIOUS
  <2>6. Becomes(c, [pc |-> "restored", ref |-> call[c].ref, shown |-> call[c].shown, node |-> node,
                    changed |-> call[c].compared, failed |-> f, written |-> w])
    BY <2>3, <2>4, <2>5 DEF Write
  <2>7. call'[c].changed = call[c].compared /\ call'[c].failed = f
    BY <2>2, <2>6, BecomesOnly
  <2>8. live'[pv] = IF pv \in f \cup ReadOnly THEN live[pv] ELSE nodes[node].saved[pv]
    BY <2>3, <2>4, <2>5 DEF Write, Overwrites, WrittenBack
  <2>9. pv \in call[c].compared <=> pv \in Compares /\ nodes[node].saved[pv] # live[pv]
    BY <2>1, <2>2, <2>4 DEF ComparedStands
  <2>10. pv \notin ReadOnly => pv \in Compares
    BY SnapshotAssumption
  <2>. QED BY <2>7, <2>8, <2>9, <2>10
<1>2. [Next]_vars /\ IInv => [A]_vars
  BY <1>1
<1>. QED
  BY <1>2, Invariance, PTL DEF Spec, RestoreReportsChanges
====
