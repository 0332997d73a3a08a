---- MODULE ConfigurationsProofs ----
(***************************************************************************)
(* What Configurations guarantees for any inventories, trees, paths, calls *)
(* and edits by others: a plan has exactly what was asked for, a path      *)
(* leads to what it names, and an undisturbed call creates what the user   *)
(* was shown.                                                              *)
(*                                                                         *)
(* A plan is a fold over the offers of the devices and a path is walked    *)
(* folder by folder; what both compute is proved by induction over the     *)
(* numbers (Induction).  The inductive invariant IInv says of a call how   *)
(* far it is on the way from the arguments to the node, and, as long as    *)
(* nobody has changed anything, that what it has worked out is what        *)
(* working it out now would give.                                          *)
(***************************************************************************)
EXTENDS Configurations, SequenceLemmas, FiniteSetTheorems, TLAPS

Devices == UNION {ToSet(inv) : inv \in Inventories}

(* A call that has begun. *)
States ==
  [pc : {"planning", "listing", "getting", "walking", "picking", "shown", "creating", "gaveup", "done"},
   ask : Asks, confirmed : BOOLEAN, listing : Seq(Devices), plan : Plans, at : Ids, left : Seq(Names),
   shown : [plan : Plans, folder : Ids \cup {NoNode}], node : Ids \cup {NoNode}]

(* The folders on the way to the first k parts of a path. *)
IsWay(chain, parts, k) ==
  /\ chain \in [0..k -> Ids] /\ chain[0] = Root
  /\ \A j \in 1..k : LET found == Matching(chain[j - 1], "FOLDER", parts[j])
                     IN  found # {} /\ chain[j] = Min(found)

LeadsTo(parts, k, folder) == \E chain \in [0..k -> Ids] : IsWay(chain, parts, k) /\ chain[k] = folder

(* The folder that is asked for, as long as nobody changes the nodes. *)
IsPlace(folder, ask) ==
  IF ask.folder.by = "id" THEN folder = ask.folder.id
  ELSE ask.folder.parts # <<>> /\ LeadsTo(ask.folder.parts, Len(ask.folder.parts), folder)

(* Where the walk is: the parts that are left follow those walked. *)
OnTheWay(s) ==
  LET parts == s.ask.folder.parts
  IN  \E k \in 0..Len(parts) :
        /\ LeadsTo(parts, k, s.at)
        /\ Len(s.left) > 0 /\ Len(parts) = k + Len(s.left)
        /\ \A i \in 1..Len(s.left) : s.left[i] = parts[k + i]

(* The plan made of all the devices there are. *)
FullPlan(s) == PlanOf(s, IF s.ask.devices # <<>> THEN inventory ELSE <<>>)

ShownRight(s) == s.shown.plan = FullPlan(s) /\ IsPlace(s.shown.folder, s.ask)

(* Before anything is created or found; q: the call is quiet. *)
Ready(s, q) ==
  /\ s.node = NoNode
  /\ s.ask.kind = "find" => ~ s.confirmed
  /\ q /\ s.confirmed => ShownRight(s)

(* The plan is that of the listing, and a quiet call's that of all devices. *)
HasPlan(s, q) ==
  IF s.ask.kind = "find" THEN s.plan = NothingPlanned
  ELSE /\ ~ Malformed(s.ask) /\ s.plan = PlanOf(s, s.listing)
       /\ q => s.plan = FullPlan(s)

(* The node of a call that is done. *)
NodeIsRight(s) ==
  IF s.ask.kind = "create"
  THEN s.node \in Ids => tree[s.node].pvs = Stored(s.shown.plan) /\ tree[s.node].parent = s.shown.folder
  ELSE s.ask.folder.by = "path" /\ s.node \in Ids =>
         IsPlace(tree[s.node].parent, s.ask) /\ Answers(s.node, "CONFIGURATION", s.ask.name)

(* What a call has worked out, wherever it is. *)
AtWork(s, q) ==
  /\ s.pc # "done" => Ready(s, q)
  /\ s.pc # "listing" => HasPlan(s, q)
  /\ s.pc = "listing" => s.ask.kind = "create" /\ s.ask.devices # <<>> /\ s.plan = NothingPlanned
  /\ s.pc = "getting" => s.ask.folder.by = "id"
  /\ s.pc = "walking" => s.ask.folder.by = "path" /\ s.left # <<>> /\ (q => OnTheWay(s))
  /\ s.pc = "picking" => s.ask.kind = "find" /\ s.ask.folder.by = "path" /\ (q => IsPlace(s.at, s.ask))
  /\ s.pc \in {"shown", "creating", "gaveup"} => s.ask.kind = "create" /\ (q => IsPlace(s.at, s.ask))
  /\ s.pc = "shown" => (q => ShownRight(s))
  /\ s.pc \in {"creating", "gaveup"} => s.confirmed
  /\ s.pc = "done" => (q => NodeIsRight(s))

(* A call is idle, has ended, or is at work and in order. *)
Sound(s, q) ==
  \/ s = Idle
  \/ s \in Endings
  \/ s \in States /\ s.pc # "planning" /\ AtWork(s, q)

(* The inductive invariant. *)
IInv ==
  /\ inventory \in Inventories
  /\ IsTree(tree)
  /\ changes \in 0..MaxChanges
  /\ DOMAIN call = Calls /\ \A c \in Calls : Sound(call[c], c \in quiet)
  /\ quiet \subseteq Calls

----
(* add, over a sequence of entries. *)

Folded(s, f, k) ==
  f = [d \in SUBSET (1..k) |-> IF d = {} THEN <<>> ELSE Add(f[d \ {Max(d)}], s[Max(d)])]

(* There is such a function: it is built index by index. *)
LEMMA FoldedExists ==
  ASSUME NEW s, NEW k \in Nat PROVE \E f : Folded(s, f, k)
<1>. DEFINE S == {n \in Nat : \E f : Folded(s, f, n)}
<1>1. 0 \in S
  <2>. DEFINE f == [d \in SUBSET (1..0) |-> <<>>]
  <2>1. \A d \in SUBSET (1..0) : d = {}
    OBVIOUS
  <2>2. Folded(s, f, 0)
    BY <2>1 DEF Folded
  <2>. QED BY <2>2
<1>2. ASSUME NEW n \in Nat, n \in S PROVE n + 1 \in S
  <2>1. PICK f : Folded(s, f, n)
    BY <1>2
  <2>. DEFINE g == [d \in SUBSET (1..(n + 1)) |-> IF n + 1 \in d THEN Add(f[d \ {n + 1}], s[n + 1]) ELSE f[d]]
  <2>2. ASSUME NEW d \in SUBSET (1..(n + 1))
        PROVE  g[d] = IF d = {} THEN <<>> ELSE Add(g[d \ {Max(d)}], s[Max(d)])
    <3>1. CASE n + 1 \in d
      <4>1. Max(d) = n + 1
        <5>1. n + 1 \in Nat /\ d \subseteq 0..(n + 1)
          OBVIOUS
        <5>. QED BY <3>1, <5>1, MaxOf
      <4>2. d \ {n + 1} \in SUBSET (1..n) /\ n + 1 \notin d \ {n + 1}
        OBVIOUS
      <4>3. g[d \ {n + 1}] = f[d \ {n + 1}]
        BY <4>2
      <4>. QED BY <3>1, <4>1, <4>3
    <3>2. CASE n + 1 \notin d
      <4>1. d \in SUBSET (1..n)
        BY <3>2
      <4>2. CASE d = {}
        BY <2>1, <3>2, <4>1, <4>2 DEF Folded
      <4>3. CASE d # {}
        <5>1. d \ {Max(d)} \in SUBSET (1..n)
          BY <4>1
        <5>2. n + 1 \notin d \ {Max(d)} /\ d \ {Max(d)} \in SUBSET (1..(n + 1))
          BY <3>2
        <5>3. g[d \ {Max(d)}] = f[d \ {Max(d)}] /\ g[d] = f[d]
          BY <3>2, <5>2
        <5>4. f[d] = Add(f[d \ {Max(d)}], s[Max(d)])
          BY <2>1, <4>1, <4>3 DEF Folded
        <5>. QED BY <4>3, <5>3, <5>4
      <4>. QED BY <4>2, <4>3
    <3>. QED BY <3>1, <3>2
  <2>. HIDE DEF g
  <2>3. Folded(s, g, n + 1)
    <3>1. g = [d \in SUBSET (1..(n + 1)) |-> g[d]]
      BY DEF g
    <3>. QED BY <2>2, <3>1 DEF Folded
  <2>. QED BY <2>3
<1>. HIDE DEF S
<1>3. Nat \subseteq S
  BY <1>1, <1>2, Induction
<1>. QED BY <1>3 DEF S

(* The steps of the fold. *)
LEMMA FoldIs ==
  ASSUME NEW s, NEW n \in Nat, DOMAIN s = 1..n
  PROVE  \E pre : /\ DOMAIN pre = 0..n /\ pre[0] = <<>> /\ FoldLeft(Add, <<>>, s) = pre[n]
                  /\ \A k \in 1..n : pre[k] = Add(pre[k - 1], s[k])
<1>. DEFINE F == CHOOSE f : Folded(s, f, n)
<1>1. Folded(s, F, n)
  BY FoldedExists
<1>2. FoldLeft(Add, <<>>, s) = F[DOMAIN s]
  BY DEF FoldLeft, MapThenFoldSet, Folded
<1>. HIDE DEF F
<1>. DEFINE pre == [k \in 0..n |-> F[1..k]]
<1>3. pre[0] = <<>>
  BY <1>1 DEF Folded
<1>4. ASSUME NEW k \in 1..n PROVE pre[k] = Add(pre[k - 1], s[k])
  <2>1. Max(1..k) = k
    <3>1. k \in Nat /\ k \in 1..k /\ 1..k \subseteq 0..k
      OBVIOUS
    <3>. QED BY <3>1, MaxOf
  <2>2. (1..k) \ {k} = 1..(k - 1)
    OBVIOUS
  <2>3. 1..k \in SUBSET (1..n) /\ 1..k # {}
    <3>1. k \in 1..k
      OBVIOUS
    <3>2. \A i \in 1..k : i \in 1..n
      OBVIOUS
    <3>. QED BY <3>1, <3>2
  <2>4. F[1..k] = Add(F[(1..k) \ {Max(1..k)}], s[Max(1..k)])
    BY <1>1, <2>3 DEF Folded
  <2>5. F[1..k] = Add(F[1..(k - 1)], s[k])
    BY <2>1, <2>2, <2>4
  <2>6. k \in 0..n /\ k - 1 \in 0..n
    OBVIOUS
  <2>. HIDE DEF Max
  <2>. QED BY <2>5, <2>6
<1>5. DOMAIN pre = 0..n /\ pre[n] = F[1..n]
  OBVIOUS
<1>. HIDE DEF pre
<1>. QED BY <1>2, <1>3, <1>4, <1>5

----
(* What a plan is made of. *)

Entries == [setpoint : PVs, readback : PVs \cup {NoPv}, owner : Names \cup {Explicit}]

(* What the inventories have are devices. *)
LEMMA DeviceIs ==
  ASSUME NEW d \in Devices PROVE IsDevice(d)
<1>1. PICK inv \in Inventories : d \in ToSet(inv)
  BY DEF Devices
<1>. QED BY <1>1, InventoryAssumption DEF ToSet

(* The device that a wanted name stands for has that name, but for case. *)
LEMMA DeviceOfIs ==
  ASSUME NEW listing \in Seq(Devices), NEW w, Alike(listing, w) # {}
  PROVE  /\ IsDevice(DeviceOf(listing, w))
         /\ Lower[DeviceOf(listing, w).name] = Lower[w]
<1>1. PICK n \in Nat : n = Len(listing)
  OBVIOUS
<1>2. Alike(listing, w) \subseteq 0..n
  BY <1>1 DEF Alike
<1>3. Max(Alike(listing, w)) \in Alike(listing, w)
  BY <1>2, MaxIs
<1>4. PICK i \in Alike(listing, w) : i = Max(Alike(listing, w))
  BY <1>3
<1>5. i \in DOMAIN listing /\ listing[i] \in Devices /\ Lower[listing[i].name] = Lower[w]
  BY DEF Alike
<1>. QED BY <1>4, <1>5, DeviceIs DEF DeviceOf

(* What a device offers are entries, and without readbacks if none are wanted. *)
LEMMA OffersIs ==
  ASSUME NEW s, NEW listing \in Seq(Devices), NEW w
  PROVE  /\ Offers(s, listing, w) \in Seq(Entries)
         /\ ~ s.ask.readbacks => \A e \in ToSet(Offers(s, listing, w)) : e.readback = NoPv
<1>1. CASE Alike(listing, w) = {}
  BY <1>1 DEF Offers, ToSet
<1>2. CASE Alike(listing, w) # {}
  <2>. DEFINE dev == DeviceOf(listing, w)
              Good == {e \in Entries : ~ s.ask.readbacks => e.readback = NoPv}
              Of(q) ==
                IF q \notin DOMAIN dev.setpoints THEN <<>>
                ELSE <<Entry(s, dev.setpoints[q],
                             IF q \in DOMAIN dev.readbacks THEN dev.readbacks[q] ELSE NoPv, dev.name)>>
              seqs == [i \in DOMAIN Quantities |-> Of(Quantities[i])]
  <2>1. IsDevice(dev)
    BY <1>2, DeviceOfIs
  <2>2. PICK n \in Nat : n = Len(Quantities) /\ DOMAIN Quantities = 1..n
    BY InventoryAssumption DEF IsSeq
  <2>3. Offers(s, listing, w) = FlattenSeq(seqs)
    BY <1>2 DEF Offers
  <2>. HIDE DEF dev
  <2>4. ASSUME NEW i \in 1..n PROVE Of(Quantities[i]) \in Seq(Good)
    <3>1. PICK q : q = Quantities[i]
      OBVIOUS
    <3>2. CASE q \in DOMAIN dev.setpoints
      <4>1. dev.setpoints[q] \in PVs /\ dev.name \in Names
        BY <2>1, <3>2 DEF IsDevice
      <4>2. q \in DOMAIN dev.readbacks => dev.readbacks[q] \in PVs
        BY <2>1 DEF IsDevice
      <4>3. PICK rb \in PVs \cup {NoPv} : rb = IF q \in DOMAIN dev.readbacks THEN dev.readbacks[q] ELSE NoPv
        BY <4>2
      <4>4. Entry(s, dev.setpoints[q], rb, dev.name) \in Good
        BY <4>1 DEF Entry, WantsReadbacks, Entries
      <4>. QED BY <3>1, <3>2, <4>3, <4>4
    <3>3. CASE q \notin DOMAIN dev.setpoints
      BY <3>1, <3>3
    <3>. QED BY <3>2, <3>3
  <2>. HIDE DEF Of, Good
  <2>5. DOMAIN seqs = 1..n /\ Len(seqs) = n /\ \A i \in 1..n : seqs[i] \in Seq(Good)
    BY <2>2, <2>4
  <2>. HIDE DEF seqs
  <2>6. FlattenSeq(seqs) \in Seq(Good)
    BY <2>5, FlattenRange
  <2>7. Seq(Good) \subseteq Seq(Entries) /\ \A t \in Seq(Good) : ToSet(t) \subseteq Good
    BY DEF Good, ToSet
  <2>. QED BY <2>3, <2>6, <2>7 DEF Good
<1>. QED BY <1>1, <1>2

(* A sequence of n different elements has n elements. *)
LEMMA DistinctLen ==
  ASSUME NEW T, NEW t \in Seq(T), \A i, j \in DOMAIN t : t[i] = t[j] => i = j
  PROVE  Len(t) = Cardinality(ToSet(t))
<1>1. PICK n \in Nat : n = Len(t) /\ DOMAIN t = 1..n
  OBVIOUS
<1>2. t \in Bijection(1..n, ToSet(t))
  <2>1. PICK R : R = ToSet(t)
    OBVIOUS
  <2>2. (\A i \in 1..n : t[i] \in R) /\ (\A r \in R : \E i \in 1..n : t[i] = r)
    BY <1>1, <2>1 DEF ToSet
  <2>3. t \in [1..n -> R]
    BY <1>1, <2>2
  <2>. QED BY <1>1, <2>1, <2>2, <2>3 DEF Bijection, Injection, IsInjective, Surjection
<1>3. ExistsBijection(1..n, ToSet(t))
  BY <1>2 DEF ExistsBijection
<1>4. IsFiniteSet(1..n) /\ Cardinality(1..n) = n
  BY FS_Interval
<1>5. Cardinality(ToSet(t)) = n
  BY <1>3, <1>4, FS_Bijection
<1>. QED BY <1>1, <1>5

(* Adding the entries of a sequence keeps one of each setpoint. *)
LEMMA AddedAll ==
  ASSUME NEW T, NEW all \in Seq(T)
  PROVE  LET added == FoldLeft(Add, <<>>, all)
         IN  /\ added \in Seq(T) /\ ToSet(added) \subseteq ToSet(all)
             /\ \A o \in ToSet(all) : \E p \in ToSet(added) : p.setpoint = o.setpoint
             /\ \A i, j \in DOMAIN added : added[i].setpoint = added[j].setpoint => i = j
<1>1. PICK n \in Nat : n = Len(all) /\ DOMAIN all = 1..n
  OBVIOUS
<1>2. PICK pre : /\ DOMAIN pre = 0..n /\ pre[0] = <<>> /\ FoldLeft(Add, <<>>, all) = pre[n]
                 /\ \A k \in 1..n : pre[k] = Add(pre[k - 1], all[k])
  BY <1>1, FoldIs
<1>. DEFINE Good(k) ==
              /\ pre[k] \in Seq(T)
              /\ \A i \in DOMAIN pre[k] : \E j \in 1..k : pre[k][i] = all[j]
              /\ \A j \in 1..k : \E i \in DOMAIN pre[k] : pre[k][i].setpoint = all[j].setpoint
              /\ \A i, j \in DOMAIN pre[k] : pre[k][i].setpoint = pre[k][j].setpoint => i = j
            S == {k \in 0..n : Good(k)}
<1>3. 0 \in S
  <2>1. pre[0] = <<>> /\ DOMAIN pre[0] = {} /\ 1..0 = {} /\ 0 \in 0..n
    BY <1>2
  <2>2. pre[0] \in Seq(T)
    BY <2>1
  <2>. QED BY <2>1, <2>2
<1>4. ASSUME NEW m \in 0..(n - 1), m \in S PROVE m + 1 \in S
  <2>1. m + 1 \in 1..n /\ (m + 1) - 1 = m /\ Good(m) /\ m + 1 \in 0..n /\ m \in Nat
    BY <1>4
  <2>2. PICK old : old = pre[m]
    OBVIOUS
  <2>3. PICK e \in T : e = all[m + 1]
    BY <1>1, <2>1
  <2>4. PICK new : new = pre[m + 1]
    OBVIOUS
  <2>5. new = Add(old, e)
    BY <1>2, <2>1, <2>2, <2>3, <2>4
  <2>6. PICK k \in Nat : old \in Seq(T) /\ Len(old) = k /\ DOMAIN old = 1..k
    BY <2>1, <2>2
  <2>7. CASE \E i \in DOMAIN old : old[i].setpoint = e.setpoint
    <3>1. new = old
      BY <2>5, <2>7 DEF Add
    <3>2. \A j \in 1..(m + 1) : j \in 1..m \/ j = m + 1
      BY <2>1
    <3>3. \A j \in 1..m : j \in 1..(m + 1)
      BY <2>1
    <3>. HIDE DEF S
    <3>4. Good(m) /\ pre[m + 1] = pre[m]
      BY <2>1, <2>2, <2>4, <3>1
    <3>5. \E i \in DOMAIN pre[m] : pre[m][i].setpoint = all[m + 1].setpoint
      BY <2>2, <2>3, <2>7
    <3>6. \A i \in DOMAIN pre[m + 1] : \E j \in 1..(m + 1) : pre[m + 1][i] = all[j]
      <4>1. \A i \in DOMAIN pre[m] : \E j \in 1..m : pre[m][i] = all[j]
        BY <3>4
      <4>. HIDE DEF Good
      <4>. QED BY <3>3, <3>4, <4>1
    <3>7. \A j \in 1..(m + 1) : \E i \in DOMAIN pre[m + 1] : pre[m + 1][i].setpoint = all[j].setpoint
      <4>1. \A j \in 1..m : \E i \in DOMAIN pre[m] : pre[m][i].setpoint = all[j].setpoint
        BY <3>4
      <4>2. pre[m + 1] = pre[m]
        BY <3>4
      <4>. HIDE DEF Good
      <4>. QED BY <3>2, <3>5, <4>1, <4>2
    <3>8. Good(m + 1)
      BY <3>4, <3>6, <3>7
    <3>. QED BY <2>1, <3>8 DEF S
  <2>8. CASE ~ \E i \in DOMAIN old : old[i].setpoint = e.setpoint
    <3>1. new = Append(old, e)
      BY <2>5, <2>8 DEF Add
    <3>2. new \in Seq(T) /\ DOMAIN new = 1..(k + 1) /\ new[k + 1] = e /\ \A i \in 1..k : new[i] = old[i]
      BY <2>6, <3>1
    <3>3. \A i \in 1..(k + 1) : i \in 1..k \/ i = k + 1
      OBVIOUS
    <3>4. \A i \in 1..k : i \in 1..(k + 1)
      OBVIOUS
    <3>5. k + 1 \in 1..(k + 1) /\ m + 1 \in 1..(m + 1)
      BY <2>1
    <3>6. \A j \in 1..(m + 1) : j \in 1..m \/ j = m + 1
      BY <2>1
    <3>7. \A j \in 1..m : j \in 1..(m + 1)
      BY <2>1
    <3>8. \A i \in DOMAIN new : \E j \in 1..(m + 1) : new[i] = all[j]
      <4>1. ASSUME NEW i \in 1..k PROVE \E j \in 1..m : old[i] = all[j]
        BY <2>1, <2>2, <2>6
      <4>2. ASSUME NEW i \in DOMAIN new PROVE \E j \in 1..(m + 1) : new[i] = all[j]
        <5>1. CASE i \in 1..k
          <6>1. PICK j \in 1..m : old[i] = all[j]
            BY <4>1, <5>1
          <6>. HIDE DEF S, Good
          <6>. QED BY <3>2, <3>7, <5>1, <6>1
        <5>2. CASE i = k + 1
          BY <2>3, <3>2, <3>5, <5>2
        <5>. QED BY <3>2, <3>3, <5>1, <5>2
      <4>. QED BY <4>2
    <3>9. \A j \in 1..(m + 1) : \E i \in DOMAIN new : new[i].setpoint = all[j].setpoint
      <4>1. ASSUME NEW j \in 1..m PROVE \E i \in 1..k : old[i].setpoint = all[j].setpoint
        BY <2>1, <2>2, <2>6
      <4>. QED BY <2>3, <3>2, <3>4, <3>5, <3>6, <4>1
    <3>10. \A i, j \in DOMAIN new : new[i].setpoint = new[j].setpoint => i = j
      <4>1. \A i, j \in 1..k : old[i].setpoint = old[j].setpoint => i = j
        BY <2>1, <2>2, <2>6
      <4>2. \A i \in 1..k : old[i].setpoint # e.setpoint
        BY <2>6, <2>8
      <4>. QED BY <3>2, <3>3, <4>1, <4>2
    <3>. HIDE DEF S
    <3>11. Good(m + 1)
      BY <2>4, <3>2, <3>8, <3>9, <3>10
    <3>. QED BY <2>1, <3>11 DEF S
  <2>. QED BY <2>7, <2>8
<1>5. Good(n)
  <2>1. n \in 0..n
    OBVIOUS
  <2>2. 0..n \subseteq S
    <3>. HIDE DEF S
    <3>. QED BY <1>3, <1>4, InductionTo
  <2>. QED BY <2>1, <2>2
<1>. HIDE DEF S
<1>6. PICK added : added = FoldLeft(Add, <<>>, all)
  OBVIOUS
<1>7. /\ added \in Seq(T)
      /\ \A i \in DOMAIN added : \E j \in 1..n : added[i] = all[j]
      /\ \A j \in 1..n : \E i \in DOMAIN added : added[i].setpoint = all[j].setpoint
      /\ \A i, j \in DOMAIN added : added[i].setpoint = added[j].setpoint => i = j
  <2>1. added = pre[n]
    BY <1>2, <1>6
  <2>2. /\ pre[n] \in Seq(T)
        /\ \A i \in DOMAIN pre[n] : \E j \in 1..n : pre[n][i] = all[j]
        /\ \A j \in 1..n : \E i \in DOMAIN pre[n] : pre[n][i].setpoint = all[j].setpoint
        /\ \A i, j \in DOMAIN pre[n] : pre[n][i].setpoint = pre[n][j].setpoint => i = j
    BY <1>5
  <2>. HIDE DEF Good
  <2>. QED BY <2>1, <2>2
<1>8. ToSet(added) \subseteq ToSet(all) /\ \A o \in ToSet(all) : \E p \in ToSet(added) : p.setpoint = o.setpoint
  <2>1. ASSUME NEW p \in ToSet(added) PROVE p \in ToSet(all)
    <3>1. PICK i \in DOMAIN added : p = added[i]
      BY DEF ToSet
    <3>2. PICK j \in 1..n : added[i] = all[j]
      BY <1>7
    <3>. QED BY <1>1, <3>1, <3>2 DEF ToSet
  <2>2. ASSUME NEW o \in ToSet(all) PROVE \E p \in ToSet(added) : p.setpoint = o.setpoint
    <3>1. PICK j \in 1..n : o = all[j]
      BY <1>1 DEF ToSet
    <3>2. PICK i \in DOMAIN added : added[i].setpoint = all[j].setpoint
      BY <1>7
    <3>. QED BY <3>1, <3>2 DEF ToSet
  <2>. QED BY <2>1, <2>2
<1>. QED BY <1>6, <1>7, <1>8

(* The offers for a call, of the listed devices and of the PVs it gives.   *)
GivenOffers(s) ==
  {[setpoint |-> p.setpoint, readback |-> IF s.ask.readbacks THEN p.readback ELSE NoPv,
    owner |-> Explicit] : p \in ToSet(s.ask.pvs)}

AllOffers(s, listing) == GivenOffers(s) \cup UNION {ToSet(Offers(s, listing, w)) : w \in ToSet(s.ask.devices)}

(* What the arguments of a call are. *)
LEMMA AskIs ==
  ASSUME NEW ask \in Asks
  PROVE  /\ ask.kind \in {"create", "find"}
         /\ \/ ask.folder.by = "id" /\ ask.folder.id \in Ids
            \/ ask.folder.by = "path" /\ ask.folder.parts \in Seq(Names)
         /\ ask.name \in Names
         /\ ask.kind = "create" =>
              /\ ask.devices \in Seq(Names) /\ ask.readbacks \in BOOLEAN
              /\ ask.pvs \in Seq([setpoint : PVs \cup {NoPv}, readback : PVs \cup {NoPv}])
BY AskAssumption DEF IsAsk

(* The PVs that are given explicitly, as entries. *)
LEMMA GivenIs ==
  ASSUME NEW s, s.ask \in Asks, s.ask.kind = "create", ~ Malformed(s.ask)
  PROVE  LET given == s.ask.pvs
             explicit == [i \in DOMAIN given |-> Entry(s, given[i].setpoint, given[i].readback, Explicit)]
         IN  /\ explicit \in Seq(Entries) /\ ToSet(explicit) = GivenOffers(s)
             /\ ~ s.ask.readbacks => \A e \in GivenOffers(s) : e.readback = NoPv
<1>. DEFINE given == s.ask.pvs
            explicit == [i \in DOMAIN given |-> Entry(s, given[i].setpoint, given[i].readback, Explicit)]
<1>1. given \in Seq([setpoint : PVs \cup {NoPv}, readback : PVs \cup {NoPv}])
  BY AskIs
<1>2. PICK n \in Nat : n = Len(given) /\ DOMAIN given = 1..n
  BY <1>1
<1>3. ASSUME NEW i \in 1..n
      PROVE  /\ Entry(s, given[i].setpoint, given[i].readback, Explicit) \in Entries
             /\ Entry(s, given[i].setpoint, given[i].readback, Explicit)
                  = [setpoint |-> given[i].setpoint,
                     readback |-> IF s.ask.readbacks THEN given[i].readback ELSE NoPv, owner |-> Explicit]
  <2>1. given[i].setpoint \in PVs /\ given[i].readback \in PVs \cup {NoPv}
    <3>1. given[i].setpoint # NoPv
      BY <1>2 DEF Malformed
    <3>2. given[i] \in [setpoint : PVs \cup {NoPv}, readback : PVs \cup {NoPv}]
      <4>1. \A R : \A t \in Seq(R) : \A j \in 1..Len(t) : t[j] \in R
        OBVIOUS
      <4>. QED BY <1>1, <1>2, <4>1
    <3>. QED BY <3>1, <3>2
  <2>2. PICK a \in PVs, b \in PVs \cup {NoPv} : a = given[i].setpoint /\ b = given[i].readback
    BY <2>1
  <2>3. Entry(s, a, b, Explicit) = [setpoint |-> a, readback |-> IF s.ask.readbacks THEN b ELSE NoPv,
                                    owner |-> Explicit]
    BY DEF Entry, WantsReadbacks
  <2>. QED BY <2>2, <2>3 DEF Entries
<1>4. explicit \in Seq(Entries) /\ DOMAIN explicit = 1..n
  <2>. DEFINE Of(i) == Entry(s, given[i].setpoint, given[i].readback, Explicit)
  <2>1. explicit = [i \in 1..n |-> Of(i)] /\ \A i \in 1..n : Of(i) \in Entries
    BY <1>2, <1>3
  <2>. HIDE DEF Of, explicit
  <2>. QED BY <2>1
<1>5. ToSet(explicit) = GivenOffers(s)
  <2>. DEFINE Offer(p) == [setpoint |-> p.setpoint, readback |-> IF s.ask.readbacks THEN p.readback ELSE NoPv,
                           owner |-> Explicit]
  <2>1. ToSet(explicit) = {explicit[i] : i \in 1..n} /\ ToSet(given) = {given[i] : i \in 1..n}
    BY <1>2, <1>4 DEF ToSet
  <2>2. \A i \in 1..n : explicit[i] = Offer(given[i])
    BY <1>2, <1>3
  <2>3. GivenOffers(s) = {Offer(p) : p \in ToSet(given)}
    BY DEF GivenOffers
  <2>. HIDE DEF explicit, given, Offer
  <2>. QED BY <2>1, <2>2, <2>3
<1>6. ~ s.ask.readbacks => \A e \in GivenOffers(s) : e.readback = NoPv
  BY DEF GivenOffers
<1>. QED BY <1>4, <1>5, <1>6

(* A plan has exactly what is offered. *)
LEMMA PlanIs ==
  ASSUME NEW s, NEW listing \in Seq(Devices), s.ask \in Asks, s.ask.kind = "create", ~ Malformed(s.ask)
  PROVE  LET plan == PlanOf(s, listing)
             pvs == ToSet(plan.pvs)
         IN  /\ plan \in Plans
             /\ pvs \subseteq AllOffers(s, listing)
             /\ \A o \in AllOffers(s, listing) : \E p \in pvs : p.setpoint = o.setpoint
             /\ \A p, q \in pvs : p.setpoint = q.setpoint => p = q
             /\ Len(plan.pvs) = Cardinality(pvs)
             /\ ~ s.ask.readbacks => \A p \in pvs : p.readback = NoPv
             /\ \A w \in ToSet(s.ask.devices) :
                  ToSet(Offers(s, listing, w)) = {} => \E d \in plan.skipped : Lower[d] = Lower[w]
<1>. DEFINE wanted == s.ask.devices
            given == s.ask.pvs
            offers == [i \in DOMAIN wanted |-> Offers(s, listing, wanted[i])]
            offered == FlattenSeq(offers)
            explicit == [i \in DOMAIN given |-> Entry(s, given[i].setpoint, given[i].readback, Explicit)]
            all == offered \o explicit
            added == FoldLeft(Add, <<>>, all)
            plan == PlanOf(s, listing)
<1>1. wanted \in Seq(Names)
  BY AskIs
<1>2. PICK n \in Nat : n = Len(wanted) /\ DOMAIN wanted = 1..n
  BY <1>1
<1>3. offered \in Seq(Entries) /\ ToSet(offered) = UNION {ToSet(Offers(s, listing, w)) : w \in ToSet(wanted)}
  <2>1. \A i \in 1..n : offers[i] \in Seq(Entries) /\ offers[i] = Offers(s, listing, wanted[i])
    BY <1>2, OffersIs
  <2>2. DOMAIN offers = 1..n /\ Len(offers) = n
    BY <1>2
  <2>. HIDE DEF offers
  <2>3. FlattenSeq(offers) \in Seq(Entries) /\ ToSet(FlattenSeq(offers)) = UNION {ToSet(offers[i]) : i \in 1..n}
    BY <2>1, <2>2, FlattenRange
  <2>4. ToSet(wanted) = {wanted[i] : i \in 1..n}
    BY <1>2 DEF ToSet
  <2>5. UNION {ToSet(offers[i]) : i \in 1..n} = UNION {ToSet(Offers(s, listing, w)) : w \in ToSet(wanted)}
    BY <2>1, <2>4
  <2>. QED BY <2>3, <2>5 DEF offers
<1>4. explicit \in Seq(Entries) /\ ToSet(explicit) = GivenOffers(s)
  BY GivenIs
<1>5. plan.pvs = added /\ plan.skipped = Skipped(s, listing) /\ DOMAIN plan = {"pvs", "skipped"}
      /\ plan = [pvs |-> added, skipped |-> Skipped(s, listing)]
  BY DEF PlanOf
<1>. HIDE DEF wanted, given, offered, explicit, plan
<1>6. all \in Seq(Entries) /\ ToSet(all) = AllOffers(s, listing)
  <2>1. \A a, b \in Seq(Entries) : a \o b \in Seq(Entries) /\ ToSet(a \o b) = ToSet(a) \cup ToSet(b)
    BY ConcatRange
  <2>2. PICK a \in Seq(Entries), b \in Seq(Entries) : a = offered /\ b = explicit
    BY <1>3, <1>4
  <2>3. all = a \o b
    BY <2>2
  <2>. HIDE DEF all
  <2>4. all \in Seq(Entries) /\ ToSet(all) = ToSet(a) \cup ToSet(b)
    BY <2>1, <2>3
  <2>5. ToSet(all) = ToSet(offered) \cup ToSet(explicit)
    BY <2>2, <2>4
  <2>6. PICK A : A = UNION {ToSet(Offers(s, listing, w)) : w \in ToSet(wanted)}
    OBVIOUS
  <2>7. AllOffers(s, listing) = A \cup GivenOffers(s)
    BY <2>6 DEF AllOffers, wanted
  <2>8. ToSet(offered) = A
    BY <1>3, <2>6
  <2>. QED BY <1>4, <2>4, <2>5, <2>7, <2>8
<1>. HIDE DEF all
<1>7. /\ added \in Seq(Entries) /\ ToSet(added) \subseteq ToSet(all)
      /\ \A o \in ToSet(all) : \E p \in ToSet(added) : p.setpoint = o.setpoint
      /\ \A i, j \in DOMAIN added : added[i].setpoint = added[j].setpoint => i = j
  BY <1>6, AddedAll
<1>. HIDE DEF added
<1>8. \A p, q \in ToSet(added) : p.setpoint = q.setpoint => p = q
  BY <1>7 DEF ToSet
<1>9. Len(added) = Cardinality(ToSet(added))
  <2>1. \A i, j \in DOMAIN added : added[i] = added[j] => i = j
    BY <1>7
  <2>. QED BY <1>7, <2>1, DistinctLen
<1>10. ~ s.ask.readbacks => \A p \in ToSet(added) : p.readback = NoPv
  <2>1. ASSUME ~ s.ask.readbacks, NEW w PROVE \A e \in ToSet(Offers(s, listing, w)) : e.readback = NoPv
    BY <2>1, OffersIs
  <2>2. ASSUME ~ s.ask.readbacks, NEW e \in GivenOffers(s) PROVE e.readback = NoPv
    BY <2>2, GivenIs
  <2>3. ASSUME ~ s.ask.readbacks, NEW e \in AllOffers(s, listing) PROVE e.readback = NoPv
    <3>1. CASE e \in GivenOffers(s)
      BY <2>2, <2>3, <3>1
    <3>2. CASE e \notin GivenOffers(s)
      <4>1. PICK w \in ToSet(s.ask.devices) : e \in ToSet(Offers(s, listing, w))
        BY <2>3, <3>2 DEF AllOffers
      <4>. QED BY <2>1, <2>3, <4>1
    <3>. QED BY <3>1, <3>2
  <2>. QED BY <1>6, <1>7, <2>3
<1>. USE DEF wanted
<1>11. ASSUME NEW w \in ToSet(wanted), ToSet(Offers(s, listing, w)) = {}
       PROVE  \E d \in Skipped(s, listing) : Lower[d] = Lower[w]
  <2>1. CASE Alike(listing, w) = {}
    BY <2>1 DEF Skipped
  <2>2. CASE Alike(listing, w) # {}
    <3>1. Offers(s, listing, w) = <<>>
      <4>1. PICK t \in Seq(Entries) : t = Offers(s, listing, w)
        BY OffersIs
      <4>2. ToSet(t) = {}
        BY <1>11, <4>1
      <4>3. DOMAIN t = {}
        BY <4>2 DEF ToSet
      <4>4. PICK k \in Nat : k = Len(t) /\ DOMAIN t = 1..k
        OBVIOUS
      <4>5. k = 0
        BY <4>3, <4>4
      <4>6. t = <<>>
        BY <4>4, <4>5
      <4>. QED BY <4>1, <4>6
    <3>2. DeviceOf(listing, w).name \in Skipped(s, listing)
      BY <2>2, <3>1 DEF Skipped
    <3>. QED BY <2>2, <3>2, DeviceOfIs
  <2>. QED BY <2>1, <2>2
<1>12. Skipped(s, listing) \subseteq Names
  <2>1. ToSet(wanted) \subseteq Names
    BY <1>1 DEF ToSet
  <2>2. \A w \in ToSet(wanted) : Alike(listing, w) # {} => DeviceOf(listing, w).name \in Names
    BY DeviceOfIs DEF IsDevice
  <2>. QED BY <2>1, <2>2 DEF Skipped
<1>13. plan \in Plans
  BY <1>5, <1>7, <1>12 DEF Plans, Entries
<1>. QED BY <1>5, <1>6, <1>7, <1>8, <1>9, <1>10, <1>11, <1>13 DEF plan, wanted

(* It depends on what is asked for only. *)
LEMMA SameAsk ==
  ASSUME NEW s, NEW t, NEW listing, s.ask = t.ask
  PROVE  PlanOf(s, listing) = PlanOf(t, listing)
<1>1. \A a, b, c : Entry(s, a, b, c) = Entry(t, a, b, c)
  BY DEF Entry, WantsReadbacks
<1>2. \A w : Offers(s, listing, w) = Offers(t, listing, w)
  BY <1>1 DEF Offers
<1>3. Skipped(s, listing) = Skipped(t, listing)
  BY <1>2 DEF Skipped
<1>. QED BY <1>1, <1>2, <1>3 DEF PlanOf

----
(* Paths. *)

(* What a part of a path leads to answers to it, in that folder. *)
LEMMA ChildIs ==
  ASSUME IsTree(tree), NEW folder, NEW type, NEW name, Matching(folder, type, name) # {}
  PROVE  LET i == Min(Matching(folder, type, name))
         IN  i \in Ids \ {Root} /\ tree[i] # NoNode /\ tree[i].parent = folder /\ Answers(i, type, name)
<1>1. PICK found : found = Matching(folder, type, name)
  OBVIOUS
<1>2. found \subseteq Ids \ {Root}
  BY <1>1 DEF Matching, Children
<1>3. found \subseteq Nat
  BY <1>2, TreeAssumption
<1>4. PICK i \in found : i = Min(found)
  BY <1>1, <1>3, MinIs
<1>5. i \in Children(folder) /\ tree[i].type = type /\ tree[i].parent = folder /\ tree[i] # NoNode
  BY <1>1 DEF Matching, Children
<1>6. Lower[tree[i].name] = Lower[name]
  BY <1>1 DEF Matching
<1>7. (\E j \in Children(folder) : tree[j].type = type /\ tree[j].name = name) => tree[i].name = name
  BY <1>1 DEF Matching
<1>. QED BY <1>1, <1>2, <1>4, <1>5, <1>6, <1>7 DEF Answers

(* A path leads to one folder. *)
LEMMA WayIsUnique ==
  ASSUME NEW parts, NEW k \in Nat, NEW f, NEW g, LeadsTo(parts, k, f), LeadsTo(parts, k, g)
  PROVE  f = g
<1>1. PICK a : IsWay(a, parts, k) /\ a[k] = f
  BY DEF LeadsTo
<1>2. PICK b : IsWay(b, parts, k) /\ b[k] = g
  BY DEF LeadsTo
<1>. DEFINE S == {j \in 0..k : a[j] = b[j]}
<1>3. 0 \in S
  BY <1>1, <1>2 DEF IsWay
<1>4. ASSUME NEW j \in 0..(k - 1), j \in S PROVE j + 1 \in S
  <2>1. j + 1 \in 1..k /\ (j + 1) - 1 = j /\ j + 1 \in 0..k
    OBVIOUS
  <2>2. a[j + 1] = Min(Matching(a[j], "FOLDER", parts[j + 1]))
    BY <1>1, <2>1 DEF IsWay
  <2>3. b[j + 1] = Min(Matching(b[j], "FOLDER", parts[j + 1]))
    BY <1>2, <2>1 DEF IsWay
  <2>. QED BY <1>4, <2>1, <2>2, <2>3
<1>5. 0..k \subseteq S
  <2>. HIDE DEF S
  <2>. QED BY <1>3, <1>4, InductionTo
<1>6. k \in 0..k
  OBVIOUS
<1>. QED BY <1>1, <1>2, <1>5, <1>6

(* One part further on the way. *)
LEMMA WayGoesOn ==
  ASSUME IsTree(tree), NEW parts, NEW k \in Nat, NEW f, LeadsTo(parts, k, f),
         Matching(f, "FOLDER", parts[k + 1]) # {}
  PROVE  LeadsTo(parts, k + 1, Min(Matching(f, "FOLDER", parts[k + 1])))
<1>1. PICK a : IsWay(a, parts, k) /\ a[k] = f
  BY DEF LeadsTo
<1>2. PICK g \in Ids : g = Min(Matching(f, "FOLDER", parts[k + 1]))
  BY ChildIs
<1>. DEFINE b == [j \in 0..(k + 1) |-> IF j = k + 1 THEN g ELSE a[j]]
<1>3. a \in [0..k -> Ids] /\ a[0] = Root
  BY <1>1 DEF IsWay
<1>4. b \in [0..(k + 1) -> Ids] /\ b[0] = Root
  BY <1>3
<1>5. \A j \in 0..k : b[j] = a[j]
  OBVIOUS
<1>6. b[k + 1] = g
  OBVIOUS
<1>. HIDE DEF b
<1>7. ASSUME NEW j \in 1..(k + 1)
      PROVE  LET found == Matching(b[j - 1], "FOLDER", parts[j]) IN found # {} /\ b[j] = Min(found)
  <2>1. CASE j = k + 1
    <3>1. b[j - 1] = f
      BY <1>1, <1>5, <2>1
    <3>. QED BY <1>2, <1>6, <2>1, <3>1
  <2>2. CASE j # k + 1
    <3>1. j \in 1..k /\ j \in 0..k /\ j - 1 \in 0..k
      BY <2>2
    <3>2. b[j - 1] = a[j - 1] /\ b[j] = a[j]
      BY <1>5, <3>1
    <3>3. Matching(a[j - 1], "FOLDER", parts[j]) # {} /\ a[j] = Min(Matching(a[j - 1], "FOLDER", parts[j]))
      BY <1>1, <3>1 DEF IsWay
    <3>. QED BY <3>2, <3>3
  <2>. QED BY <2>1, <2>2
<1>8. IsWay(b, parts, k + 1)
  BY <1>4, <1>7 DEF IsWay
<1>. QED BY <1>2, <1>4, <1>6, <1>8 DEF LeadsTo

(* The way begins at the root. *)
LEMMA WayBegins ==
  ASSUME NEW parts PROVE LeadsTo(parts, 0, Root)
<1>. DEFINE a == [j \in 0..0 |-> Root]
<1>1. a \in [0..0 -> Ids] /\ a[0] = Root
  BY TreeAssumption
<1>2. 1..0 = {}
  OBVIOUS
<1>. HIDE DEF a
<1>3. IsWay(a, parts, 0)
  BY <1>1, <1>2 DEF IsWay
<1>. QED BY <1>1, <1>3 DEF LeadsTo

(* The way to a folder follows the path. *)
LEMMA WayIsPath ==
  ASSUME IsTree(tree), NEW parts \in Seq(Names), parts # <<>>, NEW f, LeadsTo(parts, Len(parts), f)
  PROVE  IsAtPath(f, parts)
<1>1. PICK n \in Nat : n = Len(parts) /\ n # 0
  OBVIOUS
<1>2. PICK a : IsWay(a, parts, n) /\ a[n] = f
  BY <1>1 DEF LeadsTo
<1>. DEFINE b == [j \in 1..n |-> a[j]]
<1>3. ASSUME NEW j \in 1..n
      PROVE  /\ a[j] \in Ids \ {Root} /\ tree[a[j]] # NoNode
             /\ tree[a[j]].parent = IF j = 1 THEN Root ELSE a[j - 1]
             /\ Answers(a[j], "FOLDER", parts[j])
  <2>1. Matching(a[j - 1], "FOLDER", parts[j]) # {} /\ a[j] = Min(Matching(a[j - 1], "FOLDER", parts[j]))
    BY <1>2 DEF IsWay
  <2>2. a[j] \in Ids \ {Root} /\ tree[a[j]] # NoNode /\ tree[a[j]].parent = a[j - 1]
        /\ Answers(a[j], "FOLDER", parts[j])
    BY <2>1, ChildIs
  <2>3. a[0] = Root /\ (j = 1 => j - 1 = 0)
    BY <1>2 DEF IsWay
  <2>. QED BY <2>2, <2>3
<1>4. n \in 1..n
  BY <1>1
<1>5. b \in [1..n -> Ids \ {Root}] /\ b[n] = f
  BY <1>2, <1>3, <1>4
<1>6. ASSUME NEW j \in 1..n
      PROVE  /\ tree[b[j]] # NoNode
             /\ tree[b[j]].parent = IF j = 1 THEN Root ELSE b[j - 1]
             /\ Answers(b[j], "FOLDER", parts[j])
  <2>1. b[j] = a[j] /\ (j # 1 => j - 1 \in 1..n)
    OBVIOUS
  <2>2. j # 1 => b[j - 1] = a[j - 1]
    BY <2>1
  <2>. HIDE DEF b
  <2>. QED BY <1>3, <2>1, <2>2
<1>. HIDE DEF b
<1>. QED BY <1>1, <1>5, <1>6 DEF IsAtPath

----
(* The states that a call is put into. *)

(* The plan of all devices depends on what is asked for only. *)
LEMMA SameFull ==
  ASSUME NEW s, NEW t, s.ask = t.ask
  PROVE  FullPlan(s) = FullPlan(t)
BY SameAsk DEF FullPlan

(* A call begins with the empty plan. *)
LEMMA NothingIsAPlan == NothingPlanned \in Plans
BY DEF NothingPlanned, Plans

(* A call that has started, and has nothing yet. *)
LEMMA StartedIs ==
  ASSUME NEW ask \in Asks
  PROVE  /\ Started(ask) \in States /\ Started(ask).ask = ask /\ ~ Started(ask).confirmed
         /\ Started(ask).plan = NothingPlanned /\ Started(ask).node = NoNode
BY NothingIsAPlan, TreeAssumption DEF Started, States

(* An ended call is in order. *)
LEMMA EndedIs ==
  ASSUME NEW code \in {"declined", "validation_error", "query_error", "refused"}, NEW q
  PROVE  Sound(Ended(code), q)
BY DEF Sound, Endings

(* A call that has found its folder goes on in order. *)
LEMMA ArrivedIs ==
  ASSUME NEW s \in States, NEW f \in Ids, NEW q \in BOOLEAN,
         Ready(s, q), HasPlan(s, q), s.ask.kind = "find" => s.ask.folder.by = "path",
         q => IsPlace(f, s.ask)
  PROVE  Sound(Arrived(s, f), q)
<1>. DEFINE next == IF s.ask.kind = "find" THEN "picking" ELSE IF s.confirmed THEN "creating" ELSE "shown"
<1>1. PICK sh \in [plan : Plans, folder : Ids \cup {NoNode}] :
        sh = IF next = "shown" THEN [plan |-> s.plan, folder |-> f] ELSE s.shown
  BY DEF States
<1>2. PICK t : t = [s EXCEPT !.pc = next, !.at = f, !.shown = sh]
  OBVIOUS
<1>3. t = Arrived(s, f)
  BY <1>1, <1>2 DEF Arrived
<1>4. s.ask.kind \in {"create", "find"}
  BY AskIs DEF States
<1>5. /\ t \in States /\ t.pc = next /\ t.at = f /\ t.shown = sh
      /\ t.ask = s.ask /\ t.confirmed = s.confirmed /\ t.plan = s.plan /\ t.listing = s.listing /\ t.node = s.node
  BY <1>2 DEF States
<1>6. FullPlan(t) = FullPlan(s) /\ PlanOf(t, s.listing) = PlanOf(s, s.listing)
  BY <1>5, SameFull, SameAsk
<1>7. HasPlan(t, q)
  BY <1>5, <1>6 DEF HasPlan
<1>8. q => (next = "shown" \/ s.confirmed => ShownRight(t))
  <2>1. CASE next = "shown"
    BY <1>1, <1>4, <1>5, <1>6, <2>1 DEF ShownRight, HasPlan
  <2>2. CASE next # "shown"
    BY <1>1, <1>5, <1>6, <2>2 DEF ShownRight, Ready
  <2>. QED BY <2>1, <2>2
<1>9. Ready(t, q)
  BY <1>5, <1>8 DEF Ready
<1>10. AtWork(t, q)
  BY <1>4, <1>5, <1>7, <1>8, <1>9 DEF AtWork
<1>. QED BY <1>3, <1>5, <1>10 DEF Sound

(* A call that has its plan, if it needs one, looks for its folder. *)
LEMMA ToFolderIs ==
  ASSUME NEW s \in States, NEW q \in BOOLEAN, Ready(s, q), HasPlan(s, q)
  PROVE  Sound(ToFolder(s), q)
<1>1. s.ask.folder.by = "id" \/ (s.ask.folder.by = "path" /\ s.ask.folder.parts \in Seq(Names))
  BY AskIs DEF States
<1>2. CASE s.ask.folder.by = "id"
  <2>1. PICK t : t = [s EXCEPT !.pc = "getting"]
    OBVIOUS
  <2>2. /\ t \in States /\ t.pc = "getting" /\ t.ask = s.ask /\ t.confirmed = s.confirmed /\ t.plan = s.plan
        /\ t.listing = s.listing /\ t.node = s.node /\ t.shown = s.shown
    BY <2>1 DEF States
  <2>3. FullPlan(t) = FullPlan(s) /\ PlanOf(t, s.listing) = PlanOf(s, s.listing)
    BY <2>2, SameFull, SameAsk
  <2>4. HasPlan(t, q) /\ Ready(t, q)
    BY <2>2, <2>3 DEF HasPlan, Ready, ShownRight
  <2>5. AtWork(t, q)
    BY <1>2, <2>2, <2>4 DEF AtWork
  <2>. QED BY <1>2, <2>1, <2>2, <2>5 DEF Sound, ToFolder
<1>3. CASE s.ask.folder.by = "path" /\ s.ask.folder.parts # <<>>
  <2>0. PICK parts \in Seq(Names) : parts = s.ask.folder.parts /\ parts # <<>>
    BY <1>1, <1>3
  <2>1. PICK t : t = [s EXCEPT !.pc = "walking", !.at = Root, !.left = parts]
    OBVIOUS
  <2>2. /\ t \in States /\ t.pc = "walking" /\ t.ask = s.ask /\ t.confirmed = s.confirmed /\ t.plan = s.plan
        /\ t.listing = s.listing /\ t.node = s.node /\ t.shown = s.shown /\ t.at = Root /\ t.left = parts
    BY <2>1, TreeAssumption DEF States
  <2>3. FullPlan(t) = FullPlan(s) /\ PlanOf(t, s.listing) = PlanOf(s, s.listing)
    BY <2>2, SameFull, SameAsk
  <2>4. HasPlan(t, q) /\ Ready(t, q)
    BY <2>2, <2>3 DEF HasPlan, Ready, ShownRight
  <2>5. OnTheWay(t)
    <3>1. PICK n \in Nat : n = Len(parts) /\ n > 0
      BY <2>0
    <3>2. LeadsTo(parts, 0, Root) /\ 0 \in 0..n
      BY WayBegins
    <3>3. n = 0 + n /\ \A i \in 1..n : parts[i] = parts[0 + i]
      OBVIOUS
    <3>. QED BY <2>0, <2>2, <3>1, <3>2, <3>3 DEF OnTheWay
  <2>6. AtWork(t, q)
    BY <1>3, <2>0, <2>2, <2>4, <2>5 DEF AtWork
  <2>. QED BY <1>3, <2>0, <2>1, <2>2, <2>6 DEF Sound, ToFolder
<1>4. CASE s.ask.folder.by = "path" /\ s.ask.folder.parts = <<>>
  <2>1. ToFolder(s) = Ended("validation_error") \/ ToFolder(s) = Ended("query_error")
    BY <1>4 DEF ToFolder
  <2>. QED BY <2>1, EndedIs
<1>. QED BY <1>1, <1>2, <1>3, <1>4

(* A call is planned from a listing, from all devices if it is quiet. *)
LEMMA PlannedIs ==
  ASSUME NEW s \in States, NEW listing \in Seq(Devices), NEW q \in BOOLEAN,
         s.ask.kind = "create", Ready(s, q),
         q => listing = IF s.ask.devices # <<>> THEN inventory ELSE <<>>
  PROVE  Sound(Planned(s, listing), q)
<1>1. CASE Malformed(s.ask) \/ PlanOf(s, listing).pvs = <<>>
  <2>1. Planned(s, listing) = Ended("validation_error")
    BY <1>1 DEF Planned, States
  <2>. QED BY <2>1, EndedIs
<1>2. CASE ~ Malformed(s.ask) /\ PlanOf(s, listing).pvs # <<>>
  <2>1. PICK p \in Plans : p = PlanOf(s, listing)
    BY <1>2, PlanIs DEF States
  <2>2. PICK t : t = [s EXCEPT !.listing = listing, !.plan = p]
    OBVIOUS
  <2>3. /\ t \in States /\ t.pc = s.pc /\ t.ask = s.ask /\ t.confirmed = s.confirmed /\ t.plan = p
        /\ t.listing = listing /\ t.node = s.node /\ t.shown = s.shown
    BY <2>2 DEF States
  <2>4. FullPlan(t) = FullPlan(s) /\ PlanOf(t, listing) = p
    BY <2>1, <2>3, SameFull, SameAsk
  <2>5. q => p = FullPlan(s)
    BY <2>1 DEF FullPlan
  <2>6. HasPlan(t, q) /\ Ready(t, q)
    BY <1>2, <2>3, <2>4, <2>5 DEF HasPlan, Ready, ShownRight
  <2>7. Planned(s, listing) = ToFolder(t)
    BY <1>2, <2>1, <2>2, <2>3 DEF Planned
  <2>. QED BY <2>3, <2>6, <2>7, ToFolderIs
<1>. QED BY <1>1, <1>2

(* A call goes for its plan, or needs none. *)
LEMMA ToPlanIs ==
  ASSUME NEW s \in States, NEW q \in BOOLEAN, s.plan = NothingPlanned, Ready(s, q)
  PROVE  Sound(ToPlan(s), q)
<1>1. s.ask.kind \in {"create", "find"}
  BY AskIs DEF States
<1>2. CASE s.ask.kind = "find"
  <2>1. HasPlan(s, q) /\ ToPlan(s) = ToFolder(s)
    BY <1>2 DEF HasPlan, ToPlan
  <2>. QED BY <2>1, ToFolderIs
<1>3. CASE s.ask.kind = "create" /\ s.ask.devices = <<>>
  <2>1. ToPlan(s) = Planned(s, <<>>) /\ <<>> \in Seq(Devices)
    BY <1>3 DEF ToPlan
  <2>. QED BY <1>3, <2>1, PlannedIs
<1>4. CASE s.ask.kind = "create" /\ s.ask.devices # <<>>
  <2>1. PICK t : t = [s EXCEPT !.pc = "listing"]
    OBVIOUS
  <2>2. /\ t \in States /\ t.pc = "listing" /\ t.ask = s.ask /\ t.confirmed = s.confirmed /\ t.plan = s.plan
        /\ t.node = s.node /\ t.shown = s.shown
    BY <2>1 DEF States
  <2>3. Ready(t, q)
    BY <2>2, SameFull DEF Ready, ShownRight
  <2>4. AtWork(t, q)
    BY <1>4, <2>2, <2>3 DEF AtWork
  <2>. QED BY <1>4, <2>1, <2>2, <2>4 DEF ToPlan, Sound
<1>. QED BY <1>1, <1>2, <1>3, <1>4

----
(* Each step. *)

(* As long as the nodes stay, a path leads to the same folder, *)
LEMMA LeadsToSame ==
  ASSUME tree' = tree, NEW parts, NEW k, NEW f
  PROVE  LeadsTo(parts, k, f)' <=> LeadsTo(parts, k, f)
<1>1. ASSUME NEW chain PROVE IsWay(chain, parts, k)' <=> IsWay(chain, parts, k)
  BY DEF IsWay, Matching, Children
<1>. QED BY <1>1 DEF LeadsTo

(* a node answers to the same names, *)
LEMMA AnswersSame ==
  ASSUME tree' = tree, NEW i, NEW type, NEW name
  PROVE  Answers(i, type, name)' <=> Answers(i, type, name)
BY DEF Answers, Children

(* and the folder that is asked for is the same. *)
LEMMA PlaceSame ==
  ASSUME tree' = tree, NEW f, NEW ask
  PROVE  IsPlace(f, ask)' <=> IsPlace(f, ask)
BY LeadsToSame DEF IsPlace

(* Nothing changes around a call: it stays in order. *)
LEMMA EnvSame ==
  ASSUME inventory' = inventory, tree' = tree, NEW s, NEW q, Sound(s, q)
  PROVE  Sound(s, q)'
<1>1. FullPlan(s)' = FullPlan(s)
  BY DEF FullPlan
<1>2. ShownRight(s)' <=> ShownRight(s)
  BY <1>1, PlaceSame DEF ShownRight
<1>3. Ready(s, q)' <=> Ready(s, q)
  BY <1>2 DEF Ready
<1>4. HasPlan(s, q)' <=> HasPlan(s, q)
  BY <1>1 DEF HasPlan
<1>5. OnTheWay(s)' <=> OnTheWay(s)
  BY LeadsToSame DEF OnTheWay
<1>6. NodeIsRight(s)' <=> NodeIsRight(s)
  BY PlaceSame, AnswersSame DEF NodeIsRight
<1>7. IsPlace(s.at, s.ask)' <=> IsPlace(s.at, s.ask)
  BY PlaceSame
<1>8. AtWork(s, q)' <=> AtWork(s, q)
  BY <1>2, <1>3, <1>4, <1>5, <1>6, <1>7 DEF AtWork
<1>. QED BY <1>8 DEF Sound

(* Whatever changes, a call that is not quiet is in order. *)
LEMMA NotQuiet ==
  ASSUME NEW s, NEW q, Sound(s, q)
  PROVE  Sound(s, FALSE) /\ Sound(s, FALSE)'
<1>1. Ready(s, q) => Ready(s, FALSE) /\ Ready(s, FALSE)'
  BY DEF Ready
<1>2. HasPlan(s, q) => HasPlan(s, FALSE) /\ HasPlan(s, FALSE)'
  BY DEF HasPlan
<1>3. AtWork(s, q) => AtWork(s, FALSE) /\ AtWork(s, FALSE)'
  BY <1>1, <1>2 DEF AtWork
<1>. QED BY <1>3 DEF Sound

(* A call in its state, and whether it is quiet. *)
LEMMA SoundHere ==
  ASSUME NEW d \in Calls, NEW t, NEW r, t = call'[d],
         \/ Sound(t, r)' /\ (d \in quiet' <=> r)
         \/ Sound(t, FALSE)' /\ d \notin quiet'
  PROVE  Sound(call[d], d \in quiet)'
BY DEF Sound, AtWork, Ready, HasPlan

(* The other way round. *)
LEMMA SoundThere ==
  ASSUME NEW d \in Calls, NEW t, NEW r, t = call[d], r = (d \in quiet), Sound(call[d], d \in quiet)
  PROVE  Sound(t, r)
BY DEF Sound, AtWork, Ready, HasPlan

(* A call becomes another that is in order, and nothing changes around it. *)
LEMMA CallStep ==
  ASSUME IInv, NEW c \in Calls, NEW s, Becomes(c, s), UNCHANGED <<inventory, tree, changes>>,
         quiet' \subseteq Calls, \A d \in Calls \ {c} : d \in quiet' => d \in quiet,
         NEW q \in BOOLEAN, q <=> c \in quiet', Sound(s, q)
  PROVE  IInv'
<1>1. DOMAIN call' = Calls /\ call'[c] = s /\ \A d \in Calls \ {c} : call'[d] = call[d]
  BY DEF Becomes, IInv
<1>2. IsTree(tree)' /\ inventory' \in Inventories /\ changes' \in 0..MaxChanges
  BY DEF IInv, IsTree
<1>3. ASSUME NEW d \in Calls PROVE Sound(call[d], d \in quiet)'
  <2>1. CASE d = c
    <3>1. Sound(s, q)'
      BY EnvSame
    <3>2. s = call'[d] /\ (q <=> d \in quiet')
      BY <1>1, <2>1
    <3>3. q = TRUE \/ q = FALSE
      OBVIOUS
    <3>. QED BY <3>1, <3>2, <3>3, SoundHere
  <2>2. CASE d # c
    <3>1. PICK t : t = call[d]
      OBVIOUS
    <3>2. PICK r : r = (d \in quiet)
      OBVIOUS
    <3>3. Sound(t, r)
      BY <3>1, <3>2, SoundThere DEF IInv
    <3>4. Sound(t, r)' /\ Sound(t, FALSE)'
      BY <3>3, EnvSame, NotQuiet
    <3>5. t = call'[d] /\ (d \in quiet' => r)
      BY <1>1, <2>2, <3>1, <3>2
    <3>6. CASE d \in quiet'
      <4>1. r /\ (d \in quiet' <=> r)
        BY <3>5, <3>6
      <4>. QED BY <3>4, <3>5, <4>1, SoundHere
    <3>7. CASE d \notin quiet'
      BY <3>4, <3>5, <3>7, SoundHere
    <3>. QED BY <3>6, <3>7
  <2>. QED BY <2>1, <2>2
<1>4. \A d \in Calls : Sound(call[d], d \in quiet)'
  BY <1>3
<1>. QED BY <1>1, <1>2, <1>4 DEF IInv

(* What is listed are devices, whether in full or without a workspace. *)
LEMMA InventoryIs ==
  ASSUME IInv
  PROVE  inventory \in Seq(Devices) /\ \A w : Without(w) \in Seq(Devices)
<1>1. inventory \in Seq(ToSet(inventory)) /\ ToSet(inventory) \subseteq Devices
  BY InventoryAssumption DEF IInv, IsSeq, Devices
<1>2. inventory \in Seq(Devices)
  BY <1>1
<1>3. PICK n \in Nat : n = Len(inventory) /\ DOMAIN inventory = 1..n
  BY <1>2
<1>4. ASSUME NEW w PROVE Without(w) \in Seq(Devices)
  <2>. DEFINE seqs == [i \in DOMAIN inventory |-> IF inventory[i].workspace = w THEN <<>> ELSE <<inventory[i]>>]
  <2>1. \A i \in 1..n : seqs[i] \in Seq(Devices)
    BY <1>2, <1>3
  <2>2. DOMAIN seqs = 1..n /\ Len(seqs) = n
    BY <1>3
  <2>. HIDE DEF seqs
  <2>3. FlattenSeq(seqs) \in Seq(Devices)
    BY <2>1, <2>2, FlattenRange
  <2>. QED BY <2>3 DEF seqs, Without
<1>. QED BY <1>2, <1>4

(* A call that has begun. *)
LEMMA AtWorkIs ==
  ASSUME IInv, NEW c \in Calls, NEW q \in BOOLEAN, q <=> c \in quiet, call[c].pc \notin {"idle", "ended"}
  PROVE  call[c] \in States /\ call[c].pc # "planning" /\ AtWork(call[c], q)
<1>1. Sound(call[c], c \in quiet)
  BY DEF IInv
<1>2. call[c] # Idle /\ call[c] \notin Endings
  BY DEF Idle, Endings, Ended
<1>3. call[c] \in States /\ call[c].pc # "planning" /\ AtWork(call[c], c \in quiet)
  BY <1>1, <1>2 DEF Sound
<1>4. AtWork(call[c], q)
  BY <1>3 DEF AtWork, Ready, HasPlan
<1>. QED BY <1>3, <1>4

(* A call begins. *)
LEMMA BeginStep ==
  ASSUME IInv, NEW c \in Calls, NEW ask \in Asks, Begin(c, ask)
  PROVE  IInv'
<1>1. PICK s \in States : s = Started(ask) /\ s.ask = ask /\ ~ s.confirmed /\ s.plan = NothingPlanned /\ s.node = NoNode
  BY StartedIs
<1>2. Ready(s, TRUE)
  BY <1>1 DEF Ready
<1>3. Sound(ToPlan(s), TRUE)
  BY <1>1, <1>2, ToPlanIs
<1>4. Becomes(c, ToPlan(s)) /\ UNCHANGED <<inventory, tree, changes>> /\ quiet' = quiet \cup {c}
  BY <1>1 DEF Begin
<1>5. quiet' \subseteq Calls /\ (\A d \in Calls \ {c} : d \in quiet' => d \in quiet) /\ c \in quiet'
  BY <1>4 DEF IInv
<1>. QED BY <1>3, <1>4, <1>5, CallStep

(* The devices are listed, perhaps not all of them. *)
LEMMA ListsStep ==
  ASSUME IInv, NEW c \in Calls, Lists(c)
  PROVE  IInv'
<1>1. PICK s : s = call[c]
  OBVIOUS
<1>0. PICK was \in BOOLEAN : was <=> c \in quiet
  OBVIOUS
<1>2. s \in States /\ s.pc = "listing" /\ AtWork(s, was)
  BY <1>0, <1>1, AtWorkIs DEF Lists
<1>3. PICK listing \in {inventory} \cup {Without(w) : w \in Workspaces} :
        /\ Becomes(c, Planned(s, listing))
        /\ quiet' = IF listing = inventory THEN quiet ELSE quiet \ {c}
  BY <1>1 DEF Lists
<1>4. listing \in Seq(Devices)
  BY InventoryIs
<1>5. PICK q \in BOOLEAN : q <=> c \in quiet'
  OBVIOUS
<1>6. q => was /\ listing = inventory
  BY <1>0, <1>3, <1>5
<1>7. /\ s.ask.kind = "create" /\ s.ask.devices # <<>> /\ Ready(s, was)
  BY <1>2 DEF AtWork
<1>8. Ready(s, q)
  BY <1>6, <1>7 DEF Ready
<1>9. Sound(Planned(s, listing), q)
  BY <1>2, <1>4, <1>6, <1>7, <1>8, PlannedIs
<1>10. quiet' \subseteq Calls /\ \A d \in Calls \ {c} : d \in quiet' => d \in quiet
  BY <1>3 DEF IInv
<1>11. UNCHANGED <<inventory, tree, changes>>
  BY DEF Lists
<1>. QED BY <1>3, <1>5, <1>9, <1>10, <1>11, CallStep

(* A step of a call that changes nothing else. *)
LEMMA QuietStep ==
  ASSUME IInv, NEW c \in Calls, NEW s, Becomes(c, s), UNCHANGED <<inventory, tree, changes, quiet>>,
         NEW q \in BOOLEAN, q <=> c \in quiet, Sound(s, q)
  PROVE  IInv'
<1>1. quiet' \subseteq Calls /\ (\A d \in Calls \ {c} : d \in quiet' => d \in quiet) /\ (q <=> c \in quiet')
  BY DEF IInv
<1>. QED BY <1>1, CallStep

(* A node that was found is the answer. *)
LEMMA DoneIs ==
  ASSUME NEW s \in States, NEW i \in Ids, NEW q \in BOOLEAN, HasPlan(s, q),
         s.ask.kind = "find", q /\ s.ask.folder.by = "path" =>
                                IsPlace(tree[i].parent, s.ask) /\ Answers(i, "CONFIGURATION", s.ask.name)
  PROVE  Sound(Done(s, i), q)
<1>1. PICK t : t = Done(s, i)
  OBVIOUS
<1>2. t \in States /\ t.pc = "done" /\ t.node = i /\ t.ask = s.ask /\ t.plan = s.plan /\ t.listing = s.listing
  BY <1>1 DEF Done, States
<1>3. HasPlan(t, q)
  BY <1>2 DEF HasPlan
<1>4. q => NodeIsRight(t)
  BY <1>2 DEF NodeIsRight
<1>5. AtWork(t, q)
  BY <1>2, <1>3, <1>4 DEF AtWork
<1>. QED BY <1>1, <1>2, <1>5 DEF Sound

(* A node is taken by its id. *)
LEMMA GetsStep ==
  ASSUME IInv, NEW c \in Calls, Gets(c)
  PROVE  IInv'
<1>0. PICK q \in BOOLEAN : q <=> c \in quiet
  OBVIOUS
<1>1. PICK s : s = call[c]
  OBVIOUS
<1>2. s \in States /\ s.pc = "getting" /\ AtWork(s, q)
  BY <1>0, <1>1, AtWorkIs DEF Gets
<1>3. PICK id : id = s.ask.folder.id
  OBVIOUS
<1>4. s.ask.folder.by = "id" /\ id \in Ids /\ s.ask.kind \in {"create", "find"}
  BY <1>2, <1>3, AskIs DEF AtWork, States
<1>5. Ready(s, q) /\ HasPlan(s, q)
  BY <1>2 DEF AtWork
<1>6. UNCHANGED <<inventory, tree, changes, quiet>>
  BY DEF Gets
<1>7. PICK t : Becomes(c, t) /\ \/ t = Ended("refused") \/ t = Ended("query_error")
                                \/ s.ask.kind = "find" /\ t = Done(s, id)
                                \/ s.ask.kind # "find" /\ t = Arrived(s, id)
  BY <1>1, <1>3 DEF Gets
<1>8. Sound(t, q)
  <2>1. CASE t = Ended("refused") \/ t = Ended("query_error")
    BY <2>1, EndedIs
  <2>2. CASE s.ask.kind = "find" /\ t = Done(s, id)
    BY <1>2, <1>4, <1>5, <2>2, DoneIs
  <2>3. CASE s.ask.kind # "find" /\ t = Arrived(s, id)
    <3>1. IsPlace(id, s.ask)
      BY <1>3, <1>4 DEF IsPlace
    <3>. QED BY <1>2, <1>4, <1>5, <2>3, <3>1, ArrivedIs
  <2>. QED BY <1>7, <2>1, <2>2, <2>3
<1>. QED BY <1>0, <1>6, <1>7, <1>8, QuietStep

(* One part of the path is followed. *)
LEMMA WalksStep ==
  ASSUME IInv, NEW c \in Calls, Walks(c)
  PROVE  IInv'
<1>0. PICK q \in BOOLEAN : q <=> c \in quiet
  OBVIOUS
<1>1. PICK s : s = call[c]
  OBVIOUS
<1>2. s \in States /\ s.pc = "walking" /\ AtWork(s, q)
  BY <1>0, <1>1, AtWorkIs DEF Walks
<1>3. PICK parts \in Seq(Names) : parts = s.ask.folder.parts /\ s.ask.folder.by = "path"
  BY <1>2, AskIs DEF AtWork, States
<1>4. s.left \in Seq(Names) /\ s.left # <<>> /\ Ready(s, q) /\ HasPlan(s, q) /\ (q => OnTheWay(s))
  BY <1>2 DEF AtWork, States
<1>5. UNCHANGED <<inventory, tree, changes, quiet>> /\ IsTree(tree)
  BY DEF Walks, IInv
<1>6. PICK found : found = Matching(s.at, "FOLDER", Head(s.left))
  OBVIOUS
<1>7. PICK rest : rest = Tail(s.left)
  OBVIOUS
<1>8. PICK at : at = Min(found)
  OBVIOUS
<1>9. PICK t : t = [s EXCEPT !.at = at, !.left = rest]
  OBVIOUS
<1>10. PICK u : Becomes(c, u) /\ \/ u = Ended("refused") \/ u = Ended("query_error")
                                 \/ found # {} /\ t.left = <<>> /\ u = Arrived(t, t.at)
                                 \/ found # {} /\ t.left # <<>> /\ u = t
  BY <1>1, <1>6, <1>7, <1>8, <1>9 DEF Walks
<1>11. ASSUME found # {} PROVE at \in Ids
  BY <1>5, <1>6, <1>8, <1>11, ChildIs
<1>12. ASSUME found # {}
       PROVE  /\ t \in States /\ t.pc = "walking" /\ t.ask = s.ask /\ t.confirmed = s.confirmed
              /\ t.plan = s.plan /\ t.listing = s.listing /\ t.node = s.node /\ t.shown = s.shown
              /\ t.at = at /\ t.left = rest
  <2>1. rest \in Seq(Names)
    BY <1>4, <1>7
  <2>. QED BY <1>2, <1>9, <1>11, <1>12, <2>1 DEF States
<1>13. ASSUME found # {} PROVE HasPlan(t, q) /\ Ready(t, q)
  <2>1. FullPlan(t) = FullPlan(s) /\ PlanOf(t, s.listing) = PlanOf(s, s.listing)
    BY <1>12, <1>13, SameFull, SameAsk
  <2>. QED BY <1>4, <1>12, <1>13, <2>1 DEF HasPlan, Ready, ShownRight
<1>14. ASSUME found # {}, q
       PROVE  \E k \in 1..Len(parts) :
                /\ LeadsTo(parts, k, at) /\ Len(parts) = k + Len(rest)
                /\ \A i \in 1..Len(rest) : rest[i] = parts[k + i]
  <2>1. PICK k \in 0..Len(parts) :
          /\ LeadsTo(parts, k, s.at) /\ Len(s.left) > 0 /\ Len(parts) = k + Len(s.left)
          /\ \A i \in 1..Len(s.left) : s.left[i] = parts[k + i]
    BY <1>3, <1>4, <1>14 DEF OnTheWay
  <2>2. PICK n \in Nat : n = Len(s.left) /\ n > 0
    BY <1>4, <2>1
  <2>0. k \in Nat /\ k + 1 \in Nat
    BY <2>1
  <2>3. Head(s.left) = s.left[1] /\ Len(rest) = n - 1 /\ \A i \in 1..(n - 1) : rest[i] = s.left[i + 1]
    BY <1>4, <1>7, <2>2
  <2>4. Head(s.left) = parts[k + 1]
    BY <2>1, <2>2, <2>3
  <2>5. LeadsTo(parts, k + 1, at)
    <3>1. found = Matching(s.at, "FOLDER", parts[k + 1])
      BY <1>6, <2>4
    <3>2. LeadsTo(parts, k, s.at)
      BY <2>1
    <3>3. LeadsTo(parts, k + 1, Min(Matching(s.at, "FOLDER", parts[k + 1])))
      BY <1>5, <1>14, <2>0, <3>1, <3>2, WayGoesOn
    <3>. QED BY <1>8, <3>1, <3>3
  <2>6. Len(parts) = (k + 1) + (n - 1) /\ k + 1 \in 1..Len(parts)
    <3>1. PICK len \in Nat : len = Len(parts)
      BY <1>3
    <3>2. len = k + n
      BY <2>1, <2>2, <3>1
    <3>3. \A a, b \in Nat : b > 0 => a + b = (a + 1) + (b - 1) /\ a + 1 \in 1..(a + b)
      OBVIOUS
    <3>4. len = (k + 1) + (n - 1) /\ k + 1 \in 1..len
      BY <2>0, <2>2, <3>2, <3>3
    <3>. QED BY <3>1, <3>4
  <2>7. ASSUME NEW i \in 1..(n - 1) PROVE rest[i] = parts[(k + 1) + i]
    <3>1. i + 1 \in 1..n /\ k + (i + 1) = (k + 1) + i
      BY <2>2
    <3>. QED BY <2>1, <2>2, <2>3, <3>1
  <2>. QED BY <2>3, <2>5, <2>6, <2>7
<1>15. Sound(u, q)
  <2>1. CASE u = Ended("refused") \/ u = Ended("query_error")
    BY <2>1, EndedIs
  <2>2. CASE found # {} /\ t.left = <<>> /\ u = Arrived(t, t.at)
    <3>1. rest = <<>> /\ Len(rest) = 0
      BY <1>12, <2>2
    <3>2. ASSUME q PROVE IsPlace(at, s.ask)
      <4>1. PICK k \in 1..Len(parts) : LeadsTo(parts, k, at) /\ Len(parts) = k + Len(rest)
        BY <1>14, <2>2, <3>2
      <4>2. LeadsTo(parts, Len(parts), at) /\ parts # <<>>
        BY <3>1, <4>1
      <4>. QED BY <1>3, <4>2 DEF IsPlace
    <3>. QED BY <1>3, <1>11, <1>12, <1>13, <2>2, <3>2, ArrivedIs
  <2>3. CASE found # {} /\ t.left # <<>> /\ u = t
    <3>1. rest # <<>> /\ Len(rest) > 0
      <4>1. rest \in Seq(Names) /\ rest # <<>>
        <5>1. rest \in Seq(Names)
          BY <1>4, <1>7
        <5>. QED BY <1>12, <2>3, <5>1
      <4>2. PICK n \in Nat : n = Len(rest) /\ DOMAIN rest = 1..n
        BY <4>1
      <4>3. n # 0
        BY <4>1, <4>2
      <4>. QED BY <4>1, <4>2, <4>3
    <3>2. ASSUME q PROVE OnTheWay(t)
      <4>1. PICK k \in 1..Len(parts) :
              /\ LeadsTo(parts, k, at) /\ Len(parts) = k + Len(rest)
              /\ \A i \in 1..Len(rest) : rest[i] = parts[k + i]
        BY <1>14, <2>3, <3>2
      <4>2. t.ask.folder.parts = parts /\ t.at = at /\ t.left = rest /\ k \in 0..Len(parts)
        BY <1>3, <1>12, <2>3
      <4>. QED BY <3>1, <4>1, <4>2 DEF OnTheWay
    <3>3. AtWork(t, q)
      BY <1>3, <1>12, <1>13, <2>3, <3>1, <3>2 DEF AtWork
    <3>. QED BY <1>12, <2>3, <3>3 DEF Sound
  <2>. QED BY <1>10, <2>1, <2>2, <2>3
<1>. QED BY <1>0, <1>5, <1>10, <1>15, QuietStep

(* A configuration is taken by its name. *)
LEMMA PicksStep ==
  ASSUME IInv, NEW c \in Calls, Picks(c)
  PROVE  IInv'
<1>0. PICK q \in BOOLEAN : q <=> c \in quiet
  OBVIOUS
<1>1. PICK s : s = call[c]
  OBVIOUS
<1>2. s \in States /\ s.pc = "picking" /\ AtWork(s, q)
  BY <1>0, <1>1, AtWorkIs DEF Picks
<1>3. PICK found : found = Matching(s.at, "CONFIGURATION", s.ask.name)
  OBVIOUS
<1>4. PICK i : i = Min(found)
  OBVIOUS
<1>5. HasPlan(s, q) /\ s.ask.kind = "find" /\ (q => IsPlace(s.at, s.ask))
  BY <1>2 DEF AtWork
<1>6. UNCHANGED <<inventory, tree, changes, quiet>> /\ IsTree(tree)
  BY DEF Picks, IInv
<1>7. PICK t : Becomes(c, t) /\ \/ t = Ended("refused") \/ t = Ended("query_error")
                                \/ found # {} /\ t = Done(s, i)
  BY <1>1, <1>3, <1>4 DEF Picks
<1>8. CASE t = Ended("refused") \/ t = Ended("query_error")
  <2>1. Sound(t, q)
    BY <1>8, EndedIs
  <2>. QED BY <1>0, <1>6, <1>7, <2>1, QuietStep
<1>9. CASE found # {} /\ t = Done(s, i)
  <2>1. i \in Ids /\ tree[i].parent = s.at /\ Answers(i, "CONFIGURATION", s.ask.name)
    BY <1>3, <1>4, <1>6, <1>9, ChildIs
  <2>2. Sound(t, q)
    BY <1>2, <1>5, <1>9, <2>1, DoneIs
  <2>. QED BY <1>0, <1>6, <1>7, <2>2, QuietStep
<1>. QED BY <1>7, <1>8, <1>9

(* The user agrees, and everything is worked out again. *)
LEMMA AgreeStep ==
  ASSUME IInv, NEW c \in Calls, Agree(c)
  PROVE  IInv'
<1>0. PICK q \in BOOLEAN : q <=> c \in quiet
  OBVIOUS
<1>1. PICK s : s = call[c]
  OBVIOUS
<1>2. s \in States /\ s.pc = "shown" /\ AtWork(s, q)
  BY <1>0, <1>1, AtWorkIs DEF Agree
<1>3. PICK t \in States : /\ t = Started(s.ask) /\ t.ask = s.ask /\ t.plan = NothingPlanned /\ t.node = NoNode
  BY <1>2, StartedIs DEF States
<1>4. PICK u : u = [t EXCEPT !.confirmed = TRUE, !.shown = s.shown]
  OBVIOUS
<1>5. /\ u \in States /\ u.ask = s.ask /\ u.confirmed /\ u.plan = NothingPlanned /\ u.node = NoNode
      /\ u.shown = s.shown
  BY <1>2, <1>3, <1>4 DEF States
<1>6. s.ask.kind = "create" /\ (q => ShownRight(s))
  BY <1>2 DEF AtWork
<1>7. Ready(u, q)
  BY <1>5, <1>6, SameFull DEF Ready, ShownRight
<1>8. Sound(ToPlan(u), q)
  BY <1>5, <1>7, ToPlanIs
<1>9. Becomes(c, ToPlan(u)) /\ UNCHANGED <<inventory, tree, changes, quiet>>
  BY <1>1, <1>3, <1>4 DEF Agree
<1>. QED BY <1>0, <1>8, <1>9, QuietStep

(* The answer to a creation is late. *)
LEMMA GivesUpStep ==
  ASSUME IInv, NEW c \in Calls, GivesUp(c)
  PROVE  IInv'
<1>0. PICK q \in BOOLEAN : q <=> c \in quiet
  OBVIOUS
<1>1. PICK s : s = call[c]
  OBVIOUS
<1>2. s \in States /\ s.pc = "creating" /\ AtWork(s, q)
  BY <1>0, <1>1, AtWorkIs DEF GivesUp
<1>3. PICK t : t = [s EXCEPT !.pc = "gaveup"]
  OBVIOUS
<1>4. /\ t \in States /\ t.pc = "gaveup" /\ t.ask = s.ask /\ t.confirmed = s.confirmed /\ t.plan = s.plan
      /\ t.listing = s.listing /\ t.node = s.node /\ t.shown = s.shown /\ t.at = s.at
  BY <1>2, <1>3 DEF States
<1>5. FullPlan(t) = FullPlan(s) /\ PlanOf(t, s.listing) = PlanOf(s, s.listing)
  BY <1>4, SameFull, SameAsk
<1>6. Ready(s, q) /\ HasPlan(s, q) /\ s.ask.kind = "create" /\ s.confirmed /\ (q => IsPlace(s.at, s.ask))
  BY <1>2 DEF AtWork
<1>7. HasPlan(t, q) /\ Ready(t, q)
  BY <1>4, <1>5, <1>6 DEF HasPlan, Ready, ShownRight
<1>8. AtWork(t, q)
  BY <1>4, <1>6, <1>7 DEF AtWork
<1>9. Sound(t, q)
  BY <1>4, <1>8 DEF Sound
<1>10. Becomes(c, t) /\ UNCHANGED <<inventory, tree, changes, quiet>>
  BY <1>1, <1>3 DEF GivesUp
<1>. QED BY <1>0, <1>9, <1>10, QuietStep

(* A call ends without a node. *)
LEMMA EndsStep ==
  ASSUME IInv, NEW c \in Calls, Decline(c) \/ IsRefused(c)
  PROVE  IInv'
<1>0. PICK q \in BOOLEAN : q <=> c \in quiet
  OBVIOUS
<1>1. PICK code \in {"declined", "refused"} :
        Becomes(c, Ended(code)) /\ UNCHANGED <<inventory, tree, changes, quiet>>
  BY DEF Decline, IsRefused
<1>2. Sound(Ended(code), q)
  BY EndedIs
<1>. QED BY <1>0, <1>1, <1>2, QuietStep

(* Changes by others: no call is quiet any more. *)
LEMMA DisturbStep ==
  ASSUME IInv, Disturb, UNCHANGED call, inventory' \in Inventories, IsTree(tree)'
  PROVE  IInv'
<1>1. changes' \in 0..MaxChanges
  BY AskAssumption DEF Disturb, IInv
<1>2. quiet' = {}
  BY DEF Disturb
<1>3. ASSUME NEW d \in Calls PROVE Sound(call[d], d \in quiet)'
  <2>1. PICK t : t = call[d]
    OBVIOUS
  <2>2. PICK r : r = (d \in quiet)
    OBVIOUS
  <2>3. Sound(t, r)
    BY <2>1, <2>2, SoundThere DEF IInv
  <2>4. Sound(t, FALSE)'
    BY <2>3, NotQuiet
  <2>5. t = call'[d] /\ d \notin quiet'
    BY <1>2, <2>1
  <2>. QED BY <2>4, <2>5, SoundHere
<1>4. \A d \in Calls : Sound(call[d], d \in quiet)'
  BY <1>3
<1>. QED BY <1>1, <1>2, <1>4 DEF IInv

(* Others change the inventory or the nodes. *)
LEMMA OthersStep ==
  ASSUME IInv,
         \/ \E devices \in Inventories : Import(devices)
         \/ \E i \in Ids \ {Root} :
              \/ \E name \in Names : Rename(i, name)
              \/ \E folder \in Ids : Move(i, folder)
              \/ Delete(i)
  PROVE  IInv'
<1>1. inventory \in Inventories /\ IsTree(tree) /\ DOMAIN tree = Ids
  BY DEF IInv, IsTree
<1>2. ASSUME NEW devices \in Inventories, Import(devices) PROVE IInv'
  <2>1. Disturb /\ UNCHANGED call /\ inventory' \in Inventories /\ IsTree(tree)'
    BY <1>1, <1>2 DEF Import, IsTree
  <2>. QED BY <2>1, DisturbStep
<1>3. ASSUME NEW i \in Ids \ {Root}, NEW n, n = NoNode \/ IsNode(n), tree' = [tree EXCEPT ![i] = n]
      PROVE  IsTree(tree)'
  BY <1>1, <1>3 DEF IsTree
<1>4. ASSUME NEW i \in Ids \ {Root}, tree[i] # NoNode PROVE IsNode(tree[i])
  BY <1>1, <1>4 DEF IsTree
<1>5. ASSUME NEW i \in Ids \ {Root}, NEW name \in Names, Rename(i, name) PROVE IInv'
  <2>1. PICK n : n = tree[i]
    OBVIOUS
  <2>2. IsNode(n)
    BY <1>4, <1>5, <2>1 DEF Rename
  <2>3. PICK m : m = [n EXCEPT !.name = name]
    OBVIOUS
  <2>4. IsNode(m)
    BY <2>2, <2>3 DEF IsNode
  <2>5. tree' = [tree EXCEPT ![i] = m]
    BY <1>5, <2>1, <2>3 DEF Rename
  <2>6. IsTree(tree)'
    BY <1>3, <2>4, <2>5
  <2>7. Disturb /\ UNCHANGED call /\ inventory' \in Inventories
    BY <1>1, <1>5 DEF Rename
  <2>. QED BY <2>6, <2>7, DisturbStep
<1>6. ASSUME NEW i \in Ids \ {Root}, NEW folder \in Ids, Move(i, folder) PROVE IInv'
  <2>1. PICK n : n = tree[i]
    OBVIOUS
  <2>2. IsNode(n)
    BY <1>4, <1>6, <2>1 DEF Move
  <2>3. PICK m : m = [n EXCEPT !.parent = folder]
    OBVIOUS
  <2>4. IsNode(m)
    BY <2>2, <2>3 DEF IsNode
  <2>5. tree' = [tree EXCEPT ![i] = m]
    BY <1>6, <2>1, <2>3 DEF Move
  <2>6. IsTree(tree)'
    BY <1>3, <2>4, <2>5
  <2>7. Disturb /\ UNCHANGED call /\ inventory' \in Inventories
    BY <1>1, <1>6 DEF Move
  <2>. QED BY <2>6, <2>7, DisturbStep
<1>7. ASSUME NEW i \in Ids \ {Root}, Delete(i) PROVE IInv'
  <2>1. IsTree(tree)'
    BY <1>3, <1>7 DEF Delete
  <2>2. Disturb /\ UNCHANGED call /\ inventory' \in Inventories
    BY <1>1, <1>7 DEF Delete
  <2>. QED BY <2>1, <2>2, DisturbStep
<1>. QED BY <1>2, <1>5, <1>6, <1>7

(* A configuration is stored. *)
LEMMA StoredIs ==
  ASSUME NEW plan \in Plans PROVE Stored(plan) \in Seq(Pairs)
<1>1. PICK n \in Nat : n = Len(plan.pvs) /\ DOMAIN plan.pvs = 1..n
  BY DEF Plans
<1>2. \A i \in 1..n : [setpoint |-> plan.pvs[i].setpoint, readback |-> plan.pvs[i].readback] \in Pairs
  <2>1. plan.pvs \in Seq(Entries)
    BY DEF Plans, Entries
  <2>2. \A i \in 1..n : plan.pvs[i] \in Entries
    BY <1>1, <2>1
  <2>. QED BY <2>2 DEF Entries, Pairs
<1>. QED BY <1>1, <1>2 DEF Stored

(* The service creates the configuration. *)
LEMMA CreatesStep ==
  ASSUME IInv, NEW c \in Calls, Creates(c)
  PROVE  IInv'
<1>0. PICK q \in BOOLEAN : q <=> c \in quiet
  OBVIOUS
<1>1. PICK s : s = call[c]
  OBVIOUS
<1>2. s \in States /\ s.pc \in {"creating", "gaveup"} /\ AtWork(s, q)
  BY <1>0, <1>1, AtWorkIs DEF Creates
<1>3. PICK id \in Ids : Takes(s, id) /\ Becomes(c, Done(s, id))
  BY <1>1 DEF Creates
<1>4. PICK t : t = Done(s, id)
  OBVIOUS
<1>5. /\ t \in States /\ t.pc = "done" /\ t.ask = s.ask /\ t.plan = s.plan /\ t.listing = s.listing
      /\ t.node = id /\ t.shown = s.shown
  BY <1>2, <1>4 DEF Done, States
<1>6. quiet' = quiet \cap {c} /\ inventory' = inventory /\ changes' = changes
  BY DEF Creates
<1>7. PICK n : n = [type |-> "CONFIGURATION", name |-> s.ask.name, parent |-> s.at, pvs |-> Stored(s.plan)]
  OBVIOUS
<1>8. tree' = [tree EXCEPT ![id] = n] /\ tree[id] = NoNode
  BY <1>3, <1>7 DEF Takes
<1>9. IsNode(n)
  <2>1. s.ask.name \in Names /\ s.at \in Ids /\ Stored(s.plan) \in Seq(Pairs)
    BY <1>2, AskIs, StoredIs DEF States
  <2>. QED BY <1>7, <2>1 DEF IsNode
<1>10. IsTree(tree)'
  <2>1. IsTree(tree) /\ id # Root
    BY <1>8 DEF IInv, IsTree
  <2>. QED BY <1>8, <1>9, <2>1 DEF IsTree
<1>11. Ready(s, q) /\ HasPlan(s, q) /\ s.ask.kind = "create" /\ s.confirmed /\ (q => IsPlace(s.at, s.ask))
  BY <1>2 DEF AtWork
(* What is stored is what was shown. *)
<1>12. q => s.plan = s.shown.plan /\ s.at = s.shown.folder
  <2>1. ASSUME q PROVE s.plan = s.shown.plan /\ s.at = s.shown.folder
    <3>1. s.plan = FullPlan(s) /\ s.shown.plan = FullPlan(s) /\ IsPlace(s.at, s.ask) /\ IsPlace(s.shown.folder, s.ask)
      BY <1>11, <2>1 DEF HasPlan, Ready, ShownRight
    <3>2. CASE s.ask.folder.by = "id"
      BY <3>1, <3>2 DEF IsPlace
    <3>3. CASE s.ask.folder.by # "id"
      <4>1. PICK parts \in Seq(Names) : parts = s.ask.folder.parts
        BY <1>2, <3>3, AskIs DEF States
      <4>2. LeadsTo(parts, Len(parts), s.at) /\ LeadsTo(parts, Len(parts), s.shown.folder)
        BY <3>1, <3>3, <4>1 DEF IsPlace
      <4>3. Len(parts) \in Nat
        OBVIOUS
      <4>4. s.at = s.shown.folder
        BY <4>2, <4>3, WayIsUnique
      <4>. QED BY <3>1, <4>4
    <3>. QED BY <3>2, <3>3
  <2>. QED BY <2>1
<1>13. Sound(t, q)'
  <2>1. FullPlan(t)' = FullPlan(s) /\ PlanOf(t, s.listing) = PlanOf(s, s.listing)
    <3>1. FullPlan(t)' = FullPlan(t)
      BY <1>6 DEF FullPlan
    <3>. QED BY <1>5, <3>1, SameFull, SameAsk
  <2>2. HasPlan(t, q)'
    BY <1>5, <1>11, <2>1 DEF HasPlan
  <2>3. tree'[id] = n
    BY <1>8 DEF IInv, IsTree
  <2>4. tree'[id].pvs = Stored(s.plan) /\ tree'[id].parent = s.at
    BY <1>7, <2>3
  <2>5. q => NodeIsRight(t)'
    BY <1>5, <1>11, <1>12, <2>4 DEF NodeIsRight
  <2>6. AtWork(t, q)'
    BY <1>5, <2>2, <2>5 DEF AtWork
  <2>. QED BY <1>5, <2>6 DEF Sound
<1>14. DOMAIN call' = Calls /\ call'[c] = t /\ \A d \in Calls \ {c} : call'[d] = call[d]
  BY <1>3, <1>4 DEF Becomes, IInv
<1>15. ASSUME NEW d \in Calls PROVE Sound(call[d], d \in quiet)'
  <2>1. CASE d = c
    <3>1. t = call'[d] /\ (d \in quiet' <=> q)
      BY <1>0, <1>6, <1>14, <2>1
    <3>2. q = TRUE \/ q = FALSE
      OBVIOUS
    <3>. QED BY <1>13, <3>1, <3>2, SoundHere
  <2>2. CASE d # c
    <3>1. PICK u : u = call[d]
      OBVIOUS
    <3>2. PICK r : r = (d \in quiet)
      OBVIOUS
    <3>3. Sound(u, r)
      BY <3>1, <3>2, SoundThere DEF IInv
    <3>4. Sound(u, FALSE)'
      BY <3>3, NotQuiet
    <3>5. u = call'[d] /\ d \notin quiet'
      BY <1>6, <1>14, <2>2, <3>1
    <3>. QED BY <3>4, <3>5, SoundHere
  <2>. QED BY <2>1, <2>2
<1>16. \A d \in Calls : Sound(call[d], d \in quiet)'
  BY <1>15
<1>17. inventory' \in Inventories /\ changes' \in 0..MaxChanges /\ quiet' \subseteq Calls
  BY <1>6 DEF IInv
<1>. QED BY <1>10, <1>14, <1>16, <1>17 DEF IInv

----
(* The invariant. *)

(* The invariant holds at the start, *)
LEMMA InitIInv ==
  ASSUME Init PROVE IInv
<1>1. IsTree(tree) /\ inventory \in Inventories /\ changes \in 0..MaxChanges /\ quiet \subseteq Calls
  BY TreeAssumption, AskAssumption DEF Init
<1>2. DOMAIN call = Calls /\ \A c \in Calls : call[c] = Idle
  BY DEF Init
<1>3. \A c \in Calls : Sound(call[c], c \in quiet)
  BY <1>2 DEF Sound
<1>. QED BY <1>1, <1>2, <1>3 DEF IInv

(* every step keeps it, *)
LEMMA Inductive ==
  ASSUME IInv, [Next]_vars PROVE IInv'
<1>1. ASSUME NEW c \in Calls, NEW ask \in Asks, Begin(c, ask) PROVE IInv'
  BY <1>1, BeginStep
<1>2. ASSUME NEW c \in Calls, Lists(c) \/ Gets(c) \/ Walks(c) \/ Picks(c) PROVE IInv'
  BY <1>2, ListsStep, GetsStep, WalksStep, PicksStep
<1>3. ASSUME NEW c \in Calls, Agree(c) \/ Decline(c) \/ Creates(c) \/ IsRefused(c) \/ GivesUp(c) PROVE IInv'
  BY <1>3, AgreeStep, EndsStep, CreatesStep, GivesUpStep
<1>4. CASE UNCHANGED vars
  <2>1. UNCHANGED <<inventory, tree, changes, call, quiet>>
    BY <1>4 DEF vars
  <2>2. ASSUME NEW d \in Calls PROVE Sound(call[d], d \in quiet)'
    <3>1. PICK t : t = call[d]
      OBVIOUS
    <3>2. PICK r \in BOOLEAN : r <=> d \in quiet
      OBVIOUS
    <3>3. Sound(t, r)
      <4>1. Sound(t, d \in quiet)
        BY <3>1 DEF IInv
      <4>. QED BY <3>2, <4>1 DEF Sound, AtWork, Ready, HasPlan
    <3>4. Sound(t, r)'
      BY <2>1, <3>3, EnvSame
    <3>5. t = call'[d] /\ (d \in quiet' <=> r)
      BY <2>1, <3>1, <3>2
    <3>6. r = TRUE \/ r = FALSE
      OBVIOUS
    <3>. QED BY <3>4, <3>5, <3>6, SoundHere
  <2>3. \A d \in Calls : Sound(call[d], d \in quiet)'
    BY <2>2
  <2>. QED BY <2>1, <2>3 DEF IInv, IsTree
<1>. QED BY <1>1, <1>2, <1>3, <1>4, OthersStep DEF Next

(* and so it holds always. *)
LEMMA AlwaysIInv == Spec => []IInv
<1>1. Init => IInv
  BY InitIInv
<1>2. IInv /\ [Next]_vars => IInv'
  BY Inductive
<1>. QED BY <1>1, <1>2, PTL DEF Spec

(* Only quiet calls, and what they say. *)
LEMMA Consequences ==
  ASSUME IInv PROVE TypeOK /\ PlanIsExact /\ QuietCreateIsShown /\ PathsAreFollowed
<1>0. ASSUME NEW c \in Begun
      PROVE  c \in Calls /\ call[c] \in States /\ call[c].pc # "planning" /\ AtWork(call[c], c \in quiet)
  <2>1. c \in Calls /\ Sound(call[c], c \in quiet) /\ call[c].pc \notin {"idle", "ended"}
    BY DEF IInv, Begun
  <2>2. call[c] # Idle /\ call[c] \notin Endings
    BY <2>1 DEF Idle, Endings, Ended
  <2>. QED BY <2>1, <2>2 DEF Sound
<1>1. TypeOK
  <2>1. ASSUME NEW c \in Calls PROVE call[c] \in {Idle} \cup Endings \/ IsCall(call[c])
    <3>1. CASE call[c] \in States /\ call[c].pc # "planning"
      BY <3>1 DEF IsCall, States
    <3>. QED BY <3>1 DEF IInv, Sound
  <2>. QED BY <2>1 DEF IInv, TypeOK
<1>2. PlanIsExact
  <2>1. ASSUME NEW c \in Begun, call[c].plan # NothingPlanned
        PROVE  LET s == call[c]
                   devices == ToSet(s.ask.devices)
                   given == {[setpoint |-> p.setpoint, readback |-> IF s.ask.readbacks THEN p.readback ELSE NoPv,
                              owner |-> Explicit] : p \in ToSet(s.ask.pvs)}
                   offers == given \cup UNION {Offered(s, w) : w \in devices}
                   pvs == ToSet(s.plan.pvs)
               IN  /\ pvs \subseteq offers
                   /\ \A o \in offers : \E p \in pvs : p.setpoint = o.setpoint
                   /\ \A p, q \in pvs : p.setpoint = q.setpoint => p = q
                   /\ Len(s.plan.pvs) = Cardinality(pvs)
                   /\ ~ s.ask.readbacks => \A p \in pvs : p.readback = NoPv
                   /\ \A w \in devices :
                        Offered(s, w) = {} => \E d \in s.plan.skipped : Lower[d] = Lower[w]
    <3>1. PICK s : s = call[c]
      OBVIOUS
    <3>2. s \in States /\ HasPlan(s, c \in quiet) /\ s.ask.kind = "create"
      <4>1. call[c].pc # "listing"
        BY <1>0, <2>1 DEF AtWork
      <4>2. HasPlan(call[c], c \in quiet)
        BY <1>0, <4>1 DEF AtWork
      <4>3. call[c].ask.kind \in {"create", "find"}
        BY <1>0, AskIs DEF States
      <4>. QED BY <1>0, <2>1, <3>1, <4>2, <4>3 DEF HasPlan
    <3>3. s.plan = PlanOf(s, s.listing) /\ ~ Malformed(s.ask) /\ s.listing \in Seq(Devices) /\ s.ask \in Asks
      BY <3>2 DEF HasPlan, States
    <3>4. AllOffers(s, s.listing) = GivenOffers(s) \cup UNION {Offered(s, w) : w \in ToSet(s.ask.devices)}
      BY DEF AllOffers, Offered
    <3>5. /\ ToSet(s.plan.pvs) \subseteq AllOffers(s, s.listing)
          /\ \A o \in AllOffers(s, s.listing) : \E p \in ToSet(s.plan.pvs) : p.setpoint = o.setpoint
          /\ \A p, q \in ToSet(s.plan.pvs) : p.setpoint = q.setpoint => p = q
          /\ Len(s.plan.pvs) = Cardinality(ToSet(s.plan.pvs))
          /\ ~ s.ask.readbacks => \A p \in ToSet(s.plan.pvs) : p.readback = NoPv
          /\ \A w \in ToSet(s.ask.devices) :
               ToSet(Offers(s, s.listing, w)) = {} => \E d \in s.plan.skipped : Lower[d] = Lower[w]
      BY <3>2, <3>3, PlanIs
    <3>. QED BY <3>1, <3>4, <3>5 DEF GivenOffers, Offered
  <2>. QED BY <2>1 DEF PlanIsExact
<1>3. QuietCreateIsShown
  <2>1. ASSUME NEW c \in Begun \cap quiet, call[c].ask.kind = "create", call[c].node # NoNode
        PROVE  /\ tree[call[c].node].pvs = Stored(call[c].shown.plan)
               /\ tree[call[c].node].parent = call[c].shown.folder
    <3>1. call[c] \in States /\ AtWork(call[c], c \in quiet)
      BY <1>0
    <3>2. call[c].pc = "done"
      BY <2>1, <3>1 DEF AtWork, Ready
    <3>3. NodeIsRight(call[c])
      BY <2>1, <3>1, <3>2 DEF AtWork
    <3>. QED BY <2>1, <3>1, <3>3 DEF NodeIsRight, States
  <2>. QED BY <2>1 DEF QuietCreateIsShown
<1>4. PathsAreFollowed
  <2>1. ASSUME NEW c \in Begun \cap quiet, call[c].ask.folder.by = "path", NEW f, IsPlace(f, call[c].ask)
        PROVE  IsAtPath(f, call[c].ask.folder.parts)
    <3>1. call[c].ask \in Asks
      BY <1>0 DEF States
    <3>2. PICK parts \in Seq(Names) : parts = call[c].ask.folder.parts
      BY <2>1, <3>1, AskIs
    <3>3. parts # <<>> /\ LeadsTo(parts, Len(parts), f)
      BY <2>1, <3>2 DEF IsPlace
    <3>. QED BY <3>2, <3>3, WayIsPath DEF IInv
  <2>2. ASSUME NEW c \in Begun \cap quiet, call[c].ask.folder.by = "path",
               call[c].pc \in {"shown", "creating", "gaveup", "picking"}
        PROVE  IsAtPath(call[c].at, call[c].ask.folder.parts)
    <3>1. IsPlace(call[c].at, call[c].ask)
      BY <1>0, <2>2 DEF AtWork
    <3>. QED BY <2>1, <2>2, <3>1
  <2>3. ASSUME NEW c \in Begun \cap quiet, call[c].ask.folder.by = "path",
               call[c].ask.kind = "find", call[c].node # NoNode
        PROVE  /\ IsAtPath(tree[call[c].node].parent, call[c].ask.folder.parts)
               /\ Answers(call[c].node, "CONFIGURATION", call[c].ask.name)
    <3>1. call[c] \in States /\ AtWork(call[c], c \in quiet)
      BY <1>0
    <3>2. call[c].pc = "done"
      BY <2>3, <3>1 DEF AtWork, Ready
    <3>3. NodeIsRight(call[c]) /\ call[c].node \in Ids
      BY <2>3, <3>1, <3>2 DEF AtWork, States
    <3>4. IsPlace(tree[call[c].node].parent, call[c].ask) /\ Answers(call[c].node, "CONFIGURATION", call[c].ask.name)
      BY <2>3, <3>3 DEF NodeIsRight
    <3>. QED BY <2>1, <2>3, <3>4
  <2>. QED BY <2>2, <2>3 DEF PathsAreFollowed
<1>. QED BY <1>1, <1>2, <1>3, <1>4

(* The variables keep their types. *)
THEOREM TypesOfConfigurations == Spec => []TypeOK
<1>1. IInv => TypeOK
  BY Consequences
<1>. QED BY <1>1, AlwaysIInv, PTL

(* A plan has every setpoint that a wanted device or a given PV offers, once, *)
(* and nothing else; what contributes nothing is reported.                 *)
THEOREM PlansAreExact == Spec => []PlanIsExact
<1>1. IInv => PlanIsExact
  BY Consequences
<1>. QED BY <1>1, AlwaysIInv, PTL

(* A configuration that is created while nobody changes anything has the PVs *)
(* and the folder of the preview, however late the answer comes.           *)
THEOREM QuietCreatesAreShown == Spec => []QuietCreateIsShown
<1>1. IInv => QuietCreateIsShown
  BY Consequences
<1>. QED BY <1>1, AlwaysIInv, PTL

(* A path that is walked while nobody changes anything leads, part by part, *)
(* to the node that has the best claim to each name.                       *)
THEOREM PathsLeadThere == Spec => []PathsAreFollowed
<1>1. IInv => PathsAreFollowed
  BY Consequences
<1>. QED BY <1>1, AlwaysIInv, PTL
====
