---- MODULE MCConfigurations ----
EXTENDS Configurations, TLC

CONSTANTS mag, Mag, gauge, p1, p2, r1, w1, w2

MCLower == (mag :> mag) @@ (Mag :> mag) @@ (gauge :> gauge)

MCQuantities == <<"current", "state">>

Device(name, workspace, setpoints, readbacks) ==
  [name |-> name, workspace |-> workspace, setpoints |-> setpoints, readbacks |-> readbacks]

None == <<>>

Magnet == Device(mag, w1, [current |-> p1, state |-> p2], [current |-> r1])

Gauge == Device(gauge, w2, None, None)

(* A magnet and a gauge; two devices that share a PV, and two of one name. *)
MCInventories ==
  {<<Magnet, Gauge>>,
   <<Device(gauge, w2, [current |-> p1], None), Magnet>>,
   <<Magnet, Device(Mag, w2, [state |-> p2], [state |-> r1])>>}

Folder(name, parent) == [type |-> "FOLDER", name |-> name, parent |-> parent, pvs |-> <<>>]

Kept(name, parent) ==
  [type |-> "CONFIGURATION", name |-> name, parent |-> parent,
   pvs |-> <<[setpoint |-> p1, readback |-> NoPv]>>]

(* A configuration and a folder in it have names alike, or two folders do. *)
MCTrees ==
  {<<Folder(gauge, 1), Folder(mag, 1), Kept(Mag, 2), Folder(mag, 2), NoNode, NoNode>>,
   <<Folder(gauge, 1), Folder(Mag, 1), Folder(mag, 1), Kept(mag, 3), NoNode, NoNode>>}

ById(i) == [by |-> "id", id |-> i]

ByPath(parts) == [by |-> "path", parts |-> parts]

Pv(setpoint, readback) == [setpoint |-> setpoint, readback |-> readback]

Create(name, folder, devices, readbacks, pvs) ==
  [kind |-> "create", name |-> name, folder |-> folder, devices |-> devices, readbacks |-> readbacks,
   pvs |-> pvs]

FindIt(name, folder) == [kind |-> "find", name |-> name, folder |-> folder]

MCAsks ==
  {Create(gauge, ByPath(<<mag>>), <<mag, gauge>>, TRUE, <<Pv(p1, NoPv)>>),
   Create(Mag, ByPath(<<mag, Mag>>), <<gauge, Mag, gauge>>, FALSE, <<>>),
   Create(gauge, ById(2), <<>>, FALSE, <<Pv(p1, r1), Pv(p1, NoPv)>>),
   Create(Mag, ByPath(<<>>), <<>>, TRUE, <<Pv(p1, NoPv)>>),
   Create(Mag, ById(3), <<>>, TRUE, <<Pv(NoPv, r1)>>),
   FindIt(Mag, ByPath(<<Mag>>)), FindIt(mag, ById(4)), FindIt(mag, ByPath(<<>>))}

Symmetry == Permutations(Calls)
====
