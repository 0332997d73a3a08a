---- MODULE DeployYaml ----
(***************************************************************************)
(* The devices of a beamline's deploy YAML                                 *)
(* (services/beamline_inventory_service.py, services/device_types/).       *)
(*                                                                         *)
(* A mapping of the file is a function on its keys; NoValue is None, which *)
(* a key may be given too, and NoText is empty text.  Of a name or a       *)
(* prefix only the substrings count that some rule looks for; a rule is    *)
(* named by the devfunc that it gives.                                     *)
(***************************************************************************)
EXTENDS Naturals, Sequences, FiniteSets, SequencesExt

CONSTANTS
  NoValue,
  NoText,
  All,      \* the zone "ALL"
  Has       \* Has[name]: the rules whose substrings are in a name or prefix

Get(mapping, key) == IF key \in DOMAIN mapping THEN mapping[key] ELSE NoValue

Falsy == {NoValue, NoText}

Or(value, other) == IF value \in Falsy THEN other ELSE value

(* What the service takes for a deploy file: the IOCs are listed, and so   *)
(* are the devices of an IOC or of a template, where there are any; the    *)
(* key may be given without any.                                           *)
IsFile(file) ==
  LET lists(ioc) == Get(ioc, "devices") # NoValue => ioc.devices \in Seq(ToSet(ioc.devices))
  IN  /\ file.iocs \in Seq(ToSet(file.iocs))
      /\ \A i \in DOMAIN file.iocs : lists(file.iocs[i])
      /\ \A template \in DOMAIN file.iocDefaults : lists(file.iocDefaults[template])

----
(* services/device_types: a profile per devgroup.  The rules are tried in  *)
(* order, on the name, and on the IOC's prefix if they are prefixed.       *)

Magnet ==
  [rules |-> <<"COR", "QUA", "DIP", "SOL", "SEX", "UFS">>, prefixed |-> {}, fallback |-> NoValue,
   roles |-> {"current_setpoint", "current_readback", "state_setpoint", "state_readback"}]

Vacuum ==
  [rules |-> <<"ion">>, prefixed |-> {}, fallback |-> NoValue, roles |-> {"pressure_readback"}]

Motor ==
  [rules |-> <<"SLT", "FLG", "MIR", "HMOT", "VMOT">>, prefixed |-> {"MIR"}, fallback |-> "MOT",
   roles |-> {}]

Cooling ==
  [rules |-> <<>>, prefixed |-> {}, fallback |-> NoValue,
   roles |-> {"temp_setpoint", "temp_readback", "state_setpoint", "state_readback"}]

(* None for a group without one. *)
GetProfile(devgroup) ==
  Get([mag |-> Magnet, vac |-> Vacuum, mot |-> Motor, cool |-> Cooling], devgroup)

DeriveDevfunc(profile, name, prefix) ==
  LET applies(rule) == rule \in Has[name] \/ (rule \in profile.prefixed /\ rule \in Has[prefix])
      first == SelectInSeq(profile.rules, applies)
  IN  IF first = 0 THEN profile.fallback ELSE profile.rules[first]

(* No substring is looked for in a prefix that is None. *)
CannotDerive(profile, name, prefix) ==
  LET first == SelectInSeq(profile.rules, LAMBDA rule : rule \in Has[name] \cup profile.prefixed)
  IN  prefix = NoValue /\ first # 0 /\ profile.rules[first] \notin Has[name]

KeyPvs(profile, prefix, name) ==
  IF prefix \in Falsy THEN {} ELSE {<<prefix, name, role>> : role \in profile.roles}

----
(* The parser. *)

NothingInherited(defaults, ioc) == ioc

(* Those that an IOC names by its template, or by its devtype. *)
DefaultsOf(defaults, ioc) == Get(defaults, Or(Get(ioc, "template"), Or(Get(ioc, "devtype"), NoValue)))

(* They are under what the IOC says itself. *)
MergeIocDefaults(defaults, ioc) ==
  LET inherited == DefaultsOf(defaults, ioc)
  IN  IF inherited \in Falsy THEN ioc
      ELSE [key \in DOMAIN inherited \cup DOMAIN ioc |->
              IF key \in DOMAIN ioc THEN ioc[key] ELSE inherited[key]]

(* A zone or a list of zones; none given is every zone, but empty text is  *)
(* a zone, and an empty list is no zone.                                   *)
NormalizeZones(value) == IF value = NoValue THEN {All} ELSE value.zones

(* A device with zones of its own is in the one zone of its IOC too, but   *)
(* not in those of a list.                                                 *)
DeviceZones(ioc, dev) ==
  LET outer == Get(ioc, "zones")
      joined == IF outer = NoValue \/ outer.list THEN {} ELSE outer.zones \ {All}
  IN  IF "zones" \in DOMAIN dev THEN NormalizeZones(dev.zones) \cup joined
      ELSE NormalizeZones(outer)

(* What a device may say itself, even that there is none. *)
OwnOr(dev, ioc, key) == IF key \in DOMAIN dev THEN dev[key] ELSE Get(ioc, key)

NameOf(dev) == Or(Get(dev, "alias"), Get(dev, "name"))

(* None if the key is given without a prefix. *)
PrefixOf(ioc) == IF "iocprefix" \in DOMAIN ioc THEN ioc["iocprefix"] ELSE NoText

(* opi is inherited as asset is; geo and template are copied. *)
Device(ioc, dev) ==
  LET name == NameOf(dev)
      prefix == PrefixOf(ioc)
      profile == GetProfile(Get(ioc, "devgroup"))
  IN  [name |-> name, ioc_name |-> Get(ioc, "name"), devgroup |-> Get(ioc, "devgroup"),
       devtype |-> OwnOr(dev, ioc, "devtype"), asset |-> OwnOr(dev, ioc, "asset"),
       devfunc |-> Or(Get(dev, "devfunc"),
                      IF profile = NoValue THEN NoValue ELSE DeriveDevfunc(profile, name, prefix)),
       zones |-> DeviceZones(ioc, dev),
       key_pvs |-> IF profile = NoValue THEN {} ELSE KeyPvs(profile, prefix, name)]

MatchesFilters(device, filters) ==
  /\ filters.devgroup \in {NoValue, device.devgroup}
  /\ filters.devfunc \in {NoValue, device.devfunc}
  /\ filters.zone = NoValue \/ {filters.zone, All} \cap device.zones # {}

(* A device without a name is passed over. *)
Listed(ioc, dev, filters) ==
  LET device == Device(ioc, dev)
  IN  IF device.name \notin Falsy /\ MatchesFilters(device, filters) THEN <<device>> ELSE <<>>

(* Where IOCs are keyed by their names, the keys are not looked at.        *)
ListDevices(file, filters) ==
  LET devicesOf(raw) ==
        LET ioc == MergeIocDefaults(file.iocDefaults, raw)
            devs == Or(Get(ioc, "devices"), <<>>)
        IN  FlattenSeq([j \in DOMAIN devs |-> Listed(ioc, devs[j], filters)])
  IN  FlattenSeq([i \in DOMAIN file.iocs |-> devicesOf(file.iocs[i])])

(* One device that breaks the parser, or an IOC that gives None for its    *)
(* devices, is the end of the listing.                                     *)
BreaksAt(ioc, dev) ==
  LET profile == GetProfile(Get(ioc, "devgroup"))
  IN  /\ NameOf(dev) \notin Falsy /\ Get(dev, "devfunc") \in Falsy
      /\ profile # NoValue /\ CannotDerive(profile, NameOf(dev), PrefixOf(ioc))

Breaks(file) ==
  \E i \in DOMAIN file.iocs :
    LET ioc == MergeIocDefaults(file.iocDefaults, file.iocs[i])
        devs == Or(Get(ioc, "devices"), <<>>)
    IN  \/ "devices" \in DOMAIN ioc /\ ioc.devices = NoValue
        \/ \E j \in DOMAIN devs : BreaksAt(ioc, devs[j])

----
(* What the file says, entry by entry and without merging anything: a key  *)
(* of an IOC is its own, or that of the defaults which it names.           *)

Says(file, ioc, key) ==
  IF key \in DOMAIN ioc THEN ioc[key]
  ELSE Get(Or(DefaultsOf(file.iocDefaults, ioc), <<>>), key)

HasName(dev) == \E key \in {"alias", "name"} : Get(dev, key) \notin Falsy

(* The devices of all IOCs that have a name, each with its place. *)
Named(file) ==
  UNION {LET devs == Or(Says(file, file.iocs[i], "devices"), <<>>)
         IN  {[ioc |-> file.iocs[i], dev |-> devs[j], at |-> <<i, j>>] :
                j \in {k \in DOMAIN devs : HasName(devs[k])}} :
         i \in DOMAIN file.iocs}

IsAskedFor(file, e, filters) ==
  LET zones == IF "zones" \in DOMAIN e.dev THEN e.dev.zones ELSE Says(file, e.ioc, "zones")
  IN  /\ filters.devgroup \in {NoValue, Says(file, e.ioc, "devgroup")}
      /\ filters.zone = NoValue \/ zones = NoValue \/ {filters.zone, All} \cap zones.zones # {}

(* A listing counts right if it misses no device that the file puts into   *)
(* the group and the zone asked for, and without a zone lists each once.   *)
CountsRight(file, filters, listing) ==
  LET asked == {e \in Named(file) : IsAskedFor(file, e, filters)}
  IN  filters.devfunc = NoValue =>
        /\ \A e \in asked : \E i \in DOMAIN listing :
             listing[i].name \in {Get(e.dev, "alias"), Get(e.dev, "name")}
        /\ filters.zone = NoValue => Len(listing) = Cardinality(asked)
====
