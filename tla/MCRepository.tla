---- MODULE MCRepository ----
EXTENDS Repository, TLC

CONSTANTS q1, d1, s1, s2, m1, pre

(* Whose names and prefixes hold which substrings. *)
SomeHas ==
  [x \in {q1, d1, s1, s2, m1, pre, NoValue, NoText} |->
     IF x = q1 THEN {"QUA"} ELSE IF x = d1 THEN {"DIP", "COR"} ELSE IF x \in {s1, s2} THEN {"SLT"}
     ELSE IF x = pre THEN {"MIR"} ELSE {}]

One(zone) == [list |-> FALSE, zones |-> {zone}]

Many(zones) == [list |-> TRUE, zones |-> zones]

Defaults ==
  [danfysik |-> [devgroup |-> "mag", devtype |-> "sys8x00", asset |-> "rack"],
   unimotor |-> [devgroup |-> "mot", zones |-> Many({"BTF1", "BTF2"})]]

(* An IOC that inherits by its template, with a device of its own zone.    *)
Magnets ==
  [name |-> "danfysik-1", template |-> "danfysik", iocprefix |-> pre, zones |-> One("TL"),
   devices |-> <<[name |-> q1], [name |-> d1, zones |-> Many({"BTF2"}), devfunc |-> "DIP"],
                 [alias |-> q1, name |-> d1, devtype |-> NoValue], [asset |-> "none"]>>]

(* One that inherits by its devtype, and one that inherits nothing. *)
Motors ==
  [name |-> "unimotor", devtype |-> "unimotor", devices |-> <<[name |-> s1], [name |-> m1, zones |-> One(All)]>>]

Bare == [name |-> "bare", template |-> "unknown", devgroup |-> "vac", devices |-> <<[name |-> s2]>>]

Empty == [name |-> "empty", devgroup |-> "diag", zones |-> One(NoText)]

(* Without a prefix, though the key is given. *)
NoPrefix == [name |-> "no-prefix", devgroup |-> "mot", iocprefix |-> NoValue, devices |-> <<[name |-> s1], [name |-> m1]>>]

File(iocs) == [iocDefaults |-> Defaults, iocs |-> iocs]

First == File(<<Magnets, Motors>>)

Second == File(<<Bare, Empty, Magnets>>)

SomeContents ==
  [repo \in Repos |->
     IF repo = "beamline" THEN [main |-> <<First>>, devel |-> <<File(<<Bare, NoPrefix>>), Second>>]
     ELSE [main |-> <<Unparsable>>, devel |-> <<Second>>]]

SomeHosts == [repo \in Repos |-> IF repo = "beamline" THEN "baltig" ELSE IF repo \in {"chart", "mirror"} THEN "github" ELSE "gitea"]

Issue(id, updated, created) == [id |-> id, updated |-> updated, created |-> created, zoned |-> TRUE]

SomeIssues ==
  [repo \in Repos |->
     IF repo = "beamline" THEN {Issue(1, 5, 1), Issue(2, NoValue, 3)}
     ELSE IF repo = "chart" THEN {Issue(3, 4, 2), Issue(4, NoValue, NoValue)}
     ELSE IF repo = "mirror" THEN {[Issue(5, 6, NoValue) EXCEPT !.zoned = FALSE]} ELSE {}]

SomeDefaults == {<<"beamline", "chart">>, <<>>}

Filters(group, func, zone) == [devgroup |-> group, devfunc |-> func, zone |-> zone]

Everything == Filters(NoValue, NoValue, NoValue)

List(repo, ref, filters) ==
  [tool |-> "list_beamline_devices", repo |-> repo, ref |-> ref, sha |-> NoValue, filters |-> filters]

Config(repo, ref, sha) == [tool |-> "get_config_history", repo |-> repo, ref |-> ref, sha |-> sha]

Find(repos) == [tool |-> "search_knowledge_base", repos |-> repos]

SomeQuestions ==
  {List(NoValue, HeadRef, Everything), List("beamline", "main", Filters("mag", NoValue, "BTF2")),
   Config("beamline", HeadRef, NoValue), Config("chart", NoValue, NoValue), List("chart", "main", Everything),
   Config("beamline", HeadRef, [branch |-> "devel", version |-> 1]),
   Config("gitea", HeadRef, NoValue), Find({"gitea"}), Find({}), Find({"chart", "mirror"})}

CallSymmetry == Permutations(Readers)
====
