---- MODULE MCLogbook ----
EXTENDS Logbook

CONSTANTS old, new, ops, shift, typo, anna, bert, elsewhere

SomeRights == [p \in {anna, bert, Account} |-> IF p = anna THEN {ops} ELSE {ops, shift}]

Plain == [title |-> old, description |-> old, logbooks |-> ops, tags |-> NoTags]

WithSource ==
  [title |-> old, description |-> old, source |-> old, logbooks |-> shift, tags |-> NoTags,
   attachments |-> old]

SomeEntries == {Plain, WithSource}

NewEntry == [title |-> new, text |-> new, logbooks |-> ops]

Number(i) == [form |-> "number", facility |-> Here, number |-> i]

Code(facility, i) == [form |-> "code", facility |-> facility, number |-> i]

DeviceName == [form |-> "other", facility |-> Here, number |-> 1]

Update(who, name, changes) ==
  [tool |-> "update_logbook_entry", who |-> who, name |-> name, changes |-> changes]

Create(who, changes) ==
  [tool |-> "create_logbook_entry", who |-> who, name |-> Number(1), changes |-> changes]

Get(who, name) ==
  [tool |-> "get_logbook_entry", who |-> who, name |-> name, changes |-> [a \in {} |-> new]]

SomeAsks ==
  {Update(anna, Number(1), [title |-> new]),
   Update(anna, DeviceName, [text |-> new]),
   Update(bert, Code(Here, 1), [text |-> new]),
   Update(bert, Number(1), [logbooks |-> typo]),
   Update(bert, Code(elsewhere, 2), [text |-> new]),
   Update(NoToken, Number(1), [logbooks |-> shift]),
   Update(anna, Number(1), [a \in {} |-> new]),
   Create(anna, NewEntry),
   Create(NoToken, NewEntry),
   Get(anna, Code(Here, 1)),
   [Get(bert, Number(1)) EXCEPT !.tool = "get_alarm_history"]}
====
