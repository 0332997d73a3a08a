---- MODULE WritePermits ----
(***************************************************************************)
(* What two-step confirmation promises of the writes that need it, without *)
(* saying how it is kept: a permit is issued for one call of one caller,   *)
(* is good for TTL, and is used at most once.  It may be revoked at any    *)
(* time (a wrong call or caller presented it, ARGUS restarted) and it      *)
(* lapses by itself.  ConfirmedWrites implements this specification.       *)
(***************************************************************************)
EXTENDS Integers

CONSTANTS
  Ids,      \* the confirmation ids
  Calls,    \* a tool with its arguments
  Keys,     \* who is confirming, as ARGUS tells callers apart
  TTL       \* how long a permit is good for

VARIABLES
  now,        \* the clock
  permit,     \* permit[id]: what became of each id
  performed   \* the confirmed writes that were started, each with its id

vars == <<now, permit, performed>>

Unissued == [state |-> "unissued"]

Issued == [state: {"live", "used", "void"}, call: Calls, key: Keys, until: Int]

Write == [id: Ids, call: Calls, key: Keys, at: Int]

Live == {id \in Ids : permit[id].state = "live"}

Init ==
  /\ now = 0
  /\ permit = [id \in Ids |-> Unissued]
  /\ performed = {}

OthersKeepTheirs(id) == \A other \in Ids \ {id} : permit'[other] = permit[other]

Issue(id) ==
  /\ permit[id] = Unissued
  /\ permit'[id] \in [state: {"live"}, call: Calls, key: Keys, until: {now + TTL}]
  /\ OthersKeepTheirs(id)
  /\ UNCHANGED <<now, performed>>

(* The write starts: the only step that adds to performed. *)
Perform(id) ==
  /\ id \in Live
  /\ now < permit[id].until
  /\ permit'[id] = [permit[id] EXCEPT !.state = "used"]
  /\ OthersKeepTheirs(id)
  /\ performed' = performed \cup
       {[id |-> id, call |-> permit[id].call, key |-> permit[id].key, at |-> now]}
  /\ UNCHANGED now

Voids(id) == permit'[id] = [permit[id] EXCEPT !.state = "void"]

(* Any of the live permits are lost. *)
Revoke ==
  /\ \A id \in Ids : permit'[id] = permit[id] \/ (id \in Live /\ Voids(id))
  /\ UNCHANGED <<now, performed>>

(* Time passes: the permits whose time is up lapse, the others stay. *)
Tick ==
  /\ now' = now + 1
  /\ \A id \in Ids :
       IF id \in Live /\ permit[id].until <= now' THEN Voids(id) ELSE permit'[id] = permit[id]
  /\ UNCHANGED performed

Next == (\E id \in Ids : Issue(id) \/ Perform(id)) \/ Revoke \/ Tick

Spec == Init /\ [][Next]_vars
====
