---- MODULE OperationsProofs ----
(***************************************************************************)
(* What the operations service guarantees.                                 *)
(*                                                                         *)
(* IocCache, for any number of tasks and namespaces, any TTL and any size  *)
(* of the cache: shared fetches and the bound always, and the right, not   *)
(* needlessly stale listing where the configured default namespace is the  *)
(* one called default, as the cache keys assume.                           *)
(*                                                                         *)
(* PvCalls, for any number of calls, with and without the override, and    *)
(* however often others change the PV: what a read shows, what an accepted *)
(* write has done, how often a write lands, and that calls on one circuit  *)
(* take effect in order.                                                   *)
(***************************************************************************)
EXTENDS IocCache, PvCalls, FiniteSetTheorems, TLAPS

----
(* The listing of IOC pods through the cache, and the restart. *)

FiniteStore == IsFiniteSet(store)

(* What concerns keys and locks only. *)
LockInv == CacheTypes /\ FiniteStore /\ SharedFetch /\ CacheIsBounded

(* An entry, or what a fetch has read, is of the namespace of its key. *)
ReadsAreOfTheirKey ==
  /\ \A e \in store : e.value.namespace = e.key
  /\ \A t \in Tasks : task[t].pc = "fetching" =>
       \A value \in task[t].read : value.namespace = NamespaceOrDefault(task[t].arg)

(* Versions that a restart has left are past, confirmed or not yet. *)
RestartsArePast ==
  /\ \A n \in Namespaces : confirmed[n] <= version[n]
  /\ \A t \in Tasks : task[t].pc = "deleting" =>
       \A left \in task[t].left : left <= version[task[t].namespace]

(* A clean fetch has no restart of its namespace beside it, and has read   *)
(* what the last confirmed one left or something newer.                    *)
CleanFetchIsAlone ==
  \A t \in Tasks :
    (task[t].pc = "fetching" /\ task[t].clean) =>
      /\ RestartsOf(NamespaceOrDefault(task[t].arg)) = {}
      /\ \A value \in task[t].read : value.version >= confirmed[value.namespace]

ListingInv ==
  ReadsAreOfTheirKey /\ RightNamespace /\ RestartsArePast /\ CleanFetchIsAlone /\ StaleOnlyByOverlap

----
(* What a store leaves: the new entry, fresh ones of other keys, and no    *)
(* more than fit.                                                          *)
LEMMA StoredFits ==
  ASSUME LockInv, NEW key \in Keys, NEW value \in Listing, NEW clean \in BOOLEAN,
         NEW left \in Stored(key, value, clean)
  PROVE  /\ left \subseteq CacheEntry
         /\ \A e \in left :
              \/ e = [key |-> key, value |-> value, clean |-> clean, expires |-> now + TTL]
              \/ e \in store /\ e.key # key
         /\ IsFiniteSet(left)
         /\ Cardinality(left) <= MaxSize
<1>. DEFINE others == {e \in Fresh : e.key # key}
            new == [key |-> key, value |-> value, clean |-> clean, expires |-> now + TTL]
<1>. USE DEF LockInv, FiniteStore, CacheIsBounded
<1>1. others \subseteq store /\ IsFiniteSet(others) /\ Cardinality(others) <= MaxSize
  <2>1. others \subseteq store
    BY DEF Fresh
  <2>2. IsFiniteSet(others) /\ Cardinality(others) <= Cardinality(store)
    BY <2>1, FS_Subset
  <2>. QED
    BY <2>1, <2>2, FS_CardinalityType, CacheAssumption
<1>2. new \in CacheEntry /\ new \notin others
  BY CacheAssumption DEF CacheTypes, CacheEntry
<1>. HIDE DEF others, new
<1>3. CASE Cardinality(others) < MaxSize
  <2>1. left = others \cup {new}
    BY <1>3 DEF Stored, others, new
  <2>2. IsFiniteSet(left) /\ Cardinality(left) = Cardinality(others) + 1
    BY <1>1, <1>2, <2>1, FS_AddElement
  <2>3. Cardinality(left) <= MaxSize
    BY <1>1, <1>3, <2>2, FS_CardinalityType, CacheAssumption
  <2>. QED
    BY <1>1, <1>2, <2>1, <2>2, <2>3 DEF CacheTypes, others, new
<1>4. CASE ~ Cardinality(others) < MaxSize
  <2>1. PICK e \in others : left = (others \ {e}) \cup {new}
    BY <1>4 DEF Stored, others, new
  <2>2. IsFiniteSet(others \ {e}) /\ Cardinality(others \ {e}) = Cardinality(others) - 1
    BY <1>1, <2>1, FS_RemoveElement
  <2>3. IsFiniteSet(left) /\ Cardinality(left) = Cardinality(others \ {e}) + 1
    BY <1>2, <2>1, <2>2, FS_AddElement
  <2>4. Cardinality(left) <= MaxSize
    BY <1>1, <2>2, <2>3, FS_CardinalityType, CacheAssumption
  <2>. QED
    BY <1>1, <1>2, <2>1, <2>3, <2>4 DEF CacheTypes, others, new
<1>. QED BY <1>3, <1>4

----
(* A namespace that is asked for gives a key. *)
LEMMA CacheKeyType == ASSUME NEW arg \in Args PROVE CacheKey(arg) \in Keys
  BY NamespaceAssumption DEF CacheKey, Args, Keys

(* It stands for a namespace. *)
LEMMA NamespaceType == ASSUME NEW arg \in Args PROVE NamespaceOrDefault(arg) \in Namespaces
  BY NamespaceAssumption DEF NamespaceOrDefault, Args

LEMMA TypeStep == ASSUME LockInv, [CacheNext]_cacheVars PROVE CacheTypes'
<1>. USE NamespaceAssumption, CacheAssumption DEF LockInv, CacheTypes, Becomes
<1>1. ASSUME NEW t \in Tasks, NEW arg \in Args, StartFetch(t, arg)
      PROVE  task' \in [Tasks -> TaskStates]
  BY <1>1 DEF StartFetch, Fetching, TaskStates
<1>2. ASSUME NEW t \in Tasks, NEW arg \in Args, AnsweredFromCache(t, arg)
      PROVE  task' \in [Tasks -> TaskStates]
  BY <1>2 DEF AnsweredFromCache, Hits, Fresh, CacheEntry, Listed, TaskStates
<1>3. ASSUME NEW t \in Tasks, NEW arg \in Args, List(t, arg) PROVE CacheTypes'
  <2>1. CacheKey(arg) \in Keys
    BY CacheKeyType
  <2>2. task' \in [Tasks -> TaskStates]
    BY <1>1, <1>2, <1>3 DEF List, TaskStates
  <2>. QED BY <1>3, <2>1, <2>2 DEF List
<1>4. ASSUME NEW t \in Tasks, GetLock(t) PROVE CacheTypes'
  <2>1. task[t].arg \in Args
    BY <1>4 DEF GetLock, TaskStates, Unused, Waiting, Fetching, Listed, Deleting, EndedWith
  <2>2. task' \in [Tasks -> TaskStates]
    BY <1>1, <1>2, <1>4, <2>1 DEF GetLock
  <2>. QED BY <1>4, <2>1, <2>2, CacheKeyType DEF GetLock
<1>5. ASSUME NEW t \in Tasks, task[t].pc = "fetching"
      PROVE  /\ task[t] \in [pc: {"fetching"}, arg: Args, read: SUBSET Listing, clean: BOOLEAN]
             /\ CacheKey(task[t].arg) \in Keys
             /\ NamespaceOrDefault(task[t].arg) \in Namespaces
  <2>1. task[t] \in [pc: {"fetching"}, arg: Args, read: SUBSET Listing, clean: BOOLEAN]
    BY <1>5 DEF TaskStates, Unused, Waiting, Listed, Deleting, EndedWith
  <2>. QED BY <2>1, CacheKeyType, NamespaceType
<1>6. ASSUME NEW t \in Tasks, ServerLists(t) PROVE CacheTypes'
  <2>. DEFINE n == NamespaceOrDefault(task[t].arg)
              read == {[namespace |-> n, version |-> version[n]]}
  <2>1. read \subseteq Listing
    BY <1>5, <1>6 DEF ServerLists, Listing
  <2>2. [task[t] EXCEPT !.read = read] \in TaskStates
    BY <1>5, <1>6, <2>1 DEF ServerLists, TaskStates
  <2>3. task' = [task EXCEPT ![t] = [task[t] EXCEPT !.read = read]]
    BY <1>6 DEF ServerLists
  <2>. QED BY <1>6, <2>2, <2>3 DEF ServerLists
<1>7. ASSUME NEW t \in Tasks, FetchAnswered(t) PROVE CacheTypes'
  <2>1. CASE Fetched(t)
    <3>1. PICK value \in task[t].read :
            /\ store' \in Stored(CacheKey(task[t].arg), value, task[t].clean)
            /\ Becomes(t, Listed(task[t].arg, value))
      BY <2>1 DEF Fetched
    <3>2. store' \subseteq CacheEntry
      BY <1>5, <2>1, <3>1, StoredFits DEF Fetched
    <3>3. task' \in [Tasks -> TaskStates]
      BY <1>5, <2>1, <3>1 DEF Fetched, Listed, TaskStates
    <3>. QED BY <2>1, <3>2, <3>3 DEF Fetched, Release
  <2>2. CASE FetchFails(t)
    BY <2>2 DEF FetchFails, Release, EndedWith, TaskStates
  <2>. QED BY <1>7, <2>1, <2>2 DEF FetchAnswered
<1>8. ASSUME NEW t \in Tasks, Cancel(t) \/ Deliver(t) PROVE CacheTypes'
  BY <1>8 DEF Cancel, Deliver, Release, TaskStates
<1>9. ASSUME NEW t \in Tasks, NEW n \in Namespaces, Restart(t, n) PROVE CacheTypes'
  <2>1. ASSUME NEW u \in Tasks PROVE task'[u] \in TaskStates
    <3>1. CASE u = t
      BY <1>9, <3>1 DEF Restart, Deleting, TaskStates
    <3>2. CASE u # t /\ task[u].pc = "fetching"
      <4>1. [task[u] EXCEPT !.clean = FALSE] \in TaskStates
        BY <1>5, <3>2 DEF TaskStates
      <4>. QED BY <1>9, <3>2, <4>1 DEF Restart
    <3>3. CASE u # t /\ task[u].pc # "fetching"
      BY <1>9, <3>3 DEF Restart
    <3>. QED BY <3>1, <3>2, <3>3
  <2>. QED BY <1>9, <2>1 DEF Restart
<1>10. ASSUME NEW t \in Tasks, task[t].pc = "deleting"
       PROVE  task[t] \in [pc: {"deleting"}, namespace: Namespaces, left: SUBSET (0..MaxVersion)]
  BY <1>10 DEF TaskStates, Unused, Waiting, Listed, EndedWith
<1>11. ASSUME NEW t \in Tasks, ServerDeletes(t) PROVE CacheTypes'
  <2>. DEFINE n == task[t].namespace
              left == {version[n] + 1}
  <2>1. n \in Namespaces /\ version[n] + 1 \in 0..MaxVersion
    BY <1>10, <1>11 DEF ServerDeletes
  <2>2. [task[t] EXCEPT !.left = left] \in TaskStates
    BY <1>10, <1>11, <2>1 DEF ServerDeletes, TaskStates
  <2>3. task' = [task EXCEPT ![t] = [task[t] EXCEPT !.left = left]]
    BY <1>11 DEF ServerDeletes
  <2>. QED BY <1>11, <2>1, <2>2, <2>3 DEF ServerDeletes
<1>12. ASSUME NEW t \in Tasks, RestartAnswered(t) PROVE CacheTypes'
  <2>1. CASE Restarted(t)
    BY <1>10, <2>1 DEF Restarted, Invalidate, EndedWith, TaskStates
  <2>2. CASE RestartFails(t)
    BY <2>2 DEF RestartFails, EndedWith, TaskStates
  <2>. QED BY <1>12, <2>1, <2>2 DEF RestartAnswered
<1>13. ASSUME NEW n \in Namespaces, PodsChange(n) PROVE CacheTypes'
  BY <1>13 DEF PodsChange
<1>14. CASE Tick \/ UNCHANGED cacheVars
  BY <1>14 DEF Tick, cacheVars
<1>. QED
  BY <1>3, <1>4, <1>6, <1>7, <1>8, <1>9, <1>11, <1>12, <1>13, <1>14 DEF CacheNext

----
(* What a task is, from where it is. *)
LEMMA TaskIs ==
  ASSUME CacheTypes, NEW t \in Tasks
  PROVE  /\ task[t].pc \in {"waiting", "fetching"} => task[t].arg \in Args
         /\ task[t].pc = "fetching" => /\ task[t].read \subseteq Listing
                                       /\ task[t].clean \in BOOLEAN
         /\ task[t].pc = "deleting" => /\ task[t].namespace \in Namespaces
                                       /\ task[t].left \subseteq 0..MaxVersion
  BY DEF CacheTypes, TaskStates, Unused, Waiting, Fetching, Listed, Deleting, EndedWith

(* What the API server's part of a fetch changes. *)
LEMMA ServerListsIs ==
  ASSUME CacheTypes, NEW t \in Tasks, ServerLists(t)
  PROVE  /\ \A u \in Tasks \ {t} : task'[u] = task[u]
         /\ task[t].pc = "fetching" /\ task'[t].pc = "fetching"
         /\ task'[t].arg = task[t].arg /\ task'[t].clean = task[t].clean
         /\ LET n == NamespaceOrDefault(task[t].arg)
            IN  task'[t].read = {[namespace |-> n, version |-> version[n]]}
<1>1. task[t] \in [pc: {"fetching"}, arg: Args, read: SUBSET Listing, clean: BOOLEAN]
  BY DEF CacheTypes, ServerLists, TaskStates, Unused, Waiting, Deleting, Listed, EndedWith
<1>2. LET n == NamespaceOrDefault(task[t].arg)
          read == {[namespace |-> n, version |-> version[n]]}
      IN  task' = [task EXCEPT ![t] = [task[t] EXCEPT !.read = read]]
  BY DEF ServerLists
<1>. QED BY <1>1, <1>2 DEF CacheTypes

(* What the API server's part of a restart changes. *)
LEMMA ServerDeletesIs ==
  ASSUME CacheTypes, NEW t \in Tasks, ServerDeletes(t)
  PROVE  /\ \A u \in Tasks \ {t} : task'[u] = task[u]
         /\ task[t].pc = "deleting" /\ task'[t].pc = "deleting"
         /\ task'[t].namespace = task[t].namespace
         /\ task'[t].left = {version[task[t].namespace] + 1}
<1>1. task[t] \in [pc: {"deleting"}, namespace: Namespaces, left: SUBSET (0..MaxVersion)]
  BY DEF CacheTypes, ServerDeletes, TaskStates, Unused, Waiting, Fetching, Listed, EndedWith
<1>2. task' = [task EXCEPT ![t] = [task[t] EXCEPT !.left = {version[task[t].namespace] + 1}]]
  BY DEF ServerDeletes
<1>. QED BY <1>1, <1>2 DEF CacheTypes

(* A restart begins: the fetches beside it are no longer clean. *)
LEMMA RestartIs ==
  ASSUME CacheTypes, NEW t \in Tasks, NEW n \in Namespaces, Restart(t, n), NEW u \in Tasks
  PROVE  /\ u = t => task[u] = Unused /\ task'[u] = Deleting(n, {})
         /\ (u # t /\ task[u].pc # "fetching") => task'[u] = task[u]
         /\ (u # t /\ task[u].pc = "fetching") =>
              /\ task'[u].pc = "fetching"
              /\ task'[u].arg = task[u].arg
              /\ task'[u].read = task[u].read
              /\ task'[u].clean => (task[u].clean /\ NamespaceOrDefault(task[u].arg) # n)
<1>1. CASE u # t /\ task[u].pc = "fetching"
  <2>1. task[u] \in [pc: {"fetching"}, arg: Args, read: SUBSET Listing, clean: BOOLEAN]
    BY <1>1 DEF CacheTypes, TaskStates, Unused, Waiting, Deleting, Listed, EndedWith
  <2>2. task'[u] = IF NamespaceOrDefault(task[u].arg) = n THEN [task[u] EXCEPT !.clean = FALSE]
                   ELSE task[u]
    BY <1>1 DEF Restart
  <2>. QED BY <1>1, <2>1, <2>2
<1>2. CASE ~ (u # t /\ task[u].pc = "fetching")
  BY <1>2 DEF Restart
<1>. QED BY <1>1, <1>2

LEMMA SharedFetchStep == ASSUME LockInv, [CacheNext]_cacheVars PROVE SharedFetch'
<1>. USE NamespaceAssumption
     DEF LockInv, CacheTypes, SharedFetch, Becomes, Unused, Waiting, Fetching, Listed, EndedWith
<1>1. ASSUME NEW t \in Tasks, NEW arg \in Args, List(t, arg) PROVE SharedFetch'
  BY <1>1, CacheKeyType DEF List, AnsweredFromCache, StartFetch, LockIsFree
<1>2. ASSUME NEW t \in Tasks, GetLock(t) PROVE SharedFetch'
  BY <1>2, TaskIs, CacheKeyType DEF GetLock, AnsweredFromCache, StartFetch
<1>3. ASSUME NEW t \in Tasks, ServerLists(t) PROVE SharedFetch'
  BY <1>3, ServerListsIs DEF ServerLists
<1>4. ASSUME NEW t \in Tasks, FetchAnswered(t) \/ Cancel(t) \/ Deliver(t) PROVE SharedFetch'
  <2>1. task'[t].pc # "fetching" /\ \A u \in Tasks \ {t} : task'[u] = task[u]
    BY <1>4 DEF FetchAnswered, Fetched, FetchFails, Cancel, Deliver
  <2>2. task[t].pc \in {"listed", "ended"} => \A key \in Keys : holder[key] # t
    OBVIOUS
  <2>3. holder' = [key \in Keys |-> IF holder[key] = t THEN NoTask ELSE holder[key]]
    BY <1>4, <2>2 DEF FetchAnswered, Fetched, FetchFails, Cancel, Deliver, Release
  <2>. QED BY <2>1, <2>3
<1>5. ASSUME NEW t \in Tasks, NEW n \in Namespaces, Restart(t, n) PROVE SharedFetch'
  BY <1>5, RestartIs DEF Restart, Deleting
<1>6. ASSUME NEW t \in Tasks, ServerDeletes(t) \/ RestartAnswered(t) PROVE SharedFetch'
  <2>1. task[t].pc = "deleting" /\ task'[t].pc # "fetching"
        /\ \A u \in Tasks \ {t} : task'[u] = task[u]
    BY <1>6, ServerDeletesIs DEF RestartAnswered, Restarted, RestartFails
  <2>2. UNCHANGED holder
    BY <1>6 DEF ServerDeletes, RestartAnswered, Restarted, RestartFails
  <2>. QED BY <2>1, <2>2
<1>7. CASE (\E n \in Namespaces : PodsChange(n)) \/ Tick \/ UNCHANGED cacheVars
  BY <1>7 DEF PodsChange, Tick, cacheVars
<1>. QED
  BY <1>1, <1>2, <1>3, <1>4, <1>5, <1>6, <1>7 DEF CacheNext

LEMMA BoundStep == ASSUME LockInv, [CacheNext]_cacheVars PROVE FiniteStore' /\ CacheIsBounded'
<1>. USE DEF LockInv, FiniteStore, CacheIsBounded
<1>1. ASSUME NEW t \in Tasks, Fetched(t) PROVE FiniteStore' /\ CacheIsBounded'
  <2>1. PICK value \in task[t].read :
          store' \in Stored(CacheKey(task[t].arg), value, task[t].clean)
    BY <1>1 DEF Fetched
  <2>2. /\ CacheKey(task[t].arg) \in Keys
        /\ value \in Listing
        /\ task[t].clean \in BOOLEAN
    BY <1>1, <2>1, TaskIs, CacheKeyType DEF Fetched
  <2>. QED BY <2>1, <2>2, StoredFits
<1>2. ASSUME NEW t \in Tasks, Restarted(t) PROVE FiniteStore' /\ CacheIsBounded'
  <2>1. store' \subseteq store
    BY <1>2 DEF Restarted, Invalidate
  <2>2. IsFiniteSet(store') /\ Cardinality(store') <= Cardinality(store)
    BY <2>1, FS_Subset
  <2>. QED BY <2>1, <2>2, FS_CardinalityType, CacheAssumption
<1>3. ASSUME UNCHANGED store PROVE FiniteStore' /\ CacheIsBounded'
  BY <1>3
<1>. QED
  BY <1>1, <1>2, <1>3
     DEF CacheNext, cacheVars, List, GetLock, ServerLists, FetchAnswered, FetchFails, Cancel, Restart,
         ServerDeletes, RestartAnswered, RestartFails, Deliver, PodsChange, Tick

LEMMA LockInvariance == CacheSpec => []LockInv
<1>1. CacheInit => LockInv
  <2>. SUFFICES ASSUME CacheInit PROVE LockInv
    OBVIOUS
  <2>1. CacheTypes
    BY NamespaceAssumption, CacheAssumption DEF CacheInit, CacheTypes, TaskStates, Keys
  <2>2. FiniteStore /\ CacheIsBounded
    BY FS_EmptySet, CacheAssumption DEF CacheInit, FiniteStore, CacheIsBounded
  <2>3. SharedFetch
    BY NamespaceAssumption DEF CacheInit, SharedFetch, Unused
  <2>. QED BY <2>1, <2>2, <2>3 DEF LockInv
<1>2. LockInv /\ [CacheNext]_cacheVars => LockInv'
  BY TypeStep, SharedFetchStep, BoundStep DEF LockInv
<1>. QED
  BY <1>1, <1>2, PTL DEF CacheSpec

----
(* A step that makes a fetch out of a call finds nothing fresh.  *)
LEMMA FetchStep ==
  ASSUME LockInv, [CacheNext]_cacheVars, NEW t \in Tasks, task[t].pc # "fetching", task'[t].pc = "fetching"
  PROVE  Hits(CacheKey(task'[t].arg)) = {}
<1>. USE DEF LockInv, CacheTypes, Becomes, Unused, Waiting, Fetching, Listed, EndedWith, Deleting
<1>1. ASSUME NEW u \in Tasks, NEW arg \in Args, List(u, arg)
      PROVE  Hits(CacheKey(task'[t].arg)) = {}
  BY <1>1 DEF List, AnsweredFromCache, StartFetch
<1>2. ASSUME NEW u \in Tasks, GetLock(u)
      PROVE  Hits(CacheKey(task'[t].arg)) = {}
  BY <1>2 DEF GetLock, AnsweredFromCache, StartFetch
<1>3. ASSUME NEW u \in Tasks, NEW n \in Namespaces, Restart(u, n) PROVE FALSE
  <2>1. CASE t = u
    BY <1>3, <2>1 DEF Restart
  <2>2. CASE t # u
    BY <1>3, <2>2, RestartIs
  <2>. QED BY <2>1, <2>2
<1>4. ASSUME NEW u \in Tasks, ServerLists(u) \/ ServerDeletes(u) PROVE FALSE
  BY <1>4, ServerListsIs, ServerDeletesIs
<1>5. ASSUME NEW u \in Tasks,
             FetchAnswered(u) \/ RestartAnswered(u) \/ Cancel(u) \/ Deliver(u)
      PROVE  FALSE
  BY <1>5 DEF FetchAnswered, Fetched, FetchFails, RestartAnswered, Restarted, RestartFails,
              Cancel, Deliver
<1>6. CASE (\E n \in Namespaces : PodsChange(n)) \/ Tick \/ UNCHANGED cacheVars
  BY <1>6 DEF PodsChange, Tick, cacheVars
<1>. QED
  BY <1>1, <1>2, <1>3, <1>4, <1>5, <1>6 DEF CacheNext

----
(* Where the configured default namespace is the one called default, an    *)
(* entry's key is the namespace that was asked for.                        *)
LEMMA KeyIsNamespace ==
  ASSUME DefaultNamespace = DefaultName, NEW arg \in Args
  PROVE  CacheKey(arg) = NamespaceOrDefault(arg)
  BY DEF CacheKey, NamespaceOrDefault

LEMMA ReadsStep ==
  ASSUME DefaultNamespace = DefaultName, LockInv, ListingInv, [CacheNext]_cacheVars
  PROVE  ReadsAreOfTheirKey' /\ RightNamespace'
<1>. DEFINE Goal == ReadsAreOfTheirKey /\ RightNamespace
<1>. USE NamespaceAssumption
     DEF LockInv, ListingInv, CacheTypes, ReadsAreOfTheirKey, RightNamespace, Becomes, Unused, Waiting,
         Fetching, Listed, EndedWith
<1>1. ASSUME NEW t \in Tasks, NEW arg \in Args, AnsweredFromCache(t, arg)
      PROVE  \A u \in Tasks : task'[u].pc = "listed" =>
               task'[u].value.namespace = NamespaceOrDefault(task'[u].arg)
  BY <1>1, KeyIsNamespace DEF AnsweredFromCache, Hits, Fresh
<1>2. ASSUME NEW t \in Tasks, NEW arg \in Args, List(t, arg) PROVE Goal'
  BY <1>1, <1>2 DEF List, StartFetch, AnsweredFromCache
<1>3. ASSUME NEW t \in Tasks, GetLock(t) PROVE Goal'
  <2>1. task[t].arg \in Args
    BY <1>3, TaskIs DEF GetLock
  <2>. QED BY <1>1, <1>3, <2>1 DEF GetLock, StartFetch, AnsweredFromCache
<1>4. ASSUME NEW t \in Tasks, ServerLists(t) PROVE Goal'
  BY <1>4, ServerListsIs DEF ServerLists
<1>5. ASSUME NEW t \in Tasks, Fetched(t) PROVE Goal'
  <2>1. PICK value \in task[t].read :
          /\ store' \in Stored(CacheKey(task[t].arg), value, task[t].clean)
          /\ Becomes(t, Listed(task[t].arg, value))
    BY <1>5 DEF Fetched
  <2>2. /\ task[t].arg \in Args
        /\ value \in Listing
        /\ task[t].clean \in BOOLEAN
        /\ CacheKey(task[t].arg) \in Keys
    BY <1>5, <2>1, TaskIs, CacheKeyType DEF Fetched
  <2>3. value.namespace = NamespaceOrDefault(task[t].arg)
    BY <1>5, <2>1 DEF Fetched
  <2>4. \A e \in store' : e.value.namespace = e.key
    BY <2>1, <2>2, <2>3, StoredFits, KeyIsNamespace
  <2>. QED BY <2>1, <2>3, <2>4
<1>6. ASSUME NEW t \in Tasks, FetchFails(t) \/ Cancel(t) \/ RestartAnswered(t) \/ Deliver(t)
      PROVE  Goal'
  BY <1>6 DEF FetchFails, Cancel, RestartAnswered, Restarted, RestartFails, Invalidate, Deliver
<1>7. ASSUME NEW t \in Tasks, NEW n \in Namespaces, Restart(t, n) PROVE Goal'
  BY <1>7, RestartIs DEF Restart, Deleting
<1>8. ASSUME NEW t \in Tasks, ServerDeletes(t) PROVE Goal'
  BY <1>8, ServerDeletesIs DEF ServerDeletes
<1>9. CASE (\E n \in Namespaces : PodsChange(n)) \/ Tick \/ UNCHANGED cacheVars
  BY <1>9 DEF PodsChange, Tick, cacheVars
<1>. QED
  BY <1>2, <1>3, <1>4, <1>5, <1>6, <1>7, <1>8, <1>9 DEF CacheNext, FetchAnswered

----
(* Staleness: what a step does to versions, clean fetches and entries. *)
LEMMA VersionStep ==
  ASSUME LockInv, ListingInv, [CacheNext]_cacheVars
  PROVE  RestartsArePast'
<1>. USE NamespaceAssumption, CacheAssumption
     DEF LockInv, ListingInv, CacheTypes, RestartsArePast, Becomes, Unused, Waiting, Fetching, Listed,
         EndedWith, Deleting
<1>1. ASSUME NEW t \in Tasks, NEW arg \in Args, List(t, arg) PROVE RestartsArePast'
  BY <1>1 DEF List, StartFetch, AnsweredFromCache
<1>2. ASSUME NEW t \in Tasks, GetLock(t) PROVE RestartsArePast'
  BY <1>2 DEF GetLock, StartFetch, AnsweredFromCache
<1>3. ASSUME NEW t \in Tasks, ServerLists(t) PROVE RestartsArePast'
  BY <1>3, ServerListsIs DEF ServerLists
<1>4. ASSUME NEW t \in Tasks, FetchAnswered(t) \/ Cancel(t) \/ Deliver(t) \/ RestartFails(t)
      PROVE  RestartsArePast'
  BY <1>4 DEF FetchAnswered, Fetched, FetchFails, Cancel, Deliver, RestartFails
<1>5. ASSUME NEW t \in Tasks, NEW n \in Namespaces, Restart(t, n) PROVE RestartsArePast'
  BY <1>5, RestartIs DEF Restart
<1>6. ASSUME NEW t \in Tasks, ServerDeletes(t) PROVE RestartsArePast'
  <2>1. /\ task[t].namespace \in Namespaces
        /\ version' = [version EXCEPT ![task[t].namespace] = @ + 1]
        /\ UNCHANGED confirmed
    BY <1>6, TaskIs DEF ServerDeletes
  <2>2. \A n \in Namespaces : version[n] <= version'[n]
    BY <2>1
  <2>. QED BY <1>6, <2>1, <2>2, ServerDeletesIs, TaskIs
<1>7. ASSUME NEW t \in Tasks, Restarted(t) PROVE RestartsArePast'
  <2>1. task[t].namespace \in Namespaces /\ task[t].left \subseteq 0..MaxVersion
    BY <1>7, TaskIs DEF Restarted
  <2>. QED BY <1>7, <2>1 DEF Restarted
<1>8. ASSUME NEW n \in Namespaces, PodsChange(n) PROVE RestartsArePast'
  <2>1. \A m \in Namespaces : version[m] <= version'[m]
    BY <1>8 DEF PodsChange
  <2>. QED BY <1>8, <2>1, TaskIs DEF PodsChange
<1>9. CASE Tick \/ UNCHANGED cacheVars
  BY <1>9 DEF Tick, cacheVars
<1>. QED
  BY <1>1, <1>2, <1>3, <1>4, <1>5, <1>6, <1>7, <1>8, <1>9 DEF CacheNext, RestartAnswered

(* A task that starts to fetch beside no restart keeps clean fetches alone. *)
LEMMA CleanFetchKept ==
  ASSUME LockInv, CleanFetchIsAlone, StaleOnlyByOverlap, UNCHANGED <<store, version, confirmed>>,
         NEW t \in Tasks, task'[t].pc # "deleting", \A u \in Tasks \ {t} : task'[u] = task[u],
         task'[t].pc = "fetching" =>
           /\ task'[t].read = {}
           /\ task'[t].clean => RestartsOf(NamespaceOrDefault(task'[t].arg)) = {}
  PROVE  CleanFetchIsAlone' /\ StaleOnlyByOverlap'
<1>1. ASSUME NEW u \in Tasks, task'[u].pc = "fetching", task'[u].clean
      PROVE  /\ RestartsOf(NamespaceOrDefault(task'[u].arg)) = {}
             /\ \A value \in task'[u].read : value.version >= confirmed'[value.namespace]
  BY <1>1 DEF CleanFetchIsAlone
<1>2. StaleOnlyByOverlap'
  BY DEF StaleOnlyByOverlap
<1>. QED
  BY <1>1, <1>2 DEF CleanFetchIsAlone, RestartsOf

(* How a fetch starts. *)
LEMMA StartFetchIs ==
  ASSUME CacheTypes, NEW t \in Tasks, NEW arg \in Args, StartFetch(t, arg)
  PROVE  /\ task'[t].arg = arg /\ task'[t].read = {}
         /\ task'[t].clean = (RestartsOf(NamespaceOrDefault(arg)) = {})
<1>1. task'[t] = Fetching(arg, {}, RestartsOf(NamespaceOrDefault(arg)) = {})
  BY DEF CacheTypes, StartFetch, Becomes
<1>2. \A clean : /\ Fetching(arg, {}, clean).arg = arg
                 /\ Fetching(arg, {}, clean).read = {}
                 /\ Fetching(arg, {}, clean).clean = clean
  BY DEF Fetching
<1>. QED BY <1>1, <1>2, Zenon

LEMMA StalenessStep ==
  ASSUME DefaultNamespace = DefaultName, LockInv, ListingInv, [CacheNext]_cacheVars
  PROVE  CleanFetchIsAlone' /\ StaleOnlyByOverlap'
<1>. DEFINE Goal == CleanFetchIsAlone /\ StaleOnlyByOverlap
<1>0. ASSUME NEW t \in Tasks, NEW arg \in Args, task'[t].pc = "fetching" => StartFetch(t, arg)
      PROVE  task'[t].pc = "fetching" =>
               /\ task'[t].arg = arg /\ task'[t].read = {}
               /\ task'[t].clean => RestartsOf(NamespaceOrDefault(arg)) = {}
  <2>1. CacheTypes
    BY DEF LockInv
  <2>. QED  BY <1>0, <2>1, StartFetchIs
<1>. USE NamespaceAssumption, CacheAssumption
     DEF LockInv, ListingInv, CacheTypes, CleanFetchIsAlone, StaleOnlyByOverlap, RestartsOf, Becomes,
         Unused, Waiting, Fetching, Listed, EndedWith, Deleting
<1>1. ASSUME NEW t \in Tasks, NEW arg \in Args, List(t, arg) PROVE Goal'
  <2>1. /\ task'[t].pc # "deleting" /\ \A u \in Tasks \ {t} : task'[u] = task[u]
        /\ task'[t].pc = "fetching" => StartFetch(t, arg)
    BY <1>1 DEF List, StartFetch, AnsweredFromCache
  <2>2. task'[t].pc = "fetching" =>
          /\ task'[t].arg = arg /\ task'[t].read = {}
          /\ task'[t].clean => RestartsOf(NamespaceOrDefault(arg)) = {}
    BY <1>0, <2>1
  <2>. QED BY <1>1, <2>1, <2>2, CleanFetchKept DEF List
<1>2. ASSUME NEW t \in Tasks, GetLock(t) PROVE Goal'
  <2>1. /\ task'[t].pc # "deleting" /\ \A u \in Tasks \ {t} : task'[u] = task[u]
        /\ task'[t].pc = "fetching" => StartFetch(t, task[t].arg)
    BY <1>2 DEF GetLock, StartFetch, AnsweredFromCache
  <2>2. task'[t].pc = "fetching" =>
          /\ task'[t].arg = task[t].arg /\ task'[t].read = {}
          /\ task'[t].clean => RestartsOf(NamespaceOrDefault(task[t].arg)) = {}
    <3>1. task[t].arg \in Args
      BY <1>2, TaskIs DEF GetLock
    <3>. QED  BY <1>0, <2>1, <3>1
  <2>. QED BY <1>2, <2>1, <2>2, CleanFetchKept DEF GetLock
<1>3. ASSUME NEW t \in Tasks, ServerLists(t) PROVE Goal'
  <2>1. NamespaceOrDefault(task[t].arg) \in Namespaces
    BY <1>3, TaskIs, NamespaceType DEF ServerLists
  <2>. QED BY <1>3, <2>1, ServerListsIs DEF ServerLists, RestartsArePast
<1>4. ASSUME NEW t \in Tasks, Fetched(t) PROVE Goal'
  <2>1. PICK value \in task[t].read :
          /\ store' \in Stored(CacheKey(task[t].arg), value, task[t].clean)
          /\ Becomes(t, Listed(task[t].arg, value))
    BY <1>4 DEF Fetched
  <2>2. /\ value \in Listing
        /\ task[t].clean \in BOOLEAN
        /\ CacheKey(task[t].arg) \in Keys
    BY <1>4, <2>1, TaskIs, CacheKeyType DEF Fetched
  <2>3. task[t].clean => value.version >= confirmed[value.namespace]
    BY <1>4, <2>1 DEF Fetched
  <2>4. StaleOnlyByOverlap'
    BY <1>4, <2>1, <2>2, <2>3, StoredFits DEF Fetched
  <2>. QED BY <1>4, <2>1, <2>4 DEF Fetched
<1>5. ASSUME NEW t \in Tasks, FetchFails(t) \/ Cancel(t) \/ Deliver(t) \/ RestartFails(t)
      PROVE  Goal'
  BY <1>5 DEF FetchFails, Cancel, Deliver, RestartFails
<1>6. ASSUME NEW t \in Tasks, NEW n \in Namespaces, Restart(t, n) PROVE Goal'
  BY <1>6, RestartIs DEF Restart
<1>7. ASSUME NEW t \in Tasks, ServerDeletes(t) PROVE Goal'
  BY <1>7, ServerDeletesIs DEF ServerDeletes
<1>8. ASSUME NEW t \in Tasks, Restarted(t) PROVE Goal'
  <2>. DEFINE n == task[t].namespace
  <2>1. /\ n \in Namespaces
        /\ t \in RestartsOf(n)
        /\ \A m \in Namespaces \ {n} : confirmed'[m] = confirmed[m]
        /\ store' = {e \in store : e.key # n}
        /\ task'[t].pc = "ended" /\ \A u \in Tasks \ {t} : task'[u] = task[u]
    BY <1>8, TaskIs DEF Restarted, Invalidate
  <2>2. StaleOnlyByOverlap'
    BY <2>1 DEF ReadsAreOfTheirKey, CacheEntry, Listing
  <2>3. ASSUME NEW u \in Tasks, task'[u].pc = "fetching", task'[u].clean
        PROVE  /\ \A v \in Tasks :
                    ~ (task'[v].pc = "deleting" /\ task'[v].namespace = NamespaceOrDefault(task'[u].arg))
               /\ \A value \in task'[u].read : value.version >= confirmed'[value.namespace]
    <3>1. u # t /\ task'[u] = task[u] /\ task[u].arg \in Args /\ task[u].read \subseteq Listing
      BY <2>1, <2>3, TaskIs
    <3>2. NamespaceOrDefault(task[u].arg) # n
      BY <2>1, <2>3, <3>1
    <3>3. \A value \in task[u].read : value.namespace \in Namespaces \ {n}
      BY <2>3, <3>1, <3>2, NamespaceType DEF ReadsAreOfTheirKey
    <3>. QED BY <2>1, <2>3, <3>1, <3>3
  <2>. QED BY <2>2, <2>3
<1>9. CASE (\E n \in Namespaces : PodsChange(n)) \/ Tick \/ UNCHANGED cacheVars
  BY <1>9 DEF PodsChange, Tick, cacheVars
<1>. QED
  BY <1>1, <1>2, <1>3, <1>4, <1>5, <1>6, <1>7, <1>8, <1>9 DEF CacheNext, FetchAnswered, RestartAnswered

LEMMA ListingInvariance ==
  ASSUME DefaultNamespace = DefaultName
  PROVE  CacheSpec => []ListingInv
<1>1. CacheInit => ListingInv
  BY CacheAssumption
     DEF CacheInit, ListingInv, ReadsAreOfTheirKey, RightNamespace, RestartsArePast, CleanFetchIsAlone,
         StaleOnlyByOverlap, Unused
<1>2. LockInv /\ ListingInv /\ [CacheNext]_cacheVars => ListingInv'
  BY ReadsStep, VersionStep, StalenessStep DEF ListingInv
<1>. QED
  BY <1>1, <1>2, LockInvariance, PTL DEF CacheSpec

----
(* The variables keep their types. *)
THEOREM TypesOfCaches == CacheSpec => []CacheTypes
  BY LockInvariance, PTL DEF LockInv

(* A key is fetched by one task at a time, the one that holds its lock, and *)
(* no call leaves the lock behind.                                          *)
THEOREM FetchesAreShared == CacheSpec => []SharedFetch
  BY LockInvariance, PTL DEF LockInv

(* The cache stays within maxsize and has one entry per key. *)
THEOREM CacheStaysBounded == CacheSpec => []CacheIsBounded
  BY LockInvariance, PTL DEF LockInv

(* Nobody fetches while a fresh value is at hand, even after waiting. *)
THEOREM FetchesAreNeeded == CacheSpec => NoNeedlessFetch
<1>1. LockInv /\ [CacheNext]_cacheVars =>
        [\A t \in Tasks :
           (task[t].pc # "fetching" /\ task'[t].pc = "fetching") =>
             Hits(CacheKey(task'[t].arg)) = {}]_cacheVars
  BY FetchStep
<1>. QED
  BY <1>1, LockInvariance, PTL DEF CacheSpec, NoNeedlessFetch

(* A listing is of the namespace that was asked for, where the configured  *)
(* default namespace is the one called default: the assumption the cache   *)
(* keys make.                                                              *)
THEOREM ListingsAreOfTheNamespace ==
  ASSUME DefaultNamespace = DefaultName
  PROVE  CacheSpec => []RightNamespace
  BY ListingInvariance, PTL DEF ListingInv

(* Under the same assumption, a confirmed restart leaves no older listing  *)
(* in the cache unless its fetch overlapped a restart.                     *)
THEOREM RestartsInvalidate ==
  ASSUME DefaultNamespace = DefaultName
  PROVE  CacheSpec => []StaleOnlyByOverlap
  BY ListingInvariance, PTL DEF ListingInv

----
(* Reading and writing PVs over two protocols. *)

(* What the steps of a call without the IOC have in common: it ends, or it *)
(* connects again, for the limits or over pvAccess.                        *)
LocalStep(c) ==
  /\ call' = [call EXCEPT ![c] = call'[c]] /\ call'[c] \in State
  /\ call[c].pc \in {"connecting", "sent", "served"}
  /\ call'[c].pc \in {"connecting", "ended"}
  /\ call'[c].at = call[c].at
  /\ call'[c].kind = call[c].kind \/ (call[c].kind = "info" /\ call'[c].kind = "ctrl")
  /\ call'[c].via # call[c].via =>
       call[c].via = "ca" /\ call'[c].via = "pva" /\ call'[c].pc = "connecting"
  /\ call'[c].pc = "connecting" /\ call'[c].kind = "put" => call[c].via = "ca" /\ call'[c].via = "pva"
  /\ call'[c].pc = "ended" /\ call'[c].reply = "done" /\ call'[c].kind = "put" => Returns(c)
  /\ UNCHANGED <<settings, circuit, log, before>>

(* The writes among the requests and in the log. *)
Waits(c, via, i) == circuit[via][i].by = c /\ circuit[via][i].kind = "put"

Lies(c, via, i) == log[i].by = c /\ log[i].via = via

(* The write may have gone out over this protocol. *)
WentOver(c, via) ==
  /\ call[c].kind = "put"
  /\ \/ via = call[c].via /\ call[c].pc \in {"sent", "served", "ended"}
     \/ via = "ca" /\ call[c].via = "pva" /\ ~ settings.override

(* A reading is of a value in the log. *)
InTime(c) == call[c].at <= Len(log)

(* A write that the IOC has answered, which only Channel Access does not   *)
(* wait for, was done.                                                     *)
Answered(c) ==
  /\ call[c].kind = "put"
  /\ \/ call[c].pc = "served"
     \/ call[c].pc = "ended" /\ call[c].reply = "done" /\ call[c].via = "pva"

ServedIsDone(c) == Answered(c) => \E i \in 1..Len(log) : Lies(c, call[c].via, i)

(* An override leaves no call on Channel Access. *)
Overridden(c) ==
  call[c].pc \in {"connecting", "sent", "served"} /\ settings.override => call[c].via = "pva"

(* A write is where it was sent, at one place. *)
SentOnce(c, via) ==
  /\ \A i \in 1..Len(circuit[via]) : Waits(c, via, i) =>
       /\ WentOver(c, via)
       /\ \A j \in 1..Len(circuit[via]) : Waits(c, via, j) => i = j
       /\ \A j \in 1..Len(log) : ~ Lies(c, via, j)
  /\ \A i \in 1..Len(log) : Lies(c, via, i) =>
       /\ WentOver(c, via)
       /\ \A j \in 1..Len(log) : Lies(c, via, j) => i = j

CallInv(c) == InTime(c) /\ ServedIsDone(c) /\ Overridden(c) /\ (\A via \in Vias : SentOnce(c, via))

IInv == TypeOK /\ \A c \in Calls : CallInv(c)

(* A call that has not begun has asked for nothing. *)
IdleIsNew(c) ==
  call[c].pc = "idle" =>
    /\ call[c] = Idle /\ before[c] = {}
    /\ \A via \in Vias : \A i \in 1..Len(circuit[via]) : circuit[via][i].by # c

(* A write w that was accepted before c began is ahead of c. *)
IsAhead(w, c) ==
  /\ Accepted(w) /\ w # c
  /\ ~ FellBack(c) /\ ~ FellBack(w) =>
       /\ \A i, j \in 1..Len(circuit[call[c].via]) :
            Waits(w, call[c].via, i) /\ circuit[call[c].via][j].by = c => i < j
       /\ call[c].at # 0 \/ (\E j \in 1..Len(log) : log[j].by = c) =>
            \A i \in 1..Len(circuit[call[c].via]) : ~ Waits(w, call[c].via, i)
       /\ \A i \in 1..Len(log) : log[i].by = w =>
            /\ call[c].at # 0 => i <= call[c].at
            /\ \A j \in 1..Len(log) : log[j].by = c => i < j

OrderInv == \A c \in Calls : IdleIsNew(c) /\ \A w \in before[c] : IsAhead(w, c)

----
(* The elements of a sequence with one more at the end. *)
LEMMA AppendElements ==
  ASSUME NEW S, NEW s \in Seq(S), NEW e \in S
  PROVE  /\ Append(s, e) \in Seq(S)
         /\ Len(Append(s, e)) = Len(s) + 1
         /\ Append(s, e)[Len(s) + 1] = e
         /\ \A i \in 1..Len(s) : Append(s, e)[i] = s[i]
OBVIOUS

(* The elements of a sequence without the first. *)
LEMMA TailElements ==
  ASSUME NEW S, NEW s \in Seq(S), s # <<>>
  PROVE  /\ Tail(s) \in Seq(S)
         /\ Len(s) \in Nat \ {0} /\ Len(Tail(s)) = Len(s) - 1
         /\ Head(s) = s[1] /\ s[1] \in S
         /\ \A i \in 1..Len(Tail(s)) : Tail(s)[i] = s[i + 1] /\ i + 1 \in 1..Len(s)
OBVIOUS

(* Answering, failing and breaking are such steps. *)
LEMMA LocalSteps ==
  ASSUME TypeOK, NEW c \in Calls, Answer(c) \/ Fail(c) \/ Break(c)
  PROVE  LocalStep(c)
<1>1. call \in [Calls -> State] /\ call[c] \in State
  BY DEF TypeOK
<1>2. CASE Answer(c)
  BY <1>1, <1>2 DEF LocalStep, Answer, Is, Ended, Returns, State, Kinds, Vias
<1>3. CASE Fail(c)
  <2>1. CASE call[c].kind = "ctrl"
    BY <1>1, <1>3, <2>1 DEF LocalStep, Fail, Is, Ended, State, Kinds, Vias
  <2>2. CASE call[c].kind # "ctrl" /\ call[c].via = "ca" /\ settings.pva
    BY <1>1, <1>3, <2>2 DEF LocalStep, Fail, Is, Ended, OnEpicsError, State, Kinds, Vias
  <2>3. CASE call[c].kind # "ctrl" /\ ~ (call[c].via = "ca" /\ settings.pva)
    BY <1>1, <1>3, <2>3 DEF LocalStep, Fail, Is, Ended, OnEpicsError, State, Kinds, Vias
  <2> QED
    BY <2>1, <2>2, <2>3
<1>4. CASE Break(c)
  BY <1>1, <1>4 DEF LocalStep, Break, Is, Ended, State, Kinds, Vias
<1> QED
  BY <1>2, <1>3, <1>4

(* A call that begins is over at once, or connects over its own protocol   *)
(* or, when that is not configured, over pvAccess.                         *)
LEMMA Begins ==
  ASSUME TypeOK, NEW c \in Calls, NEW ask \in Asks, Call(c, ask)
  PROVE  /\ call' = [call EXCEPT ![c] = call'[c]] /\ call'[c] \in State
         /\ call[c] = Idle
         /\ call'[c].pc \in {"connecting", "ended"} /\ call'[c].at = 0
         /\ call'[c].pc = "ended" => call'[c].reply = "error"
         /\ call'[c].pc = "connecting" /\ settings.override => call'[c].via = "pva"
<1>1. call \in [Calls -> State] /\ settings \in [ca: BOOLEAN, pva: BOOLEAN, override: Overrides]
  BY DEF TypeOK
<1>2. Kind(ask.tool) \in Kinds
  BY DEF Kind, Kinds
<1>3. call[c] = Idle /\ call' = [call EXCEPT ![c] = call'[c]]
  BY <1>1 DEF Call, Is
<1>4. CASE ~ Valid(ask)
  <2>1. call'[c] = [Ended(Idle, "error") EXCEPT !.kind = Kind(ask.tool)]
    BY <1>1, <1>4 DEF Call, Is
  <2>2. call'[c] = [pc |-> "ended", kind |-> Kind(ask.tool), via |-> "ca", at |-> 0, reply |-> "error"]
    BY <2>1 DEF Ended, Idle
  <2> QED
    BY <1>2, <1>3, <2>2 DEF State, Vias
<1>5. CASE Valid(ask)
  <2> DEFINE state == [Idle EXCEPT !.pc = "connecting", !.kind = Kind(ask.tool), !.via = Primary(Kind(ask.tool))]
  <2>1. call'[c] = Tried(Kind(ask.tool))
    BY <1>1, <1>5 DEF Call, Is
  <2>2. /\ state \in State /\ state.pc = "connecting" /\ state.at = 0 /\ state.reply = "none"
        /\ state.via = Primary(Kind(ask.tool)) /\ state.via \in Vias
    BY <1>2 DEF Idle, State, Vias, Primary
  <2>3. Tried(Kind(ask.tool)) = IF settings[state.via] THEN state ELSE OnEpicsError(state)
    BY DEF Tried
  <2>4. settings.override => state.via = "pva"
    BY <2>2 DEF Primary
  <2> HIDE DEF state
  <2>5. CASE settings[state.via]
    BY <1>3, <2>1, <2>2, <2>3, <2>4, <2>5
  <2>6. CASE ~ settings[state.via] /\ state.via = "ca" /\ settings.pva
    <3>1. call'[c] = [state EXCEPT !.pc = "connecting", !.via = "pva"]
      BY <2>1, <2>3, <2>6 DEF OnEpicsError
    <3>2. call'[c] \in State /\ call'[c].pc = "connecting" /\ call'[c].at = 0 /\ call'[c].via = "pva"
      BY <2>2, <3>1 DEF State, Vias
    <3> QED
      BY <1>3, <3>2
  <2>7. CASE ~ settings[state.via] /\ ~ (state.via = "ca" /\ settings.pva)
    <3>1. call'[c] = [state EXCEPT !.pc = "ended", !.reply = "error"]
      BY <2>1, <2>3, <2>7 DEF OnEpicsError, Ended
    <3>2. call'[c] \in State /\ call'[c].pc = "ended" /\ call'[c].at = 0 /\ call'[c].reply = "error"
      BY <2>2, <3>1 DEF State, Vias
    <3> QED
      BY <1>3, <3>2
  <2> QED
    BY <2>5, <2>6, <2>7
<1> QED
  BY <1>4, <1>5

(* The first request on a circuit. *)
LEMMA FirstRequest ==
  ASSUME TypeOK, NEW via \in Vias, circuit[via] # <<>>
  PROVE  Head(circuit[via]) \in [by: Calls, kind: Kinds]
<1> DEFINE R == [by: Calls, kind: Kinds]
           q == circuit[via]
<1>1. q \in Seq(R)
  BY DEF TypeOK
<1> HIDE DEF R, q
<1>2. q # <<>> => Head(q) \in R
  BY <1>1
<1> QED
  BY <1>2 DEF R, q

(* What serving a request does to the call that made it. *)
LEMMA Serves ==
  ASSUME TypeOK, NEW via \in Vias, ServeRead(via) \/ ServeWrite(via)
  PROVE  /\ circuit[via] # <<>> /\ Head(circuit[via]) \in [by: Calls, kind: Kinds]
         /\ circuit' = [circuit EXCEPT ![via] = Tail(circuit[via])]
         /\ call' \in [Calls -> State]
         /\ UNCHANGED <<settings, before>>
         /\ \A c \in Calls : call'[c] # call[c] =>
              /\ Head(circuit[via]).by = c /\ Awaits(c, via, Head(circuit[via]).kind)
              /\ call'[c].pc = "served" /\ call'[c].kind = call[c].kind /\ call'[c].via = via
              /\ ServeRead(via) => call'[c].at = Len(log)
              /\ ServeWrite(via) => call'[c].at = call[c].at
<1> DEFINE r == Head(circuit[via])
<1>1. /\ call \in [Calls -> State] /\ log \in Seq(Entry) /\ circuit[via] \in Seq([by: Calls, kind: Kinds])
      /\ circuit \in [Vias -> Seq([by: Calls, kind: Kinds])]
  BY DEF TypeOK
<1>2. circuit[via] # <<>> /\ r \in [by: Calls, kind: Kinds]
  <2>1. circuit[via] # <<>>
    BY DEF ServeRead, ServeWrite
  <2> QED
    BY <2>1, FirstRequest
<1>3. r.by \in Calls /\ r.kind \in Kinds
  BY <1>2
<1>4. Len(log) \in Nat
  BY <1>1
<1> HIDE DEF r
<1>5. CASE ServeRead(via)
  <2>1. /\ circuit' = [circuit EXCEPT ![via] = Tail(circuit[via])] /\ UNCHANGED <<settings, before>>
        /\ r.kind # "put"
        /\ IF Awaits(r.by, via, r.kind)
           THEN call' = [call EXCEPT ![r.by] = [call[r.by] EXCEPT !.pc = "served", !.at = Len(log)]]
           ELSE call' = call
    BY <1>5 DEF ServeRead, Is, r
  <2>2. ~ ServeWrite(via)
    BY <2>1 DEF ServeWrite, r
  <2>3. CASE Awaits(r.by, via, r.kind)
    <3> DEFINE st == [call[r.by] EXCEPT !.pc = "served", !.at = Len(log)]
    <3>1. /\ st \in State /\ st.pc = "served" /\ st.at = Len(log) /\ st.via = call[r.by].via
          /\ st.kind = call[r.by].kind
      BY <1>1, <1>3, <1>4 DEF State
    <3>2. call' = [call EXCEPT ![r.by] = st]
      BY <2>1, <2>3
    <3> HIDE DEF st
    <3> QED
      BY <1>1, <1>2, <1>3, <2>1, <2>2, <2>3, <3>1, <3>2 DEF r, Awaits
  <2> QED
    BY <1>1, <1>2, <2>1, <2>3 DEF r
<1>6. CASE ServeWrite(via)
  <2>1. /\ circuit' = [circuit EXCEPT ![via] = Tail(circuit[via])] /\ UNCHANGED <<settings, before>>
        /\ r.kind = "put"
        /\ IF Awaits(r.by, via, "put")
           THEN call' = [call EXCEPT ![r.by] = [call[r.by] EXCEPT !.pc = "served"]]
           ELSE call' = call
    BY <1>6 DEF ServeWrite, Is, r
  <2>2. ~ ServeRead(via)
    BY <2>1 DEF ServeRead, r
  <2>3. CASE Awaits(r.by, via, "put")
    <3> DEFINE st == [call[r.by] EXCEPT !.pc = "served"]
    <3>1. /\ st \in State /\ st.pc = "served" /\ st.at = call[r.by].at /\ st.via = call[r.by].via
          /\ st.kind = call[r.by].kind
      BY <1>1, <1>3 DEF State
    <3>2. call' = [call EXCEPT ![r.by] = st]
      BY <2>1, <2>3
    <3> HIDE DEF st
    <3> QED
      BY <1>1, <1>2, <1>3, <2>1, <2>2, <2>3, <3>1, <3>2 DEF r, Awaits
  <2> QED
    BY <1>1, <1>2, <2>1, <2>3 DEF r
<1> QED
  BY <1>5, <1>6

(* A circuit without its first request is one. *)
LEMMA TailOfCircuit ==
  ASSUME TypeOK, NEW via \in Vias, circuit[via] # <<>>
  PROVE  [circuit EXCEPT ![via] = Tail(circuit[via])] \in [Vias -> Seq([by: Calls, kind: Kinds])]
<1>1. circuit \in [Vias -> Seq([by: Calls, kind: Kinds])] /\ circuit[via] \in Seq([by: Calls, kind: Kinds])
  BY DEF TypeOK
<1>2. Tail(circuit[via]) \in Seq([by: Calls, kind: Kinds])
  BY <1>1
<1> QED
  BY <1>1, <1>2

(* A request goes out at the end of a circuit. *)
LEMMA Sends ==
  ASSUME TypeOK, NEW c \in Calls, Send(c), NEW via \in Vias, via = call[c].via
  PROVE  /\ \A other \in Vias \ {via} : circuit'[other] = circuit[other]
         /\ Len(circuit[via]) \in Nat /\ Len(circuit'[via]) = Len(circuit[via]) + 1
         /\ circuit'[via][Len(circuit[via]) + 1].by = c
         /\ circuit'[via][Len(circuit[via]) + 1].kind = call[c].kind
         /\ \A i \in 1..Len(circuit'[via]) :
              i = Len(circuit[via]) + 1 \/ (i \in 1..Len(circuit[via]) /\ circuit'[via][i] = circuit[via][i])
<1> DEFINE R == [by: Calls, kind: Kinds]
           q == circuit[via]
           t == circuit'[via]
           r == [by |-> c, kind |-> call[c].kind]
<1>1. call[c].kind \in Kinds
  BY DEF TypeOK, State
<1>2. q \in Seq(R) /\ r \in R /\ r.by = c /\ r.kind = call[c].kind
  BY <1>1 DEF TypeOK
<1>3. circuit' = [circuit EXCEPT ![via] = Append(q, r)]
  BY DEF Send
<1>4. t = Append(q, r) /\ \A other \in Vias \ {via} : circuit'[other] = circuit[other]
  BY <1>1, <1>3 DEF TypeOK
<1> HIDE DEF R, q, t, r
<1>5. Len(q) \in Nat /\ Len(t) = Len(q) + 1 /\ t[Len(q) + 1] = r /\ \A i \in 1..Len(q) : t[i] = q[i]
  BY <1>2, <1>4, AppendElements
<1>6. \A i \in 1..Len(t) : i = Len(q) + 1 \/ i \in 1..Len(q)
  BY <1>5
<1>7. \A i \in 1..Len(t) : i = Len(q) + 1 \/ (i \in 1..Len(q) /\ t[i] = q[i])
  BY <1>5, <1>6
<1>8. t[Len(q) + 1].by = c /\ t[Len(q) + 1].kind = call[c].kind
  BY <1>2, <1>5
<1> QED
  BY <1>4, <1>5, <1>7, <1>8 DEF q, t

(* Its requests move up, and the other circuit stays. *)
LEMMA Shifted ==
  ASSUME TypeOK, NEW via \in Vias, circuit[via] # <<>>,
         circuit' = [circuit EXCEPT ![via] = Tail(circuit[via])]
  PROVE  /\ \A other \in Vias \ {via} : circuit'[other] = circuit[other]
         /\ Len(circuit[via]) \in Nat \ {0} /\ Len(circuit'[via]) = Len(circuit[via]) - 1
         /\ Head(circuit[via]) = circuit[via][1]
         /\ \A i \in 1..Len(circuit'[via]) :
              circuit'[via][i] = circuit[via][i + 1] /\ i + 1 \in 1..Len(circuit[via])
<1> DEFINE R == [by: Calls, kind: Kinds]
           q == circuit[via]
           t == circuit'[via]
<1>1. q \in Seq(R) /\ q # <<>> /\ t = Tail(q) /\ \A other \in Vias \ {via} : circuit'[other] = circuit[other]
  BY DEF TypeOK
<1> HIDE DEF R, q, t
<1>2. /\ Len(q) \in Nat \ {0} /\ Len(t) = Len(q) - 1 /\ Head(q) = q[1]
      /\ \A i \in 1..Len(t) : t[i] = q[i + 1] /\ i + 1 \in 1..Len(q)
  BY <1>1, TailElements
<1> QED
  BY <1>1, <1>2 DEF q, t

(* A write that is served is the newest in the log. *)
LEMMA Lands ==
  ASSUME TypeOK, NEW via \in Vias, ServeWrite(via)
  PROVE  /\ Head(circuit[via]).kind = "put" /\ Head(circuit[via]).by \in Calls
         /\ log' \in Seq(Entry) /\ Len(log') = Len(log) + 1
         /\ log'[Len(log) + 1] = [by |-> Head(circuit[via]).by, via |-> via]
         /\ \A i \in 1..Len(log) : log'[i] = log[i]
<1>1. log \in Seq(Entry) /\ Head(circuit[via]) \in [by: Calls, kind: Kinds]
  BY Serves DEF TypeOK
<1>2. [by |-> Head(circuit[via]).by, via |-> via] \in Entry
  BY <1>1 DEF Entry
<1>3. log' = Append(log, [by |-> Head(circuit[via]).by, via |-> via]) /\ Head(circuit[via]).kind = "put"
  BY DEF ServeWrite
<1> QED
  BY <1>1, <1>2, <1>3, AppendElements

----
LEMMA InitTypes == Init => TypeOK
<1> SUFFICES ASSUME Init PROVE TypeOK
  OBVIOUS
<1>1. Idle \in State
  BY DEF Idle, State, Kinds, Vias
<1>2. log \in Seq(Entry)
  BY DEF Init, Entry, Vias
<1>3. circuit \in [Vias -> Seq([by: Calls, kind: Kinds])]
  BY DEF Init
<1> QED
  BY <1>1, <1>2, <1>3 DEF Init, TypeOK

LEMMA NextTypes == TypeOK /\ [Next]_vars => TypeOK'
<1> SUFFICES ASSUME TypeOK, [Next]_vars PROVE TypeOK'
  OBVIOUS
<1>0. /\ call \in [Calls -> State] /\ log \in Seq(Entry)
      /\ before \in [Calls -> SUBSET Calls] /\ circuit \in [Vias -> Seq([by: Calls, kind: Kinds])]
      /\ settings \in [ca: BOOLEAN, pva: BOOLEAN, override: Overrides]
  BY DEF TypeOK
<1>1. ASSUME NEW c \in Calls, NEW ask \in Asks, Call(c, ask) PROVE TypeOK'
  <2>1. call' \in [Calls -> State]
    BY <1>0, <1>1, Begins
  <2>2. before' \in [Calls -> SUBSET Calls] /\ UNCHANGED <<settings, circuit, log>>
    BY <1>0, <1>1 DEF Call
  <2> QED
    BY <1>0, <2>1, <2>2 DEF TypeOK
<1>2. ASSUME NEW c \in Calls, Send(c) PROVE TypeOK'
  <2>1. call[c] \in State /\ call[c].via \in Vias /\ [by |-> c, kind |-> call[c].kind] \in [by: Calls, kind: Kinds]
    BY <1>0 DEF State
  <2>2. call' \in [Calls -> State]
    <3>1. [call[c] EXCEPT !.pc = "sent"] \in State
      BY <2>1 DEF State
    <3>2. call' = [call EXCEPT ![c] = [call[c] EXCEPT !.pc = "sent"]]
      BY <1>2 DEF Send, Is
    <3> QED
      BY <1>0, <3>1, <3>2
  <2>3. circuit' \in [Vias -> Seq([by: Calls, kind: Kinds])]
    <3>1. circuit[call[c].via] \in Seq([by: Calls, kind: Kinds])
      BY <1>0, <2>1
    <3>2. Append(circuit[call[c].via], [by |-> c, kind |-> call[c].kind]) \in Seq([by: Calls, kind: Kinds])
      BY <2>1, <3>1, AppendElements
    <3>3. circuit' = [circuit EXCEPT ![call[c].via] =
                        Append(circuit[call[c].via], [by |-> c, kind |-> call[c].kind])]
      BY <1>2 DEF Send
    <3> QED
      BY <1>0, <2>1, <3>2, <3>3
  <2>4. UNCHANGED <<settings, log, before>>
    BY <1>2 DEF Send
  <2> QED
    BY <1>0, <2>2, <2>3, <2>4 DEF TypeOK
<1>3. ASSUME NEW c \in Calls, Answer(c) \/ Fail(c) \/ Break(c) PROVE TypeOK'
  <2>1. LocalStep(c)
    BY <1>3, LocalSteps
  <2>2. call' \in [Calls -> State] /\ UNCHANGED <<settings, circuit, log, before>>
    BY <1>0, <2>1 DEF LocalStep
  <2> QED
    BY <1>0, <2>2 DEF TypeOK
<1>4. ASSUME NEW via \in Vias, ServeRead(via) PROVE TypeOK'
  <2> circuit[via] # <<>> /\ circuit' = [circuit EXCEPT ![via] = Tail(circuit[via])]
    BY <1>4 DEF ServeRead
  <2>1. circuit' \in [Vias -> Seq([by: Calls, kind: Kinds])]
    BY TailOfCircuit
  <2>2. call' \in [Calls -> State] /\ UNCHANGED <<settings, log, before>>
    BY <1>4, Serves DEF ServeRead
  <2> QED
    BY <1>0, <2>1, <2>2 DEF TypeOK
<1>5. ASSUME NEW via \in Vias, ServeWrite(via) PROVE TypeOK'
  <2> circuit[via] # <<>> /\ circuit' = [circuit EXCEPT ![via] = Tail(circuit[via])]
    BY <1>5 DEF ServeWrite
  <2>1. circuit' \in [Vias -> Seq([by: Calls, kind: Kinds])]
    BY TailOfCircuit
  <2>2. call' \in [Calls -> State] /\ UNCHANGED <<settings, before>> /\ log' \in Seq(Entry)
    BY <1>5, Serves, Lands
  <2> QED
    BY <1>0, <2>1, <2>2 DEF TypeOK
<1>6. ASSUME NEW via \in Vias, Refuse(via) PROVE TypeOK'
  <2>1. circuit' \in [Vias -> Seq([by: Calls, kind: Kinds])]
    BY <1>6, TailOfCircuit DEF Refuse
  <2>2. UNCHANGED <<settings, call, log, before>>
    BY <1>6 DEF Refuse
  <2> QED
    BY <1>0, <2>1, <2>2 DEF TypeOK
<1>7. CASE MachineMoves
  <2>1. [by |-> Machine, via |-> "ca"] \in Entry
    BY DEF Entry, Vias
  <2> QED
    BY <1>0, <1>7, <2>1, AppendElements DEF TypeOK, MachineMoves
<1>8. CASE UNCHANGED vars
  BY <1>8 DEF TypeOK, vars
<1> QED
  BY <1>1, <1>2, <1>3, <1>4, <1>5, <1>6, <1>7, <1>8 DEF Next

(* Calls, circuits and the log keep their types. *)
THEOREM TypeCorrect == Spec => []TypeOK
BY InitTypes, NextTypes, PTL DEF Spec
----
(* Where a write has gone over is not forgotten. *)
LEMMA WentOverStays ==
  ASSUME TypeOK, NEW c \in Calls, NEW via \in Vias, Overridden(c), WentOver(c, via),
         settings' = settings,
         call'[c] = call[c] \/ LocalStep(c)
  PROVE  WentOver(c, via)'
<1>1. CASE call'[c] = call[c]
  BY <1>1 DEF WentOver
<1>2. CASE LocalStep(c)
  BY <1>2 DEF WentOver, Overridden, LocalStep, Vias
<1> QED
  BY <1>1, <1>2

(* Nor by steps that leave the circuits and the log. *)
LEMMA SentOnceStays ==
  ASSUME NEW c \in Calls, NEW via \in Vias, SentOnce(c, via), UNCHANGED <<circuit, log>>,
         WentOver(c, via) => WentOver(c, via)'
  PROVE  SentOnce(c, via)'
BY DEF SentOnce, Waits, Lies

(* Nor by the loss of the first request on a circuit. *)
LEMMA SentOnceShifts ==
  ASSUME TypeOK, NEW c \in Calls, NEW via \in Vias, SentOnce(c, via), NEW other \in Vias,
         circuit[other] # <<>>, circuit' = [circuit EXCEPT ![other] = Tail(circuit[other])],
         log' = log, WentOver(c, via) => WentOver(c, via)'
  PROVE  SentOnce(c, via)'
<1>1. CASE via # other
  <2>1. circuit'[via] = circuit[via]
    BY <1>1, Shifted
  <2> QED
    BY <2>1 DEF SentOnce, Waits, Lies
<1>2. CASE via = other
  <2>1. Len(circuit'[via]) = Len(circuit[via]) - 1 /\ Len(circuit[via]) \in Nat \ {0}
    BY <1>2, Shifted
  <2>2. /\ Len(circuit'[via]) \in Nat
        /\ \A i \in 1..Len(circuit'[via]) : circuit'[via][i] = circuit[via][i + 1] /\ i + 1 \in 1..Len(circuit[via])
    BY <1>2, <2>1, Shifted
  <2>3. ASSUME NEW i \in 1..Len(circuit'[via]), Waits(c, via, i)'
        PROVE  /\ WentOver(c, via)' /\ \A j \in 1..Len(log) : ~ Lies(c, via, j)
               /\ \A j \in 1..Len(circuit'[via]) : Waits(c, via, j)' => i = j
    <3>1. Waits(c, via, i + 1) /\ i + 1 \in 1..Len(circuit[via])
      BY <2>2, <2>3 DEF Waits
    <3>2. ASSUME NEW j \in 1..Len(circuit'[via]), Waits(c, via, j)' PROVE i = j
      <4>1. Waits(c, via, j + 1) /\ j + 1 \in 1..Len(circuit[via])
        BY <2>2, <3>2 DEF Waits
      <4>2. i + 1 = j + 1
        BY <3>1, <4>1 DEF SentOnce
      <4>3. i \in Nat /\ j \in Nat
        BY <2>2
      <4> QED
        BY <4>2, <4>3
    <3>3. WentOver(c, via) /\ \A j \in 1..Len(log) : ~ Lies(c, via, j)
      BY <3>1 DEF SentOnce
    <3> QED
      BY <3>2, <3>3
  <2>4. \A i \in 1..Len(log) : Lies(c, via, i) =>
          WentOver(c, via)' /\ \A j \in 1..Len(log) : Lies(c, via, j) => i = j
    BY DEF SentOnce
  <2> QED
    BY <2>3, <2>4 DEF SentOnce, Lies
<1> QED
  BY <1>1, <1>2

(* Nor by a write into the log that is another's. *)
LEMMA SentOnceGrows ==
  ASSUME TypeOK, NEW c \in Calls, NEW via \in Vias, SentOnce(c, via),
         circuit' = circuit, Len(log') = Len(log) + 1, \A i \in 1..Len(log) : log'[i] = log[i],
         log'[Len(log) + 1].by # c,
         WentOver(c, via) => WentOver(c, via)'
  PROVE  SentOnce(c, via)'
<1>1. Len(log) \in Nat
  BY DEF TypeOK
<1>2. \A i \in 1..Len(log') : Lies(c, via, i)' => i \in 1..Len(log) /\ Lies(c, via, i)
  <2> TAKE i \in 1..Len(log')
  <2>1. i = Len(log) + 1 \/ i \in 1..Len(log)
    BY <1>1
  <2> QED
    BY <1>1, <2>1 DEF Lies
<1> QED
  BY <1>1, <1>2 DEF SentOnce, Waits

(* A write lands: it was on the circuit and is not any more. *)
LEMMA SentOnceLands ==
  ASSUME TypeOK, NEW c \in Calls, NEW via \in Vias, SentOnce(c, via), NEW other \in Vias,
         ServeWrite(other), WentOver(c, via) => WentOver(c, via)'
  PROVE  SentOnce(c, via)'
<1> DEFINE r == Head(circuit[other])
<1>0. Len(log) \in Nat
  BY DEF TypeOK
<1>1. /\ Len(log') = Len(log) + 1 /\ r.kind = "put"
      /\ log'[Len(log) + 1] = [by |-> r.by, via |-> other]
      /\ \A i \in 1..Len(log) : log'[i] = log[i]
  BY Lands
<1>2. circuit[other] # <<>> /\ circuit' = [circuit EXCEPT ![other] = Tail(circuit[other])]
  BY DEF ServeWrite
<1>4. /\ \A i \in 1..Len(circuit'[other]) : circuit'[other][i] = circuit[other][i + 1] /\ i + 1 \in 1..Len(circuit[other])
      /\ r = circuit[other][1] /\ Len(circuit[other]) \in Nat \ {0}
      /\ Len(circuit'[other]) = Len(circuit[other]) - 1
      /\ \A v \in Vias \ {other} : circuit'[v] = circuit[v]
  BY <1>2, Shifted
<1> HIDE DEF r
<1>5. \A i \in 1..Len(log') : Lies(c, via, i)' =>
        \/ i \in 1..Len(log) /\ Lies(c, via, i)
        \/ i = Len(log) + 1 /\ via = other /\ r.by = c
  <2> TAKE i \in 1..Len(log')
  <2>1. i = Len(log) + 1 \/ i \in 1..Len(log)
    BY <1>0, <1>1
  <2> QED
    BY <1>1, <2>1 DEF Lies
<1>6. CASE via # other
  <2>1. circuit'[via] = circuit[via]
    BY <1>4, <1>6
  <2> QED
    BY <1>1, <1>5, <1>6, <2>1 DEF SentOnce, Waits
<1>7. CASE via = other /\ r.by # c
  <2>1. \A i \in 1..Len(circuit'[via]) : Waits(c, via, i)' => Waits(c, via, i + 1) /\ i + 1 \in 1..Len(circuit[via])
    BY <1>4, <1>7 DEF Waits
  <2>2. \A i, j \in 1..Len(circuit'[via]) : i + 1 = j + 1 => i = j
    BY <1>4, <1>7
  <2>3. \A i \in 1..Len(log') : Lies(c, via, i)' => i \in 1..Len(log) /\ Lies(c, via, i)
    BY <1>5, <1>7
  <2> QED
    BY <2>1, <2>2, <2>3 DEF SentOnce
<1>8. CASE via = other /\ r.by = c
  <2>1. Waits(c, via, 1) /\ 1 \in 1..Len(circuit[via])
    BY <1>1, <1>4, <1>8 DEF Waits
  <2>2. /\ WentOver(c, via) /\ \A j \in 1..Len(log) : ~ Lies(c, via, j)
        /\ \A j \in 1..Len(circuit[via]) : Waits(c, via, j) => 1 = j
    BY <2>1 DEF SentOnce
  <2>3. \A i \in 1..Len(circuit'[via]) : ~ Waits(c, via, i)'
    <3> SUFFICES ASSUME NEW i \in 1..Len(circuit'[via]), Waits(c, via, i)' PROVE FALSE
      OBVIOUS
    <3>1. Waits(c, via, i + 1) /\ i + 1 \in 1..Len(circuit[via])
      BY <1>4, <1>8 DEF Waits
    <3>2. i + 1 = 1 /\ i \in Nat \ {0}
      BY <1>4, <1>8, <2>2, <3>1
    <3> QED
      BY <3>2
  <2>4. \A i \in 1..Len(log') : Lies(c, via, i)' => i = Len(log) + 1
    BY <1>5, <2>2
  <2> QED
    BY <2>2, <2>3, <2>4 DEF SentOnce
<1> QED
  BY <1>6, <1>7, <1>8

(* A call that moves by itself keeps the invariant, and so do the others.  *)
LEMMA LocalKeeps ==
  ASSUME IInv, NEW c \in Calls, LocalStep(c), NEW d \in Calls
  PROVE  CallInv(d)'
<1>0. TypeOK /\ CallInv(d) /\ CallInv(c)
  BY DEF IInv
<1>1. /\ c # d => call'[d] = call[d]
      /\ UNCHANGED <<settings, circuit, log, before>>
  BY <1>0 DEF LocalStep, TypeOK
<1>2. InTime(d)'
  BY <1>0, <1>1 DEF CallInv, InTime, LocalStep
<1>3. ServedIsDone(d)'
  <2>1. CASE c # d
    BY <1>0, <1>1, <2>1 DEF CallInv, ServedIsDone, Answered, Lies
  <2>2. CASE c = d
    <3> SUFFICES ASSUME Answered(c)' PROVE Answered(c) /\ call'[c].via = call[c].via
      BY <1>0, <1>1, <2>2 DEF CallInv, ServedIsDone, Lies
    <3>1. call'[c].pc = "ended" /\ call'[c].reply = "done" /\ call'[c].via = "pva" /\ call'[c].kind = "put"
      BY DEF Answered, LocalStep
    <3> QED
      BY <3>1 DEF LocalStep, Answered, Returns
  <2> QED
    BY <2>1, <2>2
<1>4. Overridden(d)'
  BY <1>0, <1>1 DEF CallInv, Overridden, LocalStep
<1>5. ASSUME NEW via \in Vias PROVE SentOnce(d, via)'
  <2>1. WentOver(d, via) => WentOver(d, via)'
    BY <1>0, <1>1, WentOverStays DEF CallInv
  <2> QED
    BY <1>0, <1>1, <2>1, SentOnceStays DEF CallInv
<1> QED
  BY <1>2, <1>3, <1>4, <1>5 DEF CallInv

(* So does a call that begins. *)
LEMMA BeginKeeps ==
  ASSUME IInv, NEW c \in Calls, NEW ask \in Asks, Call(c, ask), NEW d \in Calls
  PROVE  CallInv(d)'
<1>0. TypeOK /\ CallInv(d) /\ CallInv(c)
  BY DEF IInv
<1> Len(log) \in Nat
  BY <1>0 DEF TypeOK
<1>1. (c # d => call'[d] = call[d]) /\ UNCHANGED <<settings, circuit, log>>
  BY <1>0, Begins DEF Call, TypeOK
<1>2. /\ call[c] = Idle
      /\ call'[c].pc \in {"connecting", "ended"} /\ call'[c].at = 0
      /\ call'[c].pc = "ended" => call'[c].reply = "error"
      /\ call'[c].pc = "connecting" /\ settings.override => call'[c].via = "pva"
  BY <1>0, Begins
<1>3. InTime(d)'
  BY <1>0, <1>1, <1>2 DEF CallInv, InTime
<1>4. ServedIsDone(d)'
  BY <1>0, <1>1, <1>2 DEF CallInv, ServedIsDone, Answered, Lies
<1>5. Overridden(d)'
  BY <1>0, <1>1, <1>2 DEF CallInv, Overridden
<1>6. ASSUME NEW via \in Vias PROVE SentOnce(d, via)'
  <2>1. WentOver(d, via) => WentOver(d, via)'
    BY <1>0, <1>1, <1>2 DEF WentOver, Idle
  <2> QED
    BY <1>0, <1>1, <2>1, SentOnceStays DEF CallInv
<1> QED
  BY <1>3, <1>4, <1>5, <1>6 DEF CallInv

(* A request that goes out is the first of its call over the protocol, if  *)
(* it is a write.                                                          *)
LEMMA SendKeeps ==
  ASSUME IInv, NEW c \in Calls, Send(c), NEW d \in Calls
  PROVE  CallInv(d)'
<1>0. TypeOK /\ CallInv(d) /\ CallInv(c)
  BY DEF IInv
<1> PICK via \in Vias : via = call[c].via
  BY <1>0 DEF TypeOK, State
<1>1. call[c] \in State /\ call[c].kind \in Kinds /\ call[c].pc = "connecting"
  BY <1>0 DEF TypeOK, State, Send
<1>2. /\ c # d => call'[d] = call[d]
      /\ call'[c] = [call[c] EXCEPT !.pc = "sent"]
      /\ UNCHANGED <<settings, log, before>>
  BY <1>0 DEF Send, Is, TypeOK
<1>3. /\ call'[c].pc = "sent" /\ call'[c].via = via /\ call'[c].kind = call[c].kind
      /\ call'[c].at = call[c].at
  BY <1>1, <1>2 DEF State
<1>4. InTime(d)' /\ ServedIsDone(d)' /\ Overridden(d)'
  <2>1. InTime(d)'
    BY <1>0, <1>2, <1>3 DEF CallInv, InTime
  <2>2. ServedIsDone(d)'
    BY <1>0, <1>2, <1>3 DEF CallInv, ServedIsDone, Answered, Lies
  <2>3. Overridden(d)'
    BY <1>0, <1>1, <1>2, <1>3 DEF CallInv, Overridden
  <2> QED
    BY <2>1, <2>2, <2>3
<1>5. ASSUME NEW v \in Vias, ~ (v = via /\ c = d /\ call[c].kind = "put") PROVE SentOnce(d, v)'
  <2>1. WentOver(d, v) => WentOver(d, v)'
    <3>1. CASE c # d
      BY <1>2, <3>1 DEF WentOver
    <3>2. CASE c = d
      BY <1>1, <1>2, <1>3, <1>5, <3>2, ZenonT(30) DEF WentOver
    <3> QED
      BY <3>1, <3>2
  <2>2. \A i \in 1..Len(circuit'[v]) : Waits(d, v, i)' => i \in 1..Len(circuit[v]) /\ Waits(d, v, i)
    <3>1. CASE v = via
      BY <1>0, <1>1, <1>5, <3>1, Sends, SMTT(30) DEF Waits
    <3>2. CASE v # via
      <4>1. circuit'[v] = circuit[v]
        BY <1>0, <1>1, <3>2, Sends
      <4> QED
        BY <4>1 DEF Waits
    <3> QED
      BY <3>1, <3>2
  <2> QED
    BY <1>0, <1>2, <2>1, <2>2 DEF CallInv, SentOnce, Lies
<1>6. ASSUME c = d, call[c].kind = "put" PROVE SentOnce(d, via)'
  <2>1. ~ WentOver(c, via) /\ WentOver(c, via)'
    BY <1>1, <1>3, <1>6 DEF WentOver
  <2>2. \A i \in 1..Len(circuit[via]) : ~ Waits(c, via, i)
    BY <1>0, <1>1, <2>1 DEF CallInv, SentOnce
  <2>3. \A i \in 1..Len(log) : ~ Lies(c, via, i)
    BY <1>0, <1>1, <2>1 DEF CallInv, SentOnce
  <2>4. \A i \in 1..Len(circuit'[via]) : Waits(c, via, i)' => i = Len(circuit[via]) + 1
    BY <1>0, <1>1, <1>3, <2>2, Sends, SMTT(30) DEF Waits
  <2> QED
    BY <1>2, <1>3, <1>6, <2>1, <2>3, <2>4 DEF SentOnce, Lies
<1>7. ASSUME NEW v \in Vias PROVE SentOnce(d, v)'
  <2>1. CASE v = via /\ c = d /\ call[c].kind = "put"
    BY <1>6, <2>1
  <2>2. CASE ~ (v = via /\ c = d /\ call[c].kind = "put")
    BY <1>5, <2>2
  <2> QED
    BY <2>1, <2>2
<1> QED
  BY <1>4, <1>7 DEF CallInv

(* An answer comes from where the request is. *)
LEMMA ServeKeeps ==
  ASSUME IInv, NEW via \in Vias, ServeRead(via) \/ ServeWrite(via), NEW d \in Calls
  PROVE  CallInv(d)'
<1> DEFINE r == Head(circuit[via])
<1>0. TypeOK /\ CallInv(d)
  BY DEF IInv
<1>1. /\ circuit[via] # <<>> /\ circuit' = [circuit EXCEPT ![via] = Tail(circuit[via])]
      /\ UNCHANGED <<settings, before>>
  BY <1>0, Serves
<1>2. call'[d] # call[d] =>
        /\ r.by = d /\ call[d].pc = "sent" /\ call[d].via = via /\ call[d].kind = r.kind
        /\ call'[d].pc = "served" /\ call'[d].kind = call[d].kind /\ call'[d].via = via
        /\ ServeRead(via) => call'[d].at = Len(log)
        /\ ServeWrite(via) => call'[d].at = call[d].at
  BY <1>0, Serves DEF Awaits
<1>3. /\ ServeRead(via) => log' = log /\ r.kind # "put"
      /\ ServeWrite(via) =>
           /\ Len(log') = Len(log) + 1 /\ \A i \in 1..Len(log) : log'[i] = log[i]
           /\ log'[Len(log) + 1] = [by |-> r.by, via |-> via]
  BY <1>0, Lands DEF ServeRead
<1>4. Len(log) \in Nat /\ call[d].at \in Nat
  <2>1. Len(log) \in Nat
    BY <1>0 DEF TypeOK
  <2>2. call[d].at \in Nat
    BY <1>0 DEF TypeOK, State
  <2> QED
    BY <2>1, <2>2
<1> HIDE DEF r
<1>5. InTime(d)'
  BY <1>0, <1>1, <1>2, <1>3, <1>4 DEF CallInv, InTime
<1>6. ServedIsDone(d)'
  <2>2. CASE call'[d] = call[d]
    <3> SUFFICES ASSUME Answered(d)' PROVE \E i \in 1..Len(log') : Lies(d, call[d].via, i)'
      BY <2>2 DEF ServedIsDone, Lies
    <3>1. Answered(d)
      BY <2>2 DEF Answered
    <3>2. PICK i \in 1..Len(log) : Lies(d, call[d].via, i)
      BY <1>0, <3>1 DEF CallInv, ServedIsDone
    <3>4. i \in 1..Len(log') /\ log'[i] = log[i]
      BY <1>3, <1>4
    <3> QED
      BY <2>2, <3>2, <3>4 DEF Lies
  <2>3. CASE call'[d] # call[d]
    <3> SUFFICES ASSUME Answered(d)' PROVE \E i \in 1..Len(log') : log'[i].by = d /\ log'[i].via = via
      BY <1>2, <2>3 DEF ServedIsDone, Lies
    <3>1. r.by = d /\ r.kind = "put"
      BY <1>2, <2>3 DEF Answered
    <3>2. ServeWrite(via)
      BY <1>3, <3>1
    <3>3. Len(log) + 1 \in 1..Len(log') /\ log'[Len(log) + 1] = [by |-> d, via |-> via]
      BY <1>3, <1>4, <3>1, <3>2
    <3> QED
      BY <3>3
  <2> QED
    BY <2>2, <2>3
<1>7. Overridden(d)'
  BY <1>0, <1>1, <1>2 DEF CallInv, Overridden
<1>8. ASSUME NEW v \in Vias PROVE SentOnce(d, v)'
  <2>1. WentOver(d, v) => WentOver(d, v)'
    BY <1>1, <1>2 DEF WentOver
  <2>2. CASE ServeWrite(via)
    BY <1>0, <2>1, <2>2, SentOnceLands DEF CallInv
  <2>3. CASE ServeRead(via)
    BY <1>0, <1>1, <1>3, <2>1, <2>3, SentOnceShifts DEF CallInv
  <2> QED
    BY <2>2, <2>3
<1> QED
  BY <1>5, <1>6, <1>7, <1>8 DEF CallInv

(* A request that is lost disturbs nothing, nor do others who move the PV. *)
LEMMA RefuseKeeps ==
  ASSUME IInv, NEW via \in Vias, Refuse(via), NEW d \in Calls
  PROVE  CallInv(d)'
<1>0. TypeOK /\ CallInv(d)
  BY DEF IInv
<1>1. /\ circuit[via] # <<>> /\ circuit' = [circuit EXCEPT ![via] = Tail(circuit[via])]
      /\ UNCHANGED <<settings, call, log, before>>
  BY DEF Refuse
<1>2. InTime(d)' /\ ServedIsDone(d)' /\ Overridden(d)'
  BY <1>0, <1>1 DEF CallInv, InTime, ServedIsDone, Answered, Lies, Overridden
<1>3. ASSUME NEW v \in Vias PROVE SentOnce(d, v)'
  <2>1. WentOver(d, v) => WentOver(d, v)'
    BY <1>1 DEF WentOver
  <2> QED
    BY <1>0, <1>1, <2>1, SentOnceShifts DEF CallInv
<1> QED
  BY <1>2, <1>3 DEF CallInv

(* What others do is the newest in the log, and no call's. *)
LEMMA MachineLogs ==
  ASSUME TypeOK, MachineMoves
  PROVE  /\ Len(log) \in Nat /\ Len(log') = Len(log) + 1 /\ log'[Len(log) + 1].by \notin Calls
         /\ \A i \in 1..Len(log) : log'[i] = log[i]
<1>1. [by |-> Machine, via |-> "ca"] \in Entry
  BY DEF Entry, Vias
<1>2. log \in Seq(Entry)
  BY DEF TypeOK
<1>3. log' = Append(log, [by |-> Machine, via |-> "ca"])
  BY DEF MachineMoves
<1>4. /\ Len(log') = Len(log) + 1 /\ log'[Len(log) + 1] = [by |-> Machine, via |-> "ca"]
      /\ \A i \in 1..Len(log) : log'[i] = log[i]
  BY <1>1, <1>2, <1>3, AppendElements
<1> QED
  BY <1>2, <1>4, CallsAssumption

(* The machine changes no call. *)
LEMMA MachineKeeps ==
  ASSUME IInv, MachineMoves, NEW d \in Calls
  PROVE  CallInv(d)'
<1>0. TypeOK /\ CallInv(d)
  BY DEF IInv
<1>1. /\ Len(log) \in Nat /\ Len(log') = Len(log) + 1 /\ log'[Len(log) + 1].by # d
      /\ \A i \in 1..Len(log) : log'[i] = log[i]
  BY <1>0, MachineLogs
<1>2. UNCHANGED <<settings, call, circuit, before>>
  BY DEF MachineMoves
<1>3. call[d].at \in Nat
  BY <1>0 DEF TypeOK, State
<1>4. InTime(d)'
  BY <1>0, <1>1, <1>2, <1>3 DEF CallInv, InTime
<1>5. ServedIsDone(d)'
  <2> SUFFICES ASSUME Answered(d)' PROVE \E i \in 1..Len(log') : log'[i].by = d /\ log'[i].via = call[d].via
    BY <1>2 DEF ServedIsDone, Lies
  <2>1. PICK i \in 1..Len(log) : Lies(d, call[d].via, i)
    BY <1>0, <1>2 DEF CallInv, ServedIsDone, Answered
  <2>2. i \in 1..Len(log') /\ log'[i] = log[i]
    BY <1>1
  <2> QED
    BY <2>1, <2>2 DEF Lies
<1>6. Overridden(d)'
  BY <1>0, <1>2 DEF CallInv, Overridden
<1>7. ASSUME NEW v \in Vias PROVE SentOnce(d, v)'
  <2>1. WentOver(d, v) => WentOver(d, v)'
    BY <1>2 DEF WentOver
  <2> QED
    BY <1>0, <1>1, <1>2, <2>1, SentOnceGrows DEF CallInv
<1> QED
  BY <1>4, <1>5, <1>6, <1>7 DEF CallInv

LEMMA InitInv == Init => IInv /\ OrderInv
<1> SUFFICES ASSUME Init PROVE IInv /\ OrderInv
  OBVIOUS
<1>1. TypeOK
  BY InitTypes
<1>2. /\ \A c \in Calls : call[c] = Idle /\ before[c] = {}
      /\ \A via \in Vias : circuit[via] = <<>> /\ Len(circuit[via]) = 0
      /\ Len(log) = 1 /\ log[1].by = Machine
  BY DEF Init
<1>3. ASSUME NEW c \in Calls PROVE CallInv(c)
  <2>1. InTime(c) /\ ServedIsDone(c) /\ Overridden(c)
    BY <1>2 DEF InTime, ServedIsDone, Answered, Overridden, Idle
  <2>2. ASSUME NEW via \in Vias PROVE SentOnce(c, via)
    <3>1. \A i \in 1..Len(log) : log[i].by # c
      BY <1>2, CallsAssumption
    <3>2. \A i \in 1..Len(circuit[via]) : FALSE
      BY <1>2
    <3> QED
      BY <3>1, <3>2 DEF SentOnce, Lies
  <2> QED
    BY <2>1, <2>2 DEF CallInv
<1>4. OrderInv
  <2>1. ASSUME NEW c \in Calls PROVE IdleIsNew(c)
    <3>1. \A via \in Vias : \A i \in 1..Len(circuit[via]) : FALSE
      BY <1>2
    <3> QED
      BY <1>2, <3>1 DEF IdleIsNew
  <2> QED
    BY <1>2, <2>1 DEF OrderInv
<1> QED
  BY <1>1, <1>3, <1>4 DEF IInv

LEMMA NextInv == IInv /\ [Next]_vars => IInv'
<1> SUFFICES ASSUME IInv, [Next]_vars PROVE IInv'
  OBVIOUS
<1>0. TypeOK'
  BY NextTypes DEF IInv
<1> SUFFICES ASSUME NEW d \in Calls PROVE CallInv(d)'
  BY <1>0 DEF IInv
<1>1. ASSUME NEW c \in Calls, NEW ask \in Asks, Call(c, ask) PROVE CallInv(d)'
  BY <1>1, BeginKeeps
<1>2. ASSUME NEW c \in Calls, Send(c) PROVE CallInv(d)'
  BY <1>2, SendKeeps
<1>3. ASSUME NEW c \in Calls, Answer(c) \/ Fail(c) \/ Break(c) PROVE CallInv(d)'
  <2>1. LocalStep(c)
    BY <1>3, LocalSteps DEF IInv
  <2> QED
    BY <2>1, LocalKeeps
<1>4. ASSUME NEW via \in Vias, ServeRead(via) \/ ServeWrite(via) PROVE CallInv(d)'
  BY <1>4, ServeKeeps
<1>5. ASSUME NEW via \in Vias, Refuse(via) PROVE CallInv(d)'
  BY <1>5, RefuseKeeps
<1>6. CASE MachineMoves
  BY <1>6, MachineKeeps
<1>7. CASE UNCHANGED vars
  <2>1. CallInv(d)
    BY DEF IInv
  <2> QED
    BY <1>7, <2>1 DEF vars, CallInv, InTime, ServedIsDone, Answered, Overridden, SentOnce, Waits, Lies, WentOver
<1> QED
  BY <1>1, <1>2, <1>3, <1>4, <1>5, <1>6, <1>7 DEF Next

(* The invariant that the properties follow from. *)
THEOREM Invariant == Spec => []IInv
<1>1. Init => IInv
  BY InitInv
<1> QED
  BY <1>1, NextInv, PTL DEF Spec

(* A write that is said to be set over pvAccess was done.                  *)
THEOREM AcceptedIsDoneAlways == Spec => []AcceptedIsDone
<1>1. IInv => AcceptedIsDone
  BY DEF IInv, CallInv, ServedIsDone, Answered, Lies, AcceptedIsDone, Accepted, Landings
<1> QED
  BY <1>1, Invariant, PTL

(* A write lands once over each protocol, and over another than its own    *)
(* only by falling back.                                                   *)
THEOREM TwiceOnlyByFallbackAlways == Spec => []TwiceOnlyByFallback
<1>1. IInv => TwiceOnlyByFallback
  <2> SUFFICES ASSUME IInv, NEW c \in Calls, NEW i \in 1..Len(log), log[i].by = c
               PROVE  /\ log[i].via = call[c].via \/ FellBack(c)
                      /\ \A j \in 1..Len(log) : log[j].by = c /\ log[i].via = log[j].via => i = j
    BY DEF TwiceOnlyByFallback, Landings
  <2> DEFINE via == log[i].via
  <2>1. log \in Seq(Entry)
    BY DEF IInv, TypeOK
  <2>2. via \in Vias
    <3>1. log[i] \in Entry
      BY <2>1
    <3> QED
      BY <3>1 DEF Entry
  <2>3. SentOnce(c, via) /\ Lies(c, via, i)
    BY <2>2 DEF IInv, CallInv, Lies
  <2>4. WentOver(c, via) /\ \A j \in 1..Len(log) : Lies(c, via, j) => i = j
    BY <2>3 DEF SentOnce
  <2>5. via = call[c].via \/ FellBack(c)
    BY <2>4 DEF WentOver, FellBack, Primary
  <2>6. \A j \in 1..Len(log) : log[j].by = c /\ log[j].via = via => i = j
    BY <2>4 DEF Lies
  <2> QED
    BY <2>5, <2>6
<1> QED
  BY <1>1, Invariant, PTL

----
(* Two calls that are on their own protocols are on the same one. *)
LEMMA SameProtocol ==
  ASSUME NEW c, NEW d, ~ FellBack(c), ~ FellBack(d)
  PROVE  call[c].via = call[d].via
BY DEF FellBack, Primary

(* A call on its own protocol has come by no other. *)
LEMMA OwnProtocol ==
  ASSUME IInv, NEW c \in Calls, settings' = settings, ~ FellBack(c)',
         call'[c] = call[c] \/ LocalStep(c) \/ call'[c].via = call[c].via
  PROVE  ~ FellBack(c) /\ call'[c].via = call[c].via
<1>1. Overridden(c)
  BY DEF IInv, CallInv
<1>2. CASE call'[c].via = call[c].via
  BY <1>2 DEF FellBack, Primary
<1>3. CASE LocalStep(c) /\ call'[c].via # call[c].via
  BY <1>1, <1>3 DEF LocalStep, Overridden, FellBack, Primary
<1> QED
  BY <1>2, <1>3

(* It has written over no other either. *)
LEMMA OwnWrites ==
  ASSUME NEW c, NEW via, WentOver(c, via), ~ FellBack(c)
  PROVE  via = call[c].via
BY DEF WentOver, FellBack, Primary

(* A write stays ahead of a call when what they have on the circuit only   *)
(* moves up, by k, and neither of them gets into the log.                  *)
LEMMA AheadStays ==
  ASSUME IInv, NEW w \in Calls, NEW d \in Calls, IsAhead(w, d),
         settings' = settings, call'[w] = call[w], call'[d].at = call[d].at,
         ~ FellBack(d)' => ~ FellBack(d) /\ call'[d].via = call[d].via,
         NEW k \in Nat,
         \A i \in 1..Len(circuit'[call[d].via]) :
           /\ i + k \in 1..Len(circuit[call[d].via])
           /\ circuit'[call[d].via][i] = circuit[call[d].via][i + k],
         Len(circuit'[call[d].via]) \in Nat,
         \A i \in 1..Len(log') : log'[i].by \in {w, d} => i \in 1..Len(log) /\ log'[i] = log[i]
  PROVE  IsAhead(w, d)'
<1>1. Accepted(w)' /\ w # d
  BY DEF IsAhead, Accepted
<1> SUFFICES ASSUME ~ FellBack(d)', ~ FellBack(w)'
    PROVE /\ \A i, j \in 1..Len(circuit'[call'[d].via]) :
               circuit'[call'[d].via][i].by = w /\ circuit'[call'[d].via][i].kind = "put"
               /\ circuit'[call'[d].via][j].by = d => i < j
          /\ call'[d].at # 0 \/ (\E j \in 1..Len(log') : log'[j].by = d) =>
               \A i \in 1..Len(circuit'[call'[d].via]) :
                 ~ (circuit'[call'[d].via][i].by = w /\ circuit'[call'[d].via][i].kind = "put")
          /\ \A i \in 1..Len(log') : log'[i].by = w =>
               /\ call'[d].at # 0 => i <= call'[d].at
               /\ \A j \in 1..Len(log') : log'[j].by = d => i < j
  BY <1>1 DEF IsAhead, Waits
<1> PICK P : P = call[d].via
  OBVIOUS
<1>2. ~ FellBack(d) /\ ~ FellBack(w) /\ call'[d].via = P
  BY DEF FellBack, Primary
<1>3. /\ \A i, j \in 1..Len(circuit[P]) : Waits(w, P, i) /\ circuit[P][j].by = d => i < j
      /\ call[d].at # 0 \/ (\E j \in 1..Len(log) : log[j].by = d) =>
           \A i \in 1..Len(circuit[P]) : ~ Waits(w, P, i)
      /\ \A i \in 1..Len(log) : log[i].by = w =>
           /\ call[d].at # 0 => i <= call[d].at
           /\ \A j \in 1..Len(log) : log[j].by = d => i < j
  BY <1>2 DEF IsAhead
<1>4. ASSUME NEW i \in 1..Len(circuit'[P]), NEW j \in 1..Len(circuit'[P]),
             circuit'[P][i].by = w, circuit'[P][i].kind = "put", circuit'[P][j].by = d
      PROVE  i < j
  <2>1. i + k \in 1..Len(circuit[P]) /\ j + k \in 1..Len(circuit[P]) /\ Waits(w, P, i + k) /\ circuit[P][j + k].by = d
    BY <1>4 DEF Waits
  <2>2. i + k < j + k
    BY <1>3, <2>1
  <2>3. i \in Nat /\ j \in Nat
    OBVIOUS
  <2> QED
    BY <2>2, <2>3
<1>5. ASSUME call'[d].at # 0 \/ (\E j \in 1..Len(log') : log'[j].by = d),
             NEW i \in 1..Len(circuit'[P]), circuit'[P][i].by = w, circuit'[P][i].kind = "put"
      PROVE  FALSE
  <2>1. i + k \in 1..Len(circuit[P]) /\ Waits(w, P, i + k)
    BY <1>5 DEF Waits
  <2>2. call[d].at # 0 \/ (\E j \in 1..Len(log) : log[j].by = d)
    BY <1>5
  <2> QED
    BY <1>3, <2>1, <2>2
<1>6. ASSUME NEW i \in 1..Len(log'), log'[i].by = w
      PROVE  /\ call'[d].at # 0 => i <= call'[d].at
             /\ \A j \in 1..Len(log') : log'[j].by = d => i < j
  <2>1. i \in 1..Len(log) /\ log[i].by = w
    BY <1>6
  <2>2. \A j \in 1..Len(log') : log'[j].by = d => j \in 1..Len(log) /\ log[j].by = d
    OBVIOUS
  <2> QED
    BY <1>3, <2>1, <2>2
<1> QED
  BY <1>2, <1>4, <1>5, <1>6

(* Steps without the IOC keep the order. *)
LEMMA LocalOrder ==
  ASSUME IInv, NEW c \in Calls, LocalStep(c), NEW d \in Calls,
         IdleIsNew(d), \A w \in before[d] : IsAhead(w, d)
  PROVE  IdleIsNew(d)' /\ \A w \in before'[d] : IsAhead(w, d)'
<1>0. TypeOK
  BY DEF IInv
<1>1. /\ c # d => call'[d] = call[d]
      /\ UNCHANGED <<settings, circuit, log, before>>
      /\ call'[c].pc # "idle" /\ call[c].pc # "ended"
  BY <1>0 DEF LocalStep, TypeOK
<1>2. IdleIsNew(d)'
  BY <1>1 DEF IdleIsNew
<1>3. ASSUME NEW w \in before[d] PROVE IsAhead(w, d)'
  <2>1. w \in Calls /\ IsAhead(w, d)
    BY <1>0 DEF TypeOK
  <2>2. call'[w] = call[w]
    BY <1>0, <1>1, <2>1 DEF IsAhead, Accepted, LocalStep, TypeOK
  <2>3. call'[d].at = call[d].at
    BY <1>1 DEF LocalStep
  <2>4. ~ FellBack(d)' => ~ FellBack(d) /\ call'[d].via = call[d].via
    BY <1>1, OwnProtocol
  <2>5. call[d].via \in Vias
    BY <1>0 DEF TypeOK, State
  <2>6. Len(circuit[call[d].via]) \in Nat
    BY <1>0, <2>5 DEF TypeOK
  <2>7. \A i \in 1..Len(circuit'[call[d].via]) :
           /\ i + 0 \in 1..Len(circuit[call[d].via])
           /\ circuit'[call[d].via][i] = circuit[call[d].via][i + 0]
    BY <1>1, <2>6
  <2> HIDE DEF IsAhead
  <2> QED
    BY <1>1, <2>1, <2>2, <2>3, <2>4, <2>6, <2>7, AheadStays
<1> QED
  BY <1>1, <1>2, <1>3

(* A call that begins is behind every write that was accepted. *)
LEMMA BeginOrder ==
  ASSUME IInv, NEW c \in Calls, NEW ask \in Asks, Call(c, ask), NEW d \in Calls,
         IdleIsNew(d), \A w \in before[d] : IsAhead(w, d)
  PROVE  IdleIsNew(d)' /\ \A w \in before'[d] : IsAhead(w, d)'
<1>0. TypeOK
  BY DEF IInv
<1>1. /\ \A e \in Calls \ {c} : call'[e] = call[e] /\ before'[e] = before[e]
      /\ UNCHANGED <<settings, circuit, log>> /\ before'[c] = {w \in Calls : Accepted(w)}
  BY <1>0, Begins DEF Call, TypeOK
<1>2. call[c] = Idle /\ call'[c].pc # "idle" /\ call'[c].at = 0 /\ call'[c] \in State /\ ~ Accepted(c)
  BY <1>0, Begins DEF Accepted, Idle
<1>3. IdleIsNew(d)'
  BY <1>1, <1>2 DEF IdleIsNew
<1>4. ASSUME NEW w \in before[d], c # d PROVE IsAhead(w, d)'
  <2>1. w \in Calls /\ IsAhead(w, d) /\ w # c
    BY <1>0, <1>2 DEF TypeOK, IsAhead
  <2>2. call'[w] = call[w] /\ call'[d] = call[d]
    BY <1>1, <1>4, <2>1
  <2>4. ~ FellBack(d)' => ~ FellBack(d) /\ call'[d].via = call[d].via
    BY <1>1, <2>2, OwnProtocol
  <2>5. call[d].via \in Vias
    BY <1>0 DEF TypeOK, State
  <2>6. Len(circuit[call[d].via]) \in Nat
    BY <1>0, <2>5 DEF TypeOK
  <2>7. \A i \in 1..Len(circuit'[call[d].via]) :
           /\ i + 0 \in 1..Len(circuit[call[d].via])
           /\ circuit'[call[d].via][i] = circuit[call[d].via][i + 0]
    BY <1>1, <2>6
  <2> QED
    BY <1>1, <2>1, <2>2, <2>4, <2>6, <2>7, AheadStays
<1>5. ASSUME NEW w \in before'[c], c = d PROVE IsAhead(w, c)'
  <2>1. w \in Calls /\ Accepted(w) /\ w # c /\ call'[w] = call[w]
    BY <1>1, <1>2, <1>5
  <2>2. call'[c].via \in Vias
    BY <1>2 DEF State
  <2>3. \A i \in 1..Len(circuit'[call'[c].via]) : circuit'[call'[c].via][i].by # c
    BY <1>1, <1>2, <1>5, <2>2 DEF IdleIsNew, Idle
  <2>4. ASSUME NEW i \in 1..Len(log), log[i].by = c PROVE FALSE
    <3>1. log[i] \in Entry
      BY <1>0 DEF TypeOK
    <3>2. PICK via \in Vias : Lies(c, via, i)
      BY <2>4, <3>1 DEF Entry, Lies
    <3>3. WentOver(c, via)
      BY <3>2 DEF IInv, CallInv, SentOnce
    <3> QED
      BY <1>2, <3>3 DEF WentOver, Idle
  <2> QED
    BY <1>1, <1>2, <2>1, <2>3, <2>4 DEF IsAhead, Accepted
<1> QED
  BY <1>1, <1>3, <1>4, <1>5

(* A request goes out behind what is on the circuit. *)
LEMMA SendOrder ==
  ASSUME IInv, NEW c \in Calls, Send(c), NEW d \in Calls,
         IdleIsNew(d), \A w \in before[d] : IsAhead(w, d)
  PROVE  IdleIsNew(d)' /\ \A w \in before'[d] : IsAhead(w, d)'
<1>0. TypeOK
  BY DEF IInv
<1> PICK via \in Vias : via = call[c].via
  BY <1>0 DEF TypeOK, State
<1>1. /\ \A e \in Calls \ {c} : call'[e] = call[e]
      /\ call'[c] = [call[c] EXCEPT !.pc = "sent"] /\ call[c] \in State
      /\ UNCHANGED <<settings, log, before>> /\ call[c].pc = "connecting"
  BY <1>0 DEF Send, Is, TypeOK
<1>2. call'[c].pc = "sent" /\ call'[c].via = via /\ call'[c].at = call[c].at
  BY <1>1 DEF State
<1>3. /\ \A other \in Vias \ {via} : circuit'[other] = circuit[other]
      /\ Len(circuit[via]) \in Nat /\ Len(circuit'[via]) = Len(circuit[via]) + 1
      /\ circuit'[via][Len(circuit[via]) + 1].by = c
      /\ \A i \in 1..Len(circuit'[via]) :
           i = Len(circuit[via]) + 1 \/ (i \in 1..Len(circuit[via]) /\ circuit'[via][i] = circuit[via][i])
  BY <1>0, Sends
<1>4. IdleIsNew(d)'
  <2>1. CASE c = d
    BY <1>2, <2>1 DEF IdleIsNew
  <2>2. CASE c # d
    <3>1. ASSUME call[d].pc = "idle", NEW v \in Vias, NEW i \in 1..Len(circuit'[v]), circuit'[v][i].by = d PROVE FALSE
      <4>1. i \in 1..Len(circuit[v]) /\ circuit[v][i].by = d
        BY <1>3, <2>2, <3>1
      <4> QED
        BY <3>1, <4>1 DEF IdleIsNew
    <3> QED
      BY <1>1, <2>2, <3>1 DEF IdleIsNew
  <2> QED
    BY <2>1, <2>2
<1>5. ASSUME NEW w \in before[d] PROVE IsAhead(w, d)'
  <2>1. w \in Calls /\ IsAhead(w, d) /\ w # c /\ Accepted(w) /\ w # d
    BY <1>0, <1>1 DEF TypeOK, IsAhead, Accepted
  <2>2. call'[w] = call[w] /\ call'[d].via = call[d].via /\ call'[d].at = call[d].at
    BY <1>1, <1>2, <2>1
  <2> PICK P \in Vias : P = call[d].via
    BY <1>0 DEF TypeOK, State
  <2>3. ~ FellBack(d)' /\ ~ FellBack(w)' => ~ FellBack(d) /\ ~ FellBack(w)
    BY <1>1, <2>2 DEF FellBack, Primary
  <2>4. \A i \in 1..Len(circuit'[P]) : circuit'[P][i].by = w =>
          i \in 1..Len(circuit[P]) /\ circuit'[P][i] = circuit[P][i]
    BY <1>3, <2>1
  <2>5. \A j \in 1..Len(circuit'[P]) : \/ j \in 1..Len(circuit[P]) /\ circuit'[P][j] = circuit[P][j]
                                      \/ \A i \in 1..Len(circuit[P]) : i < j
    <3>1. CASE P = via
      BY <1>3, <3>1
    <3>2. CASE P # via
      <4>1. circuit'[P] = circuit[P]
        BY <1>3, <3>2
      <4> QED
        BY <4>1
    <3> QED
      BY <3>1, <3>2
  <2> SUFFICES ASSUME ~ FellBack(d), ~ FellBack(w)
      PROVE /\ \A i, j \in 1..Len(circuit'[P]) :
                 Waits(w, P, i)' /\ circuit'[P][j].by = d => i < j
            /\ call[d].at # 0 \/ (\E j \in 1..Len(log) : log[j].by = d) =>
                 \A i \in 1..Len(circuit'[P]) : ~ Waits(w, P, i)'
            /\ \A i \in 1..Len(log) : log[i].by = w =>
                 /\ call[d].at # 0 => i <= call[d].at
                 /\ \A j \in 1..Len(log) : log[j].by = d => i < j
    <3>1. Accepted(w)'
      BY <2>1, <2>2 DEF Accepted
    <3>2. call'[d].via = P /\ call'[d].at = call[d].at /\ log' = log
      BY <1>1, <2>2
    <3> QED
      BY <2>1, <2>3, <3>1, <3>2 DEF IsAhead, Waits
  <2>6. /\ \A i, j \in 1..Len(circuit[P]) : Waits(w, P, i) /\ circuit[P][j].by = d => i < j
        /\ call[d].at # 0 \/ (\E j \in 1..Len(log) : log[j].by = d) =>
             \A i \in 1..Len(circuit[P]) : ~ Waits(w, P, i)
        /\ \A i \in 1..Len(log) : log[i].by = w =>
             /\ call[d].at # 0 => i <= call[d].at
             /\ \A j \in 1..Len(log) : log[j].by = d => i < j
    BY <2>1 DEF IsAhead
  <2>7. \A i \in 1..Len(circuit'[P]) : Waits(w, P, i)' => i \in 1..Len(circuit[P]) /\ Waits(w, P, i)
    BY <2>4 DEF Waits
  <2>8. ASSUME NEW i \in 1..Len(circuit'[P]), Waits(w, P, i)',
               NEW j \in 1..Len(circuit'[P]), circuit'[P][j].by = d
        PROVE  i < j
    <3>1. i \in 1..Len(circuit[P]) /\ Waits(w, P, i)
      BY <2>7, <2>8
    <3>2. CASE j \in 1..Len(circuit[P]) /\ circuit'[P][j] = circuit[P][j]
      BY <2>6, <2>8, <3>1, <3>2
    <3>3. CASE \A h \in 1..Len(circuit[P]) : h < j
      BY <3>1, <3>3
    <3> QED
      BY <2>5, <3>2, <3>3
  <2>9. call[d].at # 0 \/ (\E j \in 1..Len(log) : log[j].by = d) =>
          \A i \in 1..Len(circuit'[P]) : ~ Waits(w, P, i)'
    BY <2>6, <2>7
  <2> QED
    BY <2>6, <2>8, <2>9
<1> QED
  BY <1>1, <1>4, <1>5

(* What is served or lost makes the rest move up. *)
LEMMA MovesUp ==
  ASSUME IInv, NEW via \in Vias, circuit[via] # <<>>,
         circuit' = [circuit EXCEPT ![via] = Tail(circuit[via])]
  PROVE  /\ \A v \in Vias : /\ Len(circuit'[v]) \in Nat
                            /\ \E k \in Nat : \A i \in 1..Len(circuit'[v]) :
                                 /\ i + k \in 1..Len(circuit[v])
                                 /\ circuit'[v][i] = circuit[v][i + k]
         /\ \A d \in Calls : call'[d] = call[d] \/ call'[d].pc # "idle" =>
              (before'[d] = before[d] /\ IdleIsNew(d) => IdleIsNew(d)')
<1>0. TypeOK
  BY DEF IInv
<1>1. /\ \A other \in Vias \ {via} : circuit'[other] = circuit[other]
      /\ Len(circuit[via]) \in Nat \ {0} /\ Len(circuit'[via]) = Len(circuit[via]) - 1
      /\ \A i \in 1..Len(circuit'[via]) :
           circuit'[via][i] = circuit[via][i + 1] /\ i + 1 \in 1..Len(circuit[via])
  BY <1>0, Shifted
<1>2. ASSUME NEW v \in Vias
      PROVE  /\ Len(circuit'[v]) \in Nat
             /\ \E k \in Nat : \A i \in 1..Len(circuit'[v]) :
                  /\ i + k \in 1..Len(circuit[v])
                  /\ circuit'[v][i] = circuit[v][i + k]
  <2>1. CASE v = via
    <3>1. Len(circuit'[v]) \in Nat
      BY <1>1, <2>1
    <3>2. \A i \in 1..Len(circuit'[v]) : i + 1 \in 1..Len(circuit[v]) /\ circuit'[v][i] = circuit[v][i + 1]
      BY <1>1, <2>1
    <3> QED
      BY <3>1, <3>2
  <2>2. CASE v # via
    <3>1. circuit'[v] = circuit[v]
      BY <1>1, <2>2
    <3>2. Len(circuit[v]) \in Nat
      <4>1. circuit[v] \in Seq([by: Calls, kind: Kinds])
        BY <1>0 DEF TypeOK
      <4> QED
        BY <4>1
    <3>3. \A i \in 1..Len(circuit'[v]) : i + 0 \in 1..Len(circuit[v]) /\ circuit'[v][i] = circuit[v][i + 0]
      <4> TAKE i \in 1..Len(circuit'[v])
      <4>1. i \in 1..Len(circuit[v]) /\ i + 0 = i
        BY <3>1, <3>2
      <4> QED
        BY <3>1, <4>1
    <3>4. Len(circuit'[v]) \in Nat
      BY <3>1, <3>2
    <3>5. \E k \in Nat : \A i \in 1..Len(circuit'[v]) :
            i + k \in 1..Len(circuit[v]) /\ circuit'[v][i] = circuit[v][i + k]
      <4> WITNESS 0 \in Nat
      <4> QED
        BY <3>3
    <3> QED
      BY <3>4, <3>5
  <2> QED
    BY <2>1, <2>2
<1>3. ASSUME NEW d \in Calls, call'[d] = call[d] \/ call'[d].pc # "idle", before'[d] = before[d], IdleIsNew(d)
      PROVE  IdleIsNew(d)'
  <2>1. ASSUME call[d].pc = "idle", NEW v \in Vias, NEW i \in 1..Len(circuit'[v]), circuit'[v][i].by = d PROVE FALSE
    <3>1. PICK k \in Nat : i + k \in 1..Len(circuit[v]) /\ circuit'[v][i] = circuit[v][i + k]
      BY <1>2
    <3> QED
      BY <1>3, <2>1, <3>1 DEF IdleIsNew
  <2> QED
    BY <1>3, <2>1 DEF IdleIsNew
<1> QED
  BY <1>2, <1>3

(* A refused call waits for nobody. *)
LEMMA RefuseOrder ==
  ASSUME IInv, NEW via \in Vias, Refuse(via), NEW d \in Calls,
         IdleIsNew(d), \A w \in before[d] : IsAhead(w, d)
  PROVE  IdleIsNew(d)' /\ \A w \in before'[d] : IsAhead(w, d)'
<1>1. /\ circuit[via] # <<>> /\ circuit' = [circuit EXCEPT ![via] = Tail(circuit[via])]
      /\ UNCHANGED <<settings, call, log, before>>
  BY DEF Refuse
<1>2. IdleIsNew(d)'
  BY <1>1, MovesUp
<1>3. ASSUME NEW w \in before[d] PROVE IsAhead(w, d)'
  <2>1. w \in Calls /\ call[d].via \in Vias /\ IsAhead(w, d)
    BY DEF IInv, TypeOK, State
  <2>2. Len(circuit'[call[d].via]) \in Nat
    BY <1>1, <2>1, MovesUp
  <2>3. PICK k \in Nat : \A i \in 1..Len(circuit'[call[d].via]) :
          i + k \in 1..Len(circuit[call[d].via]) /\ circuit'[call[d].via][i] = circuit[call[d].via][i + k]
    BY <1>1, <2>1, MovesUp
  <2>4. ~ FellBack(d)' => ~ FellBack(d) /\ call'[d].via = call[d].via
    BY <1>1, OwnProtocol
  <2> QED
    BY <1>1, <2>1, <2>2, <2>3, <2>4, AheadStays
<1> QED
  BY <1>1, <1>2, <1>3

(* The machine changes no order of the calls. *)
LEMMA MachineOrder ==
  ASSUME IInv, MachineMoves, NEW d \in Calls,
         IdleIsNew(d), \A w \in before[d] : IsAhead(w, d)
  PROVE  IdleIsNew(d)' /\ \A w \in before'[d] : IsAhead(w, d)'
<1>1. UNCHANGED <<settings, call, circuit, before>>
  BY DEF MachineMoves
<1>2. IdleIsNew(d)'
  BY <1>1 DEF IdleIsNew
<1>3. ASSUME NEW w \in before[d] PROVE IsAhead(w, d)'
  <2>1. w \in Calls /\ call[d].via \in Vias /\ IsAhead(w, d)
    BY DEF IInv, TypeOK, State
  <2>2. Len(circuit[call[d].via]) \in Nat
    BY <2>1 DEF IInv, TypeOK
  <2>3. \A i \in 1..Len(circuit'[call[d].via]) :
          i + 0 \in 1..Len(circuit[call[d].via]) /\ circuit'[call[d].via][i] = circuit[call[d].via][i + 0]
    BY <1>1, <2>2
  <2>4. ~ FellBack(d)' => ~ FellBack(d) /\ call'[d].via = call[d].via
    BY <1>1, OwnProtocol
  <2>5. \A i \in 1..Len(log') : log'[i].by \in {w, d} => i \in 1..Len(log) /\ log'[i] = log[i]
    <3>1. /\ Len(log) \in Nat /\ Len(log') = Len(log) + 1 /\ log'[Len(log) + 1].by \notin Calls
          /\ \A i \in 1..Len(log) : log'[i] = log[i]
      BY MachineLogs DEF IInv
    <3>2. \A i \in 1..Len(log') : i \in 1..Len(log) \/ i = Len(log) + 1
      BY <3>1
    <3> QED
      BY <2>1, <3>1, <3>2
  <2> QED
    BY <1>1, <2>1, <2>2, <2>3, <2>4, <2>5, AheadStays
<1> QED
  BY <1>1, <1>2, <1>3

(* A call that is served or lands has every such write behind it, and a    *)
(* write that lands lands before what is behind it.                        *)
LEMMA ServeOrder ==
  ASSUME IInv, NEW via \in Vias, ServeRead(via) \/ ServeWrite(via), NEW d \in Calls,
         IdleIsNew(d), \A w \in before[d] : IsAhead(w, d)
  PROVE  IdleIsNew(d)' /\ \A w \in before'[d] : IsAhead(w, d)'
<1> DEFINE r == Head(circuit[via])
<1>0. TypeOK
  BY DEF IInv
<1>1. /\ circuit[via] # <<>> /\ circuit' = [circuit EXCEPT ![via] = Tail(circuit[via])]
      /\ UNCHANGED <<settings, before>>
  BY <1>0, Serves
<1>2. \A c \in Calls : call'[c] # call[c] =>
        /\ r.by = c /\ call[c].pc = "sent" /\ call[c].via = via
        /\ call'[c].pc = "served" /\ call'[c].kind = call[c].kind /\ call'[c].via = via
        /\ ServeRead(via) => call'[c].at = Len(log)
        /\ ServeWrite(via) => call'[c].at = call[c].at
  BY <1>0, Serves DEF Awaits
<1>3. /\ ServeRead(via) => log' = log /\ r.kind # "put"
      /\ ServeWrite(via) =>
           /\ Len(log') = Len(log) + 1 /\ \A i \in 1..Len(log) : log'[i] = log[i]
           /\ log'[Len(log) + 1] = [by |-> r.by, via |-> via] /\ r.kind = "put"
  BY <1>0, Lands DEF ServeRead
<1>4. Len(log) \in Nat
  BY <1>0 DEF TypeOK
<1>5. /\ r = circuit[via][1] /\ 1 \in 1..Len(circuit[via])
      /\ r.by \in Calls
  <2>1. Len(circuit[via]) \in Nat \ {0} /\ r = circuit[via][1]
    BY <1>0, <1>1, Shifted
  <2>2. r \in [by: Calls, kind: Kinds]
    BY <1>0, <1>1, FirstRequest
  <2> QED
    BY <2>1, <2>2
<1> HIDE DEF r
<1>6. IdleIsNew(d)'
  BY <1>1, <1>2, MovesUp
<1>7. ASSUME NEW w \in before[d] PROVE IsAhead(w, d)'
  <2>1. w \in Calls /\ call[d].via \in Vias /\ IsAhead(w, d)
    BY <1>0 DEF TypeOK, State
  <2>2. Accepted(w) /\ w # d /\ call'[w] = call[w]
    BY <1>2, <2>1 DEF IsAhead, Accepted
  <2> PICK P \in Vias : P = call[d].via
    BY <2>1
  <2>3. Len(circuit'[P]) \in Nat
    BY <1>1, MovesUp
  <2>4. PICK k \in Nat : \A i \in 1..Len(circuit'[P]) :
          i + k \in 1..Len(circuit[P]) /\ circuit'[P][i] = circuit[P][i + k]
    BY <1>1, MovesUp
  <2>5. call'[d].via = call[d].via
    BY <1>2
  <2>6. CASE call'[d].at = call[d].at /\ \A i \in 1..Len(log') : log'[i].by \in {w, d} => i \in 1..Len(log) /\ log'[i] = log[i]
    <3>1. ~ FellBack(d)' => ~ FellBack(d) /\ call'[d].via = call[d].via
      BY <1>1, <2>5, OwnProtocol
    <3>2. /\ Len(circuit'[call[d].via]) \in Nat
          /\ \A i \in 1..Len(circuit'[call[d].via]) :
               i + k \in 1..Len(circuit[call[d].via]) /\ circuit'[call[d].via][i] = circuit[call[d].via][i + k]
      BY <2>3, <2>4
    <3>3. \A i \in 1..Len(log') : log'[i].by \in {w, d} => i \in 1..Len(log) /\ log'[i] = log[i]
      BY <2>6
    <3>4. settings' = settings /\ call'[d].at = call[d].at
      BY <1>1, <2>6
    <3> QED
      BY <2>1, <2>2, <3>1, <3>2, <3>3, <3>4, AheadStays
  <2>7. CASE ~ (call'[d].at = call[d].at /\ \A i \in 1..Len(log') : log'[i].by \in {w, d} => i \in 1..Len(log) /\ log'[i] = log[i])
    <3> SUFFICES ASSUME ~ FellBack(d), ~ FellBack(w)
        PROVE /\ \A i \in 1..Len(circuit'[P]) : ~ (circuit'[P][i].by = w /\ circuit'[P][i].kind = "put")
              /\ \A i \in 1..Len(log') : log'[i].by = w =>
                   /\ call'[d].at # 0 => i <= call'[d].at
                   /\ \A j \in 1..Len(log') : log'[j].by = d => i < j
      <4>1. ~ FellBack(d)' /\ ~ FellBack(w)' => ~ FellBack(d) /\ ~ FellBack(w)
        BY <1>1, <2>2, <2>5 DEF FellBack, Primary
      <4>2. Accepted(w)'
        BY <2>2 DEF Accepted
      <4> QED
        BY <2>2, <2>5, <4>1, <4>2 DEF IsAhead, Waits
    <3>1. /\ \A i, j \in 1..Len(circuit[P]) : Waits(w, P, i) /\ circuit[P][j].by = d => i < j
          /\ call[d].at # 0 \/ (\E j \in 1..Len(log) : log[j].by = d) =>
               \A i \in 1..Len(circuit[P]) : ~ Waits(w, P, i)
          /\ \A i \in 1..Len(log) : log[i].by = w =>
               /\ call[d].at # 0 => i <= call[d].at
               /\ \A j \in 1..Len(log) : log[j].by = d => i < j
      BY <2>1 DEF IsAhead
    <3>2. (\A i \in 1..Len(circuit[P]) : ~ Waits(w, P, i)) =>
            \A i \in 1..Len(circuit'[P]) : ~ (circuit'[P][i].by = w /\ circuit'[P][i].kind = "put")
      BY <2>4 DEF Waits
    <3>3. ServeWrite(via) => \A i \in 1..Len(log') : i \in 1..Len(log) \/ i = Len(log) + 1
      BY <1>3, <1>4
    <3>4. ServeWrite(via) => Waits(r.by, via, 1)
      BY <1>3, <1>5 DEF Waits
    <3>5. ServeWrite(via) => WentOver(r.by, via)
      BY <1>5, <3>4 DEF IInv, CallInv, SentOnce
    <3>6. ServeWrite(via) /\ r.by \in {w, d} => via = P
      <4>1. call[w].via = P
        BY SameProtocol
      <4> QED
        BY <3>5, <4>1, OwnWrites
    <3>7. CASE ServeRead(via)
      <4>1. log' = log /\ r.by = d /\ P = via /\ call'[d].at = Len(log)
        BY <1>2, <1>3, <2>7, <3>7
      <4>2. \A i \in 1..Len(circuit[P]) : ~ Waits(w, P, i)
        BY <1>5, <3>1, <4>1
      <4> QED
        BY <1>4, <3>1, <3>2, <4>1, <4>2
    <3>8. CASE ServeWrite(via) /\ r.by = d
      <4>1. P = via
        BY <3>6, <3>8
      <4>2. \A i \in 1..Len(circuit[P]) : ~ Waits(w, P, i)
        BY <1>5, <3>1, <3>8, <4>1
      <4>3. call'[d].at = call[d].at
        BY <1>2, <3>8
      <4>4. \A i \in 1..Len(log') : log'[i].by = w => i \in 1..Len(log) /\ log[i].by = w
        BY <1>3, <2>2, <3>3, <3>8
      <4>5. \A j \in 1..Len(log') : log'[j].by = d => j = Len(log) + 1 \/ (j \in 1..Len(log) /\ log[j].by = d)
        BY <1>3, <3>3, <3>8
      <4>6. ASSUME NEW i \in 1..Len(log'), log'[i].by = w, NEW j \in 1..Len(log'), log'[j].by = d PROVE i < j
        <5>1. i \in 1..Len(log) /\ log[i].by = w
          BY <4>4, <4>6
        <5>2. CASE j = Len(log) + 1
          BY <1>4, <5>1, <5>2
        <5>3. CASE j \in 1..Len(log) /\ log[j].by = d
          BY <3>1, <5>1, <5>3
        <5> QED
          BY <4>5, <4>6, <5>2, <5>3
      <4>7. \A i \in 1..Len(log') : log'[i].by = w => (call'[d].at # 0 => i <= call'[d].at)
        BY <3>1, <4>3, <4>4
      <4> QED
        BY <3>2, <4>2, <4>6, <4>7
    <3>9. CASE ServeWrite(via) /\ r.by = w
      <4>1. P = via
        BY <3>6, <3>9
      <4>2. call[d].at = 0 /\ \A j \in 1..Len(log) : log[j].by # d
        BY <1>5, <3>1, <3>4, <3>9, <4>1
      <4>3. call'[d].at = 0
        BY <1>2, <3>9, <4>2
      <4>4. \A j \in 1..Len(log') : log'[j].by # d
        BY <1>3, <2>2, <3>3, <3>9, <4>2
      <4>5. \A i \in 1..Len(circuit'[P]) : ~ (circuit'[P][i].by = w /\ circuit'[P][i].kind = "put")
        <5>1. SentOnce(w, P)'
          BY <2>1, <3>9, ServeKeeps DEF CallInv
        <5>2. \A i \in 1..Len(circuit'[P]) : circuit'[P][i].by = w /\ circuit'[P][i].kind = "put" =>
                \A j \in 1..Len(log') : ~ (log'[j].by = w /\ log'[j].via = P)
          BY <5>1 DEF SentOnce, Waits, Lies
        <5>3. Len(log) + 1 \in 1..Len(log') /\ log'[Len(log) + 1].by = w /\ log'[Len(log) + 1].via = P
          BY <1>3, <1>4, <3>9, <4>1
        <5> QED
          BY <5>2, <5>3
      <4> QED
        BY <4>3, <4>4, <4>5
    <3>10. CASE ServeWrite(via) /\ r.by \notin {w, d}
      <4>1. \A i \in 1..Len(log') : log'[i].by \in {w, d} => i \in 1..Len(log) /\ log'[i] = log[i]
        BY <1>3, <3>3, <3>10
      <4>2. call'[d] = call[d]
        BY <1>2, <3>10
      <4> QED
        BY <2>7, <4>1, <4>2
    <3> QED
      BY <3>7, <3>8, <3>9, <3>10
  <2> QED
    BY <2>6, <2>7
<1> QED
  BY <1>1, <1>6, <1>7

LEMMA NextOrder == IInv /\ OrderInv /\ [Next]_vars => OrderInv'
<1> SUFFICES ASSUME IInv, OrderInv, [Next]_vars, NEW d \in Calls
             PROVE  IdleIsNew(d)' /\ \A w \in before'[d] : IsAhead(w, d)'
  BY DEF OrderInv
<1>0. IdleIsNew(d) /\ \A w \in before[d] : IsAhead(w, d)
  BY DEF OrderInv
<1>1. ASSUME NEW c \in Calls, NEW ask \in Asks, Call(c, ask)
      PROVE  IdleIsNew(d)' /\ \A w \in before'[d] : IsAhead(w, d)'
  BY <1>0, <1>1, BeginOrder
<1>2. ASSUME NEW c \in Calls, Send(c) PROVE IdleIsNew(d)' /\ \A w \in before'[d] : IsAhead(w, d)'
  BY <1>0, <1>2, SendOrder
<1>3. ASSUME NEW c \in Calls, Answer(c) \/ Fail(c) \/ Break(c)
      PROVE  IdleIsNew(d)' /\ \A w \in before'[d] : IsAhead(w, d)'
  <2>1. LocalStep(c)
    BY <1>3, LocalSteps DEF IInv
  <2> QED
    BY <1>0, <2>1, LocalOrder
<1>4. ASSUME NEW via \in Vias, ServeRead(via) \/ ServeWrite(via)
      PROVE  IdleIsNew(d)' /\ \A w \in before'[d] : IsAhead(w, d)'
  BY <1>0, <1>4, ServeOrder
<1>5. ASSUME NEW via \in Vias, Refuse(via) PROVE IdleIsNew(d)' /\ \A w \in before'[d] : IsAhead(w, d)'
  BY <1>0, <1>5, RefuseOrder
<1>6. CASE MachineMoves
  BY <1>0, <1>6, MachineOrder
<1>7. CASE UNCHANGED vars
  BY <1>0, <1>7 DEF vars, IdleIsNew, IsAhead, Accepted, FellBack, Primary, Waits
<1> QED
  BY <1>1, <1>2, <1>3, <1>4, <1>5, <1>6, <1>7 DEF Next

(* A call that begins after a write was accepted takes effect after it,    *)
(* unless one of the two fell back to the other protocol.                  *)
THEOREM OrderIsKeptAlways == Spec => []OrderIsKept
<1>1. Init => IInv /\ OrderInv
  BY InitInv
<1>2. IInv /\ OrderInv /\ [Next]_vars => (IInv /\ OrderInv)'
  BY NextInv, NextOrder
<1>3. OrderInv => OrderIsKept
  BY DEF OrderInv, IsAhead, OrderIsKept, Landings
<1> QED
  BY <1>1, <1>2, <1>3, PTL DEF Spec
====
