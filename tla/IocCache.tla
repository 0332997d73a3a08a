---- MODULE IocCache ----
(***************************************************************************)
(* The listing of IOC pods through AsyncTTLCache (core/cache.py) and the   *)
(* restart that invalidates it (services/operations_service.py), over the  *)
(* Kubernetes provider (providers/kubernetes/kubernetes.py).               *)
(*                                                                         *)
(* The cache has a lock per key; the guard that hands the locks out is     *)
(* never held across an await and is left out.  The Kubernetes client runs *)
(* in a thread: the API server acts at one moment (ServerLists,            *)
(* ServerDeletes) and the coroutine learns of it at a later one.           *)
(***************************************************************************)
EXTENDS Integers, FiniteSets

CONSTANTS
  Tasks,             \* bound: tool calls in flight at once
  Namespaces,        \* the namespaces of the cluster
  DefaultName,       \* the one called "default"
  DefaultNamespace,  \* KubernetesSettings.default_namespace
  NoNamespace,       \* no namespace argument, or an empty one
  NoTask,            \* nobody holds a lock
  TTL,               \* CacheSettings.kubernetes_ttl_seconds, in clock ticks
  MaxSize,           \* TTLCache.maxsize
  MaxTime,           \* bound: clock ticks
  MaxVersion         \* bound: changes of the pods of a namespace

ASSUME NamespaceAssumption ==
  /\ {DefaultName, DefaultNamespace} \subseteq Namespaces
  /\ NoNamespace \notin Namespaces
  /\ NoTask \notin Tasks

ASSUME CacheAssumption ==
  /\ TTL \in Nat \ {0}
  /\ MaxSize \in Nat \ {0}
  /\ MaxTime \in Nat
  /\ MaxVersion \in Nat

VARIABLES
  now,        \* the timer of cachetools.TTLCache
  store,      \* AsyncTTLCache._cache: a set of entries
  holder,     \* holder[key]: the task that holds AsyncTTLCache._locks[key]
  task,       \* task[t]: what a tool call is doing
  version,    \* cluster: how often the pods of a namespace changed
  confirmed   \* history: the version that the last confirmed restart left

cacheVars == <<now, store, holder, task, version, confirmed>>

Keys == Namespaces

(* A listing of the pods of a namespace, as they were at some version. *)
Listing == [namespace: Namespaces, version: 0..MaxVersion]

(* clean: no restart of the namespace overlapped the fetch. *)
CacheEntry == [key: Keys, value: Listing, clean: BOOLEAN, expires: Int]

Args == Namespaces \cup {NoNamespace}

Unused == [pc |-> "idle"]

Waiting(arg) == [pc |-> "waiting", arg |-> arg]

Fetching(arg, read, clean) == [pc |-> "fetching", arg |-> arg, read |-> read, clean |-> clean]

Listed(arg, value) == [pc |-> "listed", arg |-> arg, value |-> value]

Deleting(namespace, left) == [pc |-> "deleting", namespace |-> namespace, left |-> left]

EndedWith(outcome) == [pc |-> "ended", outcome |-> outcome]

TaskStates ==
  {Unused}
  \cup {Waiting(arg) : arg \in Args}
  \cup [pc: {"fetching"}, arg: Args, read: SUBSET Listing, clean: BOOLEAN]
  \cup [pc: {"listed"}, arg: Args, value: Listing]
  \cup [pc: {"deleting"}, namespace: Namespaces, left: SUBSET (0..MaxVersion)]
  \cup {EndedWith(outcome) : outcome \in {"restarted", "error"}}

CacheInit ==
  /\ now = 0
  /\ store = {}
  /\ holder = [key \in Keys |-> NoTask]
  /\ task = [t \in Tasks |-> Unused]
  /\ version = [n \in Namespaces |-> 0]
  /\ confirmed = [n \in Namespaces |-> 0]

----
(* cachetools.TTLCache. *)

Fresh == {e \in store : now < e.expires}

Hits(key) == {e \in Fresh : e.key = key}

(* What a store may leave: expired entries go, and if the cache is full    *)
(* the one inserted longest ago is evicted.                                *)
Stored(key, value, clean) ==
  LET others == {e \in Fresh : e.key # key}
      new == [key |-> key, value |-> value, clean |-> clean, expires |-> now + TTL]
  IN  IF Cardinality(others) < MaxSize THEN {others \cup {new}}
      ELSE {(others \ {e}) \cup {new} :
              e \in {o \in others : \A other \in others : o.expires <= other.expires}}

----
(* AsyncTTLCache.get_or_set, for list_iocs. *)

Becomes(t, state) == task' = [task EXCEPT ![t] = state]

(* f"iocs:{namespace or 'default'}" *)
CacheKey(arg) == IF arg = NoNamespace THEN DefaultName ELSE arg

(* _namespace_or_default *)
NamespaceOrDefault(arg) == IF arg = NoNamespace THEN DefaultNamespace ELSE arg

RestartsOf(n) == {t \in Tasks : task[t].pc = "deleting" /\ task[t].namespace = n}

StartFetch(t, arg) ==
  Becomes(t, Fetching(arg, {}, RestartsOf(NamespaceOrDefault(arg)) = {}))

AnsweredFromCache(t, arg) == \E e \in Hits(CacheKey(arg)) : Becomes(t, Listed(arg, e.value))

LockIsFree(key) ==
  /\ holder[key] = NoTask
  /\ \A t \in Tasks : task[t].pc = "waiting" => CacheKey(task[t].arg) # key

(* The fast path, or the lock and what follows if nobody has it. *)
List(t, arg) ==
  /\ task[t] = Unused
  /\ LET key == CacheKey(arg) IN
       \/ AnsweredFromCache(t, arg) /\ UNCHANGED holder
       \/ /\ Hits(key) = {} /\ LockIsFree(key)
          /\ StartFetch(t, arg)
          /\ holder' = [holder EXCEPT ![key] = t]
       \/ /\ Hits(key) = {} /\ ~ LockIsFree(key)
          /\ Becomes(t, Waiting(arg))
          /\ UNCHANGED holder
  /\ UNCHANGED <<now, store, version, confirmed>>

(* Fetching without looking again. *)
GetLockAndFetch(t) ==
  /\ task[t].pc = "waiting"
  /\ holder[CacheKey(task[t].arg)] = NoTask
  /\ StartFetch(t, task[t].arg)
  /\ holder' = [holder EXCEPT ![CacheKey(task[t].arg)] = t]
  /\ UNCHANGED <<now, store, version, confirmed>>

(* The lock is handed on: look again, then fetch. *)
GetLock(t) ==
  /\ task[t].pc = "waiting"
  /\ LET arg == task[t].arg IN
       /\ holder[CacheKey(arg)] = NoTask
       /\ \/ AnsweredFromCache(t, arg) /\ UNCHANGED holder
          \/ /\ Hits(CacheKey(arg)) = {}
             /\ StartFetch(t, arg)
             /\ holder' = [holder EXCEPT ![CacheKey(arg)] = t]
  /\ UNCHANGED <<now, store, version, confirmed>>

(* Keeping the lock unless the call succeeded. *)
ReleaseOnlyOnSuccess(t) ==
  holder' = [key \in Keys |->
               IF holder[key] = t /\ task'[t].pc = "listed" THEN NoTask ELSE holder[key]]

(* Leaving "async with lock" by whatever way. *)
Release(t) == holder' = [key \in Keys |-> IF holder[key] = t THEN NoTask ELSE holder[key]]

ServerLists(t) ==
  /\ task[t].pc = "fetching" /\ task[t].read = {}
  /\ LET n == NamespaceOrDefault(task[t].arg) IN
       task' = [task EXCEPT ![t].read = {[namespace |-> n, version |-> version[n]]}]
  /\ UNCHANGED <<now, store, holder, version, confirmed>>

Fetched(t) ==
  /\ task[t].pc = "fetching"
  /\ \E value \in task[t].read :
       /\ store' \in Stored(CacheKey(task[t].arg), value, task[t].clean)
       /\ Becomes(t, Listed(task[t].arg, value))
  /\ Release(t)
  /\ UNCHANGED <<now, version, confirmed>>

(* The API is unreachable: the next one waiting fetches for itself. *)
FetchFails(t) ==
  /\ task[t].pc = "fetching"
  /\ Becomes(t, EndedWith("error"))
  /\ Release(t)
  /\ UNCHANGED <<now, store, version, confirmed>>

(* The client gives the call up where it waits. *)
Cancel(t) ==
  /\ task[t].pc \in {"waiting", "fetching", "deleting"}
  /\ Becomes(t, Unused)
  /\ Release(t)
  /\ UNCHANGED <<now, store, version, confirmed>>

----
(* restart_ioc. *)

(* From here on, a fetch of the namespace in flight overlaps a restart. *)
Restart(t, n) ==
  /\ task[t] = Unused
  /\ task' = [u \in Tasks |->
                IF u = t THEN Deleting(n, {})
                ELSE IF task[u].pc = "fetching" /\ NamespaceOrDefault(task[u].arg) = n
                     THEN [task[u] EXCEPT !.clean = FALSE]
                ELSE task[u]]
  /\ UNCHANGED <<now, store, holder, version, confirmed>>

ServerDeletes(t) ==
  /\ task[t].pc = "deleting" /\ task[t].left = {}
  /\ LET n == task[t].namespace IN
       /\ version[n] < MaxVersion
       /\ version' = [version EXCEPT ![n] = @ + 1]
       /\ task' = [task EXCEPT ![t].left = {version[n] + 1}]
  /\ UNCHANGED <<now, store, holder, confirmed>>

InvalidateNothing(key) == store

Invalidate(key) == {e \in store : e.key # key}

Restarted(t) ==
  /\ task[t].pc = "deleting"
  /\ \E left \in task[t].left :
       confirmed' = [confirmed EXCEPT ![task[t].namespace] = IF left > @ THEN left ELSE @]
  /\ store' = Invalidate(task[t].namespace)
  /\ Becomes(t, EndedWith("restarted"))
  /\ UNCHANGED <<now, holder, version>>

(* The pod may have been deleted all the same: nothing is invalidated. *)
RestartFails(t) ==
  /\ task[t].pc = "deleting"
  /\ Becomes(t, EndedWith("error"))
  /\ UNCHANGED <<now, store, holder, version, confirmed>>

Deliver(t) ==
  /\ task[t].pc \in {"listed", "ended"}
  /\ Becomes(t, Unused)
  /\ UNCHANGED <<now, store, holder, version, confirmed>>

(* Pods come and go without ARGUS, or by a deletion whose call was given up. *)
PodsChange(n) ==
  /\ version[n] < MaxVersion
  /\ version' = [version EXCEPT ![n] = @ + 1]
  /\ UNCHANGED <<now, store, holder, task, confirmed>>

Tick ==
  /\ now < MaxTime
  /\ now' = now + 1
  /\ UNCHANGED <<store, holder, task, version, confirmed>>

----
FetchAnswered(t) == Fetched(t) \/ FetchFails(t)

RestartAnswered(t) == Restarted(t) \/ RestartFails(t)

CacheNext ==
  \/ \E t \in Tasks, arg \in Args : List(t, arg)
  \/ \E t \in Tasks, n \in Namespaces : Restart(t, n)
  \/ \E n \in Namespaces : PodsChange(n)
  \/ \E t \in Tasks :
       GetLock(t) \/ ServerLists(t) \/ FetchAnswered(t) \/ Cancel(t) \/ ServerDeletes(t)
         \/ RestartAnswered(t) \/ Deliver(t)
  \/ Tick

CacheSpec == CacheInit /\ [][CacheNext]_cacheVars

(* The event loop resumes whoever gets a lock.  Nothing is assumed of the  *)
(* Kubernetes client: asyncio.to_thread runs it without a timeout, so that *)
(* a request may never return, and a fetch then holds its lock for good.   *)
Fairness == \A t \in Tasks : SF_cacheVars(GetLock(t))

FairSpec == CacheSpec /\ Fairness

----
(* The types of the variables. *)
CacheTypes ==
  /\ now \in 0..MaxTime
  /\ store \subseteq CacheEntry
  /\ holder \in [Keys -> Tasks \cup {NoTask}]
  /\ task \in [Tasks -> TaskStates]
  /\ version \in [Namespaces -> 0..MaxVersion]
  /\ confirmed \in [Namespaces -> 0..MaxVersion]

(* Concurrent callers share a fetch: a key is fetched by one task at most, *)
(* the one that holds its lock, and no failed or cancelled call keeps it   *)
(* ("share a single in-flight fetch instead of each triggering their own   *)
(* backend call").                                                         *)
SharedFetch ==
  \A t \in Tasks, key \in Keys :
    holder[key] = t <=> (task[t].pc = "fetching" /\ CacheKey(task[t].arg) = key)

(* A fetch starts only when no fresh value is at hand, even for a call     *)
(* that had to wait while another fetched.                                 *)
NoNeedlessFetch ==
  [][\A t \in Tasks :
       (task[t].pc # "fetching" /\ task'[t].pc = "fetching") =>
         Hits(CacheKey(task'[t].arg)) = {}]_cacheVars

(* The cache holds one entry per key and never more than maxsize. *)
CacheIsBounded ==
  /\ \A e, f \in store : e.key = f.key => e = f
  /\ Cardinality(store) <= MaxSize

(* Whoever asks for a namespace is shown its pods ("Kubernetes namespace.  *)
(* Defaults to the configured default.").                                  *)
RightNamespace ==
  \A t \in Tasks : task[t].pc = "listed" => task[t].value.namespace = NamespaceOrDefault(task[t].arg)

(* After a confirmed restart of a namespace, the cache keeps no listing    *)
(* from before it, unless the fetch overlapped a restart: invalidation     *)
(* misses nothing but what was in flight ("restart_ioc explicitly          *)
(* invalidates the relevant cache key").                                   *)
StaleOnlyByOverlap ==
  \A e \in store : e.clean => e.value.version >= confirmed[e.value.namespace]

Pending(t) == task[t].pc \in {"waiting", "fetching"}

(* The request that a listing depends on: its own, or the one of the task  *)
(* that holds the lock it waits for.                                       *)
DependsOn(t, u) == task[u].pc = "fetching" /\ (u = t \/ holder[CacheKey(task[t].arg)] = u)

(* Only a request that Kubernetes never answers holds up a listing: unless *)
(* it is cancelled, every call gets its answer or an error, or depends for *)
(* ever on one and the same request that does not return, its own or that  *)
(* of the task ahead of it.  Failed and cancelled fetches, and the calls   *)
(* that wait with it, cannot.                                              *)
OnlyHungRequestsHold ==
  \A t \in Tasks :
    <>[] Pending(t) => \E u \in Tasks : <>[](Pending(t) /\ DependsOn(t, u))
====
