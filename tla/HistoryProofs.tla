---- MODULE HistoryProofs ----
(***************************************************************************)
(* What ARGUS guarantees of the records that people keep elsewhere: the    *)
(* files in git (Repository) and the entries of the logbook (Logbook), for *)
(* any people, calls, repositories, commits, entries and times.            *)
(*                                                                         *)
(* The inductive invariant of the repositories, GitInv, dates everything   *)
(* that is known of a file: a value is read after the call that fetches it *)
(* took the lock of its key, and whatever was stored or shown for that key *)
(* was read before.  What a search found is SearchInv, and that all which   *)
(* is read is in git, ListInv: so a listing is of a file.  The invariant   *)
(* of the logbook, IInv, says what a request which Olog may still serve is *)
(* made of, and of which state of the entry.                               *)
(***************************************************************************)
EXTENDS Repository, Logbook, SequenceLemmas, FiniteSetTheorems, TLAPS

(* The repositories. *)

IsReader(c) == call[c].pc \in {"waiting", "fetching"}

(* The branch that a file's key stands for. *)
RightBranch(key, commit) ==
  key.view = "file" => commit.branch = IF key.ref \in {NoValue, HeadRef} THEN Main ELSE key.ref

IsValue(v, key) == v = [commit |-> v.commit, read |-> v.read] /\ RightBranch(key, v.commit)

(* A call that reads: a request is on its way for MaxFetch ticks at most,  *)
(* and its answer is not older than itself.                                *)
IsReading(s) ==
  /\ s = [pc |-> s.pc, ask |-> s.ask, began |-> s.began, floor |-> s.floor, asked |-> s.asked,
          value |-> s.value]
  /\ s.began \in 0..now
  /\ s.pc = "waiting" => s.value = {}
  /\ s.pc = "fetching" =>
       /\ s.asked \in s.began..now /\ now <= s.asked + MaxFetch
       /\ \A v \in s.value : IsValue(v, Key(s.ask)) /\ v.read \in s.asked..now

(* The clock, and what is dated by it. *)
Dated ==
  /\ now \in Nat
  /\ DOMAIN call = Readers
  /\ \A c \in Readers : IsReader(c) => IsReading(call[c])
  /\ \A c \in Readers : call[c].pc = "done" => call[c].read \in 0..now
  /\ \A e \in cache :
       /\ e = [key |-> e.key, value |-> e.value, expires |-> e.expires]
       /\ IsValue(e.value, e.key) /\ e.value.read \in 0..now
       /\ e.expires \in Nat /\ e.expires <= e.value.read + MaxFetch + TTL

(* A key has one entry at most, and one call that fetches. *)
OneEach ==
  /\ \A e, f \in cache : e.key = f.key => e = f
  /\ \A c, d \in Readers :
       (call[c].pc = "fetching" /\ call[d].pc = "fetching" /\ Key(call[c].ask) = Key(call[d].ask)) => c = d

(* Nobody is shown a value for the key while one call fetches it. *)
Alone ==
  \A c \in Readers : call[c].pc = "fetching" =>
    /\ Hits(Key(call[c].ask)) = {}
    /\ \A read \in Shown(Key(call[c].ask)) : read <= call[c].asked

(* An entry is as new as everything that was shown for its key. *)
Newest == \A e \in cache : \A read \in Shown(e.key) : read <= e.value.read

Floored == \A c \in Readers : IsReader(c) => call[c].floor \in {0} \cup Shown(Key(call[c].ask))

GitInv == Dated /\ OneEach /\ Alone /\ Newest /\ Floored /\ DeployedIsShown /\ NeverBack
----
(* Keys and what was shown for them. *)

(* The setting stays, and so does the key of an ask. *)
LEMMA KeysStay ==
  ASSUME UNCHANGED default_repos, NEW c \in Readers
  PROVE  Key(call[c].ask)' = Key(call'[c].ask)
BY DEF Key, View, ResolveRepo, ResolveRef

(* What is shown for a key after a step, call by call. *)
LEMMA ShownThen ==
  ASSUME UNCHANGED default_repos, NEW key, NEW read
  PROVE  read \in Shown(key)' <=>
           \E d \in Readers : call'[d].pc = "done" /\ Key(call'[d].ask) = key /\ read = call'[d].read
BY KeysStay DEF Shown

(* The same, for the key of a call. *)
LEMMA ShownAgain ==
  ASSUME UNCHANGED default_repos, NEW c \in Readers, NEW read
  PROVE  read \in Shown(Key(call[c].ask))' <=>
           \E d \in Readers :
             call'[d].pc = "done" /\ Key(call'[d].ask) = Key(call'[c].ask) /\ read = call'[d].read
BY KeysStay DEF Shown

(* What is asked for under a key is served from the branch of that key. *)
LEMMA ServedIsRight ==
  ASSUME NEW key PROVE key.view = "file" => RightBranch(key, Served(key))
BY DEF RightBranch, Served, Request, GitHubRequest, GitLabRequest

(* The branch of a key is that which the question is of. *)
LEMMA BranchIs ==
  ASSUME NEW question, NEW commit, RightBranch(Key(question), commit), View(question) = "file"
  PROVE  commit.branch = IF question.ref \notin {NoValue, HeadRef} THEN question.ref
                         ELSE IF DefaultRef = HeadRef THEN Main ELSE DefaultRef
<1>1. Key(question).view = "file" /\ Key(question).ref = ResolveRef(question.ref)
  BY DEF Key
<1>2. commit.branch = IF ResolveRef(question.ref) \in {NoValue, HeadRef} THEN Main ELSE ResolveRef(question.ref)
  BY <1>1 DEF RightBranch
<1>3. CASE question.ref \in {NoValue, HeadRef}
  BY <1>2, <1>3, RepositoryAssumption DEF ResolveRef
<1>4. CASE question.ref \notin {NoValue, HeadRef}
  BY <1>2, <1>4 DEF ResolveRef
<1>. QED BY <1>3, <1>4

----
(* A step of one call. *)

IsEntry(e) ==
  /\ e = [key |-> e.key, value |-> e.value, expires |-> e.expires]
  /\ IsValue(e.value, e.key) /\ e.value.read \in 0..now
  /\ e.expires \in Nat /\ e.expires <= e.value.read + MaxFetch + TTL

(* A call goes into another state, and the cache may change: what has to   *)
(* be known of both.                                                       *)
LEMMA CallStep ==
  ASSUME GitInv, NEW c \in Readers, NEW state, call[c].pc # "done",
         Becomes(c, state), UNCHANGED <<default_repos, now>>,
         state.pc \in {"waiting", "fetching"} =>
           IsReading(state) /\ state.floor \in {0} \cup Shown(Key(state.ask)),
         state.pc = "fetching" =>
           /\ \A d \in Readers \ {c} : ~ Holds(d, Key(state.ask))
           /\ \A read \in Shown(Key(state.ask)) : read <= state.asked,
         state.pc = "done" =>
           /\ state.read \in 0..now /\ state.read >= state.floor
           /\ state.read + TTL + MaxFetch > state.began
           /\ RightBranch(Key(state.ask), state.commit)
           /\ \A d \in Readers \ {c} : ~ Holds(d, Key(state.ask))
           /\ \A e \in cache' : e.key = Key(state.ask) => state.read <= e.value.read,
         \A e \in cache' : IsEntry(e) /\ \A read \in Shown(e.key) : read <= e.value.read,
         \A e, f \in cache' : e.key = f.key => e = f,
         \A d \in Readers, e \in cache' :
           (call'[d].pc = "fetching" /\ e.key = Key(call'[d].ask)) => ~ (now < e.expires)
  PROVE  GitInv'
<1>1. /\ \A d \in Readers \ {c} : call'[d] = call[d]
      /\ call'[c] = state /\ DOMAIN call' = Readers
  BY DEF Becomes, GitInv, Dated
<1>2. \A d \in Readers : Key(call[d].ask)' = Key(call'[d].ask)
  BY KeysStay
<1>3. ASSUME NEW key, NEW read
      PROVE  read \in Shown(key)' <=>
               read \in Shown(key) \/ (state.pc = "done" /\ Key(state.ask) = key /\ read = state.read)
  <2>1. read \in Shown(key) <=>
          \E d \in Readers : call[d].pc = "done" /\ Key(call[d].ask) = key /\ read = call[d].read
    BY DEF Shown
  <2>2. read \in Shown(key)' <=>
          \E d \in Readers : call'[d].pc = "done" /\ Key(call'[d].ask) = key /\ read = call'[d].read
    BY ShownThen
  <2>. QED BY <1>1, <2>1, <2>2
<1>4. Dated'
  <2>1. \A s : IsReading(s) => IsReading(s)'
    BY DEF IsReading, Key, View, ResolveRepo, ResolveRef, RightBranch, IsValue
  <2>2. \A d \in Readers : IsReader(d)' => IsReading(call'[d])
    BY <1>1 DEF IsReader, GitInv, Dated
  <2>3. \A d \in Readers : call'[d].pc = "done" => call'[d].read \in 0..now'
    BY <1>1 DEF GitInv, Dated
  <2>. QED BY <1>1, <2>1, <2>2, <2>3 DEF GitInv, Dated, IsEntry, IsValue, RightBranch
<1>5. OneEach'
  BY <1>1, <1>2 DEF OneEach, GitInv, Holds
<1>6. Alone'
  <2>1. ASSUME NEW d \in Readers, call'[d].pc = "fetching"
        PROVE  \A e \in cache' : ~ (now < e.expires /\ e.key = Key(call'[d].ask))
    BY <2>1
  <2>2. ASSUME NEW d \in Readers, call'[d].pc = "fetching", NEW read \in Shown(Key(call[d].ask))'
        PROVE  read <= call'[d].asked
    <3>1. PICK b \in Readers : call'[b].pc = "done" /\ Key(call'[b].ask) = Key(call'[d].ask) /\ read = call'[b].read
      BY <2>2, ShownAgain
    <3>2. CASE d = c
      <4>1. call'[b] = call[b] /\ read \in Shown(Key(state.ask))
        BY <1>1, <2>2, <3>1, <3>2 DEF Shown
      <4>. QED BY <1>1, <2>2, <3>2, <4>1
    <3>3. CASE d # c /\ b = c
      <4>1. state.pc = "done" /\ Holds(d, Key(state.ask))
        BY <1>1, <2>2, <3>1, <3>3 DEF Holds
      <4>. QED BY <3>3, <4>1
    <3>4. CASE d # c /\ b # c
      <4>1. call[d].pc = "fetching" /\ read \in Shown(Key(call[d].ask)) /\ call'[d] = call[d]
        BY <1>1, <2>2, <3>1, <3>4 DEF Shown
      <4>. QED BY <4>1 DEF GitInv, Alone
    <3>. QED BY <3>2, <3>3, <3>4
  <2>3. ASSUME NEW d \in Readers, call'[d].pc = "fetching"
        PROVE  Hits(Key(call[d].ask))' = {}
    BY <1>2, <2>1, <2>3 DEF Hits, Fresh
  <2>. QED BY <2>2, <2>3 DEF Alone
<1>7. Newest'
  BY <1>3 DEF Newest
<1>8. Floored'
  BY <1>1, <1>2, <1>3 DEF Floored, IsReader, GitInv
<1>9. DeployedIsShown'
  <2>1. ASSUME NEW d \in Readers \ {c}, call[d].pc = "done"
        PROVE  /\ View(call[d].ask) = "file" =>
                    call[d].commit.branch = IF call[d].ask.ref \notin {NoValue, HeadRef} THEN call[d].ask.ref
                                            ELSE IF DefaultRef = HeadRef THEN Main ELSE DefaultRef
               /\ call[d].read + TTL + MaxFetch > call[d].began
    BY <2>1 DEF GitInv, DeployedIsShown
  <2>2. state.pc = "done" /\ View(state.ask) = "file" =>
          state.commit.branch = IF state.ask.ref \notin {NoValue, HeadRef} THEN state.ask.ref
                                ELSE IF DefaultRef = HeadRef THEN Main ELSE DefaultRef
    BY BranchIs
  <2>. QED BY <1>1, <2>1, <2>2 DEF DeployedIsShown, View
<1>10. NeverBack'
  BY <1>1 DEF NeverBack, GitInv
<1>. QED BY <1>4, <1>5, <1>6, <1>7, <1>8, <1>9, <1>10 DEF GitInv

(* A cache that stays is as good as before. *)
LEMMA CacheStays ==
  ASSUME GitInv, NEW c \in Readers, NEW state, Becomes(c, state),
         UNCHANGED <<default_repos, now, cache>>,
         state.pc = "fetching" => Hits(Key(state.ask)) = {}
  PROVE  /\ \A e \in cache' : IsEntry(e) /\ \A read \in Shown(e.key) : read <= e.value.read
         /\ \A e, f \in cache' : e.key = f.key => e = f
         /\ \A d \in Readers, e \in cache' :
              (call'[d].pc = "fetching" /\ e.key = Key(call'[d].ask)) => ~ (now < e.expires)
<1>1. \A e \in cache' : IsEntry(e) /\ \A read \in Shown(e.key) : read <= e.value.read
  BY DEF GitInv, Dated, IsEntry, Newest
<1>2. ASSUME NEW d \in Readers, call'[d].pc = "fetching" PROVE Hits(Key(call'[d].ask)) = {}
  BY <1>2 DEF GitInv, Dated, Alone, Becomes
<1>. QED BY <1>1, <1>2 DEF GitInv, OneEach, Hits, Fresh

(* A call that goes into another state than reading, or being shown. *)
LEMMA AsideStep ==
  ASSUME GitInv, NEW c \in Readers, NEW state, call[c].pc # "done", Becomes(c, state),
         UNCHANGED <<default_repos, now, cache>>, state.pc \in {"failed", "searching", "found"}
  PROVE  GitInv'
BY CacheStays, CallStep

(* A call begins to wait for the lock. *)
LEMMA WaitStep ==
  ASSUME GitInv, NEW c \in Readers, NEW s, call[c].pc # "done", Becomes(c, s),
         UNCHANGED <<default_repos, now, cache>>,
         s.pc = "waiting", IsReading(s), s.floor \in {0} \cup Shown(Key(s.ask))
  PROVE  GitInv'
BY CacheStays, CallStep

(* A call has the lock, and asks the host. *)
LEMMA FetchStep ==
  ASSUME GitInv, NEW c \in Readers, NEW s, call[c].pc # "done", Becomes(c, Fetching(s)),
         UNCHANGED <<default_repos, now, cache>>,
         s.pc = "waiting", IsReading(s), s.floor \in {0} \cup Shown(Key(s.ask)),
         Hits(Key(s.ask)) = {}, \A d \in Readers : ~ Holds(d, Key(s.ask))
  PROVE  GitInv'
<1>1. CASE ProviderFor(ResolveRepo(s.ask.repo)) = NoValue
  BY <1>1, AsideStep DEF Fetching, Failed
<1>2. CASE ProviderFor(ResolveRepo(s.ask.repo)) # NoValue
  <2>. DEFINE t == Fetching(s)
  <2>1. t = [pc |-> "fetching", ask |-> s.ask, began |-> s.began, floor |-> s.floor, asked |-> now,
             value |-> {}]
    BY <1>2 DEF Fetching, IsReading
  <2>2. IsReading(t)
    BY <2>1, RepositoryAssumption DEF IsReading, GitInv, Dated
  <2>3. \A read \in Shown(Key(t.ask)) : read <= t.asked
    BY <2>1 DEF Shown, GitInv, Dated
  <2>4. t.pc = "fetching" /\ Key(t.ask) = Key(s.ask) /\ t.floor = s.floor
    BY <2>1
  <2>. HIDE DEF t
  <2>5. Becomes(c, t)
    BY DEF t
  <2>. QED BY <2>2, <2>3, <2>4, <2>5, CacheStays, CallStep
<1>. QED BY <1>1, <1>2

(* What is delivered is either no YAML, or what was read. *)
LEMMA DeliveredIs ==
  ASSUME NEW s, NEW value
  PROVE  \/ Delivered(s, value).pc = "failed"
         \/ /\ Delivered(s, value).pc = "done"
            /\ Delivered(s, value).ask = s.ask /\ Delivered(s, value).began = s.began
            /\ Delivered(s, value).floor = s.floor
            /\ Delivered(s, value).commit = value.commit /\ Delivered(s, value).read = value.read
BY DEF Delivered, Failed

(* A call is shown what is in the cache. *)
LEMMA HitStep ==
  ASSUME GitInv, NEW c \in Readers, NEW s, call[c].pc # "done", NEW e \in Hits(Key(s.ask)),
         Becomes(c, Delivered(s, e.value)), UNCHANGED <<default_repos, now, cache>>,
         IsReading(s), s.floor \in {0} \cup Shown(Key(s.ask))
  PROVE  GitInv'
<1>. DEFINE t == Delivered(s, e.value)
<1>1. CASE t.pc = "failed"
  BY <1>1, AsideStep
<1>2. CASE t.pc = "done"
  <2>1. /\ t.ask = s.ask /\ t.began = s.began /\ t.floor = s.floor
        /\ t.commit = e.value.commit /\ t.read = e.value.read
    BY <1>2, DeliveredIs
  <2>2. e \in cache /\ now < e.expires /\ e.key = Key(s.ask)
    BY DEF Hits, Fresh
  <2>3. IsEntry(e) /\ \A read \in Shown(e.key) : read <= e.value.read
    BY <2>2 DEF GitInv, Dated, Newest, IsEntry
  <2>4. t.read \in 0..now /\ t.read >= t.floor
    BY <2>1, <2>2, <2>3 DEF IsEntry
  <2>5. t.read + TTL + MaxFetch > t.began
    BY <2>1, <2>2, <2>3, RepositoryAssumption DEF IsEntry, IsReading, GitInv, Dated
  <2>6. RightBranch(Key(t.ask), t.commit)
    BY <2>1, <2>2, <2>3 DEF IsEntry, IsValue
  <2>7. \A d \in Readers : ~ Holds(d, Key(t.ask))
    BY <2>1, <2>2 DEF GitInv, Alone, Holds
  <2>8. \A f \in cache' : f.key = Key(t.ask) => t.read <= f.value.read
    BY <2>1, <2>2, <2>3 DEF GitInv, OneEach, IsEntry
  <2>. HIDE DEF t
  <2>9. Becomes(c, t)
    BY DEF t
  <2>. QED BY <1>2, <2>4, <2>5, <2>6, <2>7, <2>8, <2>9, CacheStays, CallStep
<1>. QED BY <1>1, <1>2, DeliveredIs

----
(* The actions. *)

(* A call begins after all that was shown for its key. *)
LEMMA StartedIs ==
  ASSUME GitInv, NEW question
  PROVE  /\ IsReading(Started(question)) /\ Started(question).pc = "waiting" /\ Started(question).ask = question
         /\ Started(question).floor \in {0} \cup Shown(Key(question))
<1>1. {0} \cup Shown(Key(question)) \subseteq 0..now
  BY DEF GitInv, Dated, Shown
<1>2. Max({0} \cup Shown(Key(question))) \in {0} \cup Shown(Key(question))
  BY <1>1, MaxIs DEF GitInv, Dated
<1>. HIDE DEF Max
<1>. QED BY <1>2 DEF Started, IsReading, GitInv, Dated

LEMMA ReadStep == ASSUME GitInv, NEW c \in Readers, NEW question, Read(c, question) PROVE GitInv'
<1>1. call[c].pc # "done" /\ UNCHANGED <<default_repos, now, cache>>
  BY DEF Read, Idle
<1>. DEFINE s == Started(question)
<1>2. IsReading(s) /\ s.pc = "waiting" /\ s.ask = question /\ s.floor \in {0} \cup Shown(Key(question))
  BY StartedIs
<1>. HIDE DEF s
<1>3. CASE Becomes(c, Failed("validation_error"))
  BY <1>1, <1>3, AsideStep DEF Failed
<1>4. CASE \E e \in Hits(Key(question)) : Becomes(c, Delivered(s, e.value))
  BY <1>1, <1>2, <1>4, HitStep
<1>5. CASE Hits(Key(question)) = {} /\ ~ InUse(Key(question)) /\ Becomes(c, Fetching(s))
  <2>1. \A d \in Readers : ~ Holds(d, Key(question))
    BY <1>5 DEF InUse
  <2>. QED BY <1>1, <1>2, <1>5, <2>1, FetchStep
<1>6. CASE Becomes(c, s)
  BY <1>1, <1>2, <1>6, WaitStep
<1>. QED BY <1>3, <1>4, <1>5, <1>6 DEF Read, s

LEMMA ResumeStep == ASSUME GitInv, NEW c \in Readers, Resume(c) PROVE GitInv'
<1>1. call[c].pc = "waiting" /\ UNCHANGED <<default_repos, now, cache>>
  BY DEF Resume
<1>2. IsReading(call[c]) /\ call[c].floor \in {0} \cup Shown(Key(call[c].ask))
  BY <1>1 DEF GitInv, Dated, Floored, IsReader
<1>3. CASE \E e \in Hits(Key(call[c].ask)) : Becomes(c, Delivered(call[c], e.value))
  BY <1>1, <1>2, <1>3, HitStep
<1>4. CASE Hits(Key(call[c].ask)) = {} /\ Becomes(c, Fetching(call[c]))
  <2>1. \A d \in Readers : ~ Holds(d, Key(call[c].ask))
    BY DEF Resume, GetsLock
  <2>. QED BY <1>1, <1>2, <1>4, <2>1, FetchStep
<1>. QED BY <1>3, <1>4 DEF Resume

LEMMA GitReadsStep == ASSUME GitInv, NEW c \in Readers, GitReads(c) PROVE GitInv'
<1>. DEFINE key == Key(call[c].ask)
            v == [commit |-> Served(key), read |-> now]
            t == [call[c] EXCEPT !.value = {v}]
<1>1. IsReading(call[c]) /\ call[c].floor \in {0} \cup Shown(key) /\ call[c].pc = "fetching"
  BY DEF GitInv, Dated, Floored, IsReader, GitReads
<1>2. IsValue(v, key) /\ v.read = now
  BY ServedIsRight DEF IsValue, RightBranch
<1>3. Becomes(c, t) /\ UNCHANGED <<default_repos, now, cache>>
  BY DEF GitReads
<1>. HIDE DEF v
<1>4. /\ t = [pc |-> "fetching", ask |-> call[c].ask, began |-> call[c].began, floor |-> call[c].floor,
               asked |-> call[c].asked, value |-> {v}]
      /\ t.pc = "fetching" /\ t.ask = call[c].ask /\ t.floor = call[c].floor /\ t.asked = call[c].asked
  <2>1. PICK s : s = call[c]
    OBVIOUS
  <2>2. t = [s EXCEPT !.value = {v}]
    BY <2>1
  <2>3. s = [pc |-> "fetching", ask |-> s.ask, began |-> s.began, floor |-> s.floor, asked |-> s.asked,
             value |-> s.value]
    BY <1>1, <2>1 DEF IsReading
  <2>4. t = [pc |-> "fetching", ask |-> s.ask, began |-> s.began, floor |-> s.floor, asked |-> s.asked,
             value |-> {v}]
    BY <2>2, <2>3
  <2>. QED BY <2>1, <2>4
<1>. HIDE DEF t
<1>5. IsReading(t)
  <2>1. \A w \in t.value : w = v
    BY <1>4
  <2>2. now \in call[c].asked..now
    BY <1>1 DEF IsReading, GitInv, Dated
  <2>. QED BY <1>1, <1>2, <1>4, <2>1, <2>2 DEF IsReading
<1>6. \A d \in Readers \ {c} : ~ Holds(d, key)
  BY <1>1 DEF GitInv, OneEach, Holds
<1>7. Hits(key) = {} /\ \A read \in Shown(key) : read <= call[c].asked
  BY <1>1 DEF GitInv, Alone
<1>8. call[c].pc # "done" /\ Key(t.ask) = key
  BY <1>1, <1>4
<1>. HIDE DEF key
<1>. QED BY <1>1, <1>3, <1>4, <1>5, <1>6, <1>7, <1>8, CacheStays, CallStep

(* The value is newer than all that was shown, because the call asked for  *)
(* it after that, and nothing was shown since.                             *)
LEMMA FetchedStep == ASSUME GitInv, NEW c \in Readers, Fetched(c) PROVE GitInv'
<1>. DEFINE key == Key(call[c].ask)
<1>1. call[c].pc = "fetching" /\ IsReading(call[c]) /\ UNCHANGED <<default_repos, now>>
  BY DEF GitInv, Dated, IsReader, Fetched
<1>2. PICK value \in call[c].value :
        /\ Becomes(c, Delivered(call[c], value))
        /\ cache' = {e \in Fresh : e.key # key} \cup {[key |-> key, value |-> value, expires |-> now + TTL]}
  BY DEF Fetched
<1>. DEFINE new == [key |-> key, value |-> value, expires |-> now + TTL]
            t == Delivered(call[c], value)
<1>3. /\ IsValue(value, key) /\ value.read \in call[c].asked..now
      /\ call[c].asked \in call[c].began..now /\ now <= call[c].asked + MaxFetch
      /\ call[c].began \in 0..now
  BY <1>1 DEF IsReading
<1>4. \A read \in Shown(key) : read <= value.read
  <2>1. \A read \in Shown(key) : read \in 0..now /\ read <= call[c].asked
    BY <1>1 DEF GitInv, Alone, Dated, Shown
  <2>. QED BY <1>3, <2>1
<1>5. IsEntry(new)
  BY <1>3, RepositoryAssumption DEF IsEntry, GitInv, Dated
<1>6. \A d \in Readers \ {c} : ~ Holds(d, key)
  BY <1>1 DEF GitInv, OneEach, Holds
<1>7. \A e \in cache' : e = new \/ (e \in Fresh /\ e.key # key)
  BY <1>2
<1>8. new.key = key /\ new.value = value
  OBVIOUS
<1>. HIDE DEF new
<1>9. \A e \in cache' : IsEntry(e) /\ \A read \in Shown(e.key) : read <= e.value.read
  BY <1>4, <1>5, <1>7, <1>8 DEF GitInv, Dated, IsEntry, Newest, Fresh
<1>10. \A e, f \in cache' : e.key = f.key => e = f
  BY <1>7, <1>8 DEF GitInv, OneEach, Fresh
<1>11. t.pc \in {"failed", "done"} /\ call'[c] = t /\ \A d \in Readers \ {c} : call'[d] = call[d]
  BY <1>2, DeliveredIs DEF Becomes, GitInv, Dated
<1>12. \A d \in Readers, e \in cache' :
         (call'[d].pc = "fetching" /\ e.key = Key(call'[d].ask)) => ~ (now < e.expires)
  <2>1. SUFFICES ASSUME NEW d \in Readers, NEW e \in cache',
                        call'[d].pc = "fetching", e.key = Key(call'[d].ask)
                 PROVE  ~ (now < e.expires)
    OBVIOUS
  <2>2. d # c /\ call'[d] = call[d]
    BY <1>11, <2>1
  <2>3. e.key # key /\ e \in cache
    BY <1>6, <1>7, <1>8, <2>1, <2>2 DEF Holds, Fresh
  <2>. QED BY <2>1, <2>2, <2>3 DEF GitInv, Alone, Hits, Fresh
<1>13. t.pc = "done" =>
         /\ t.read \in 0..now /\ t.read >= t.floor
         /\ t.read + TTL + MaxFetch > t.began
         /\ RightBranch(Key(t.ask), t.commit)
         /\ \A d \in Readers \ {c} : ~ Holds(d, Key(t.ask))
         /\ \A e \in cache' : e.key = Key(t.ask) => t.read <= e.value.read
  <2>1. SUFFICES ASSUME t.pc = "done" PROVE <1>13!2
    OBVIOUS
  <2>2. /\ t.ask = call[c].ask /\ t.began = call[c].began /\ t.floor = call[c].floor
        /\ t.commit = value.commit /\ t.read = value.read
    BY <2>1, DeliveredIs
  <2>3. call[c].floor \in {0} \cup Shown(key)
    BY <1>1 DEF GitInv, Floored, IsReader
  <2>4. t.read \in 0..now /\ t.read >= t.floor /\ t.read + TTL + MaxFetch > t.began
    <3>1. value.read \in 0..now /\ value.read >= call[c].floor
      BY <1>3, <1>4, <2>3
    <3>2. value.read + TTL + MaxFetch > call[c].began
      BY <1>3, RepositoryAssumption
    <3>. QED BY <2>2, <3>1, <3>2
  <2>5. RightBranch(Key(t.ask), t.commit)
    BY <1>3, <2>2 DEF IsValue
  <2>6. \A e \in cache' : e.key = Key(t.ask) => t.read <= e.value.read
    BY <1>3, <1>7, <1>8, <2>2, <2>4
  <2>. QED BY <1>6, <2>2, <2>4, <2>5, <2>6
<1>14. call[c].pc # "done" /\ Becomes(c, t)
  BY <1>1, <1>2
<1>. HIDE DEF t
<1>. QED BY <1>1, <1>9, <1>10, <1>11, <1>12, <1>13, <1>14, CallStep

(* The other steps of a call change what it does, and nothing else: it     *)
(* does not read, and is not shown anything.                               *)
LEMMA LeavesReading ==
  ASSUME NEW c \in Readers,
         \/ FetchFails(c) \/ Cancel(c)
         \/ \E question \in Questions : Search(c, question)
         \/ \E repo \in Repos : RepoAnswers(c, repo) \/ RepoFails(c, repo)
  PROVE  \E state : Becomes(c, state) /\ state.pc \in {"failed", "searching", "found"}
<1>1. (\E error : Becomes(c, Failed(error))) \/ \E left, answered : Becomes(c, Searching(left, answered))
  <2>1. CASE FetchFails(c)
    BY <2>1 DEF FetchFails
  <2>2. CASE Cancel(c)
    BY <2>2 DEF Cancel
  <2>3. CASE \E question \in Questions : Search(c, question)
    BY <2>3 DEF Search
  <2>4. CASE \E repo \in Repos : RepoAnswers(c, repo) \/ RepoFails(c, repo)
    BY <2>4 DEF RepoAnswers, RepoFails, Without
  <2>. QED BY <2>1, <2>2, <2>3, <2>4
<1>2. \A error : Failed(error).pc = "failed"
  BY DEF Failed
<1>3. \A left, answered : Searching(left, answered).pc \in {"failed", "searching", "found"}
  BY DEF Searching, Failed
<1>. QED BY <1>1, <1>2, <1>3

LEMMA OtherStep ==
  ASSUME GitInv, NEW c \in Readers,
         \/ FetchFails(c) \/ Cancel(c)
         \/ \E question \in Questions : Search(c, question)
         \/ \E repo \in Repos : RepoAnswers(c, repo) \/ RepoFails(c, repo)
  PROVE  GitInv'
<1>1. /\ call[c].pc \in {"idle", "waiting", "fetching", "searching"}
      /\ UNCHANGED <<default_repos, now, cache>>
  <2>1. CASE FetchFails(c) \/ Cancel(c)
    BY <2>1 DEF FetchFails, Cancel
  <2>2. CASE \E question \in Questions : Search(c, question)
    BY <2>2 DEF Search, Idle
  <2>3. CASE \E repo \in Repos : RepoAnswers(c, repo) \/ RepoFails(c, repo)
    BY <2>3 DEF RepoAnswers, RepoFails
  <2>. QED BY <2>1, <2>2, <2>3
<1>2. PICK state : Becomes(c, state) /\ state.pc \in {"failed", "searching", "found"}
  BY LeavesReading
<1>3. call[c].pc # "done"
  BY <1>1
<1>. QED BY <1>1, <1>2, <1>3, AsideStep

LEMMA TickStep == ASSUME GitInv, Tick PROVE GitInv'
<1>1. now \in Nat /\ now' = now + 1 /\ UNCHANGED <<default_repos, tip, cache, call>>
  BY DEF Tick, GitInv, Dated
<1>2. \A question : Key(question)' = Key(question)
  BY <1>1 DEF Key, View, ResolveRepo, ResolveRef
<1>3. Dated'
  BY <1>1, <1>2, RepositoryAssumption DEF Tick, GitInv, Dated, IsReader, IsReading, IsValue, RightBranch
<1>4. OneEach' /\ NeverBack' /\ DeployedIsShown'
  BY <1>1, <1>2 DEF GitInv, OneEach, NeverBack, DeployedIsShown, View
<1>5. Newest' /\ Floored'
  BY <1>1, <1>2 DEF GitInv, Newest, Floored, Shown, IsReader
<1>6. Alone'
  BY <1>1, <1>2 DEF GitInv, Alone, Hits, Fresh, Shown, Dated
<1>. QED BY <1>3, <1>4, <1>5, <1>6 DEF GitInv

LEMMA StillStep == ASSUME GitInv, UNCHANGED <<default_repos, now, cache, call>> PROVE GitInv'
<1>1. \A question : Key(question)' = Key(question)
  BY DEF Key, View, ResolveRepo, ResolveRef
<1>2. Dated' /\ OneEach' /\ NeverBack' /\ DeployedIsShown'
  BY <1>1 DEF GitInv, Dated, OneEach, NeverBack, DeployedIsShown, View, IsReader, IsReading, IsValue, RightBranch
<1>3. Newest' /\ Floored' /\ Alone'
  BY <1>1 DEF GitInv, Newest, Floored, Alone, Hits, Fresh, Shown, IsReader
<1>. QED BY <1>2, <1>3 DEF GitInv

(* Nothing is known at first. *)
LEMMA InitGitInv == GitInit => GitInv
<1>. SUFFICES ASSUME GitInit PROVE GitInv
  OBVIOUS
<1>1. cache = {} /\ now = 0 /\ \A c \in Readers : call[c].pc = "idle"
  BY DEF GitInit, Idle
<1>2. Dated /\ DOMAIN call = Readers
  BY <1>1 DEF Dated, IsReader, GitInit
<1>. QED BY <1>1, <1>2 DEF GitInv, OneEach, Alone, Newest, Floored, DeployedIsShown, NeverBack, IsReader

LEMMA GitInvariance == GitSpec => []GitInv
<1>1. GitInv /\ [GitNext]_gitVars => GitInv'
  <2>. SUFFICES ASSUME GitInv, [GitNext]_gitVars PROVE GitInv'
    OBVIOUS
  <2>1. ASSUME NEW c \in Readers, NEW question \in Questions, Read(c, question) PROVE GitInv'
    BY <2>1, ReadStep
  <2>2. ASSUME NEW c \in Readers, Resume(c) \/ GitReads(c) \/ Fetched(c) PROVE GitInv'
    BY <2>2, ResumeStep, GitReadsStep, FetchedStep
  <2>3. ASSUME NEW c \in Readers,
               \/ FetchFails(c) \/ Cancel(c)
               \/ \E question \in Questions : Search(c, question)
               \/ \E repo \in Repos : RepoAnswers(c, repo) \/ RepoFails(c, repo)
        PROVE  GitInv'
    BY <2>3, OtherStep
  <2>4. CASE Tick
    BY <2>4, TickStep
  <2>5. CASE (\E repo \in Repos : \E branch \in DOMAIN Contents[repo] : Commit(repo, branch)) \/ UNCHANGED gitVars
    BY <2>5, StillStep DEF Commit, gitVars
  <2>. QED BY <2>1, <2>2, <2>3, <2>4, <2>5 DEF GitNext
<1>. QED BY InitGitInv, <1>1, PTL DEF GitSpec

(* Whatever key a call comes by, it is shown the branch that is deployed,  *)
(* and nothing as old as the TTL and one request.                          *)
THEOREM DeployedAlwaysShown == GitSpec => []DeployedIsShown
  BY GitInvariance, PTL DEF GitInv

(* Who asks after somebody was answered never sees an older state of the   *)
(* file, with any number of calls that miss the cache at once.             *)
THEOREM NobodyGoesBack == GitSpec => []NeverBack
  BY GitInvariance, PTL DEF GitInv

(* A key is fetched by one call at a time, has one entry, and the entry is *)
(* as new as all that was shown for the key.                               *)
THEOREM FetchesAreAlone == GitSpec => [](OneEach /\ Alone /\ Newest)
  BY GitInvariance, PTL DEF GitInv

----
(* The issues of a search. *)

Sorted(s) == \A i, j \in DOMAIN s : i < j => Stamp(s[i]) >= Stamp(s[j])

(* The oldest is put behind the rest. *)
LEMMA OldestLast ==
  ASSUME NEW S, IsFiniteSet(S), \A y \in S : Stamp(y) \in Nat,
         NEW x \in S, \A y \in S : Stamp(x) <= Stamp(y),
         NEW s \in SetToSeqs(S \ {x}), Sorted(s)
  PROVE  \E t \in SetToSeqs(S) : Sorted(t)
<1>1. PICK n \in Nat : Cardinality(S \ {x}) = n /\ Cardinality(S) = n + 1
  <2>1. Cardinality(S) \in Nat /\ Cardinality(S) # 0
    BY FS_CardinalityType, FS_EmptySet
  <2>2. Cardinality(S \ {x}) = Cardinality(S) - 1
    BY FS_RemoveElement
  <2>3. \A n \in Nat : n # 0 => n - 1 \in Nat /\ n = (n - 1) + 1
    OBVIOUS
  <2>. QED BY <2>1, <2>2, <2>3
<1>2. s \in [1..n -> S \ {x}] /\ \A i, j \in 1..n : i # j => s[i] # s[j]
  BY <1>1 DEF SetToSeqs
<1>. DEFINE t == [i \in 1..(n + 1) |-> IF i = n + 1 THEN x ELSE s[i]]
<1>3. /\ \A i \in 1..(n + 1) : i = n + 1 \/ i \in 1..n
      /\ n + 1 \in 1..(n + 1) /\ \A i \in 1..n : i \in 1..(n + 1) /\ i # n + 1 /\ ~ (n + 1 < i)
  OBVIOUS
<1>4. DOMAIN t = 1..(n + 1) /\ t[n + 1] = x /\ \A i \in 1..n : t[i] = s[i] /\ t[i] \in S \ {x}
  BY <1>2, <1>3
<1>5. t \in [1..(n + 1) -> S]
  BY <1>2, <1>3
<1>. HIDE DEF t
<1>6. \A i, j \in 1..(n + 1) : i # j => t[i] # t[j]
  BY <1>2, <1>3, <1>4
<1>7. t \in SetToSeqs(S)
  BY <1>1, <1>5, <1>6 DEF SetToSeqs
<1>8. ASSUME NEW i \in 1..(n + 1), NEW j \in 1..(n + 1), i < j PROVE Stamp(t[i]) >= Stamp(t[j])
  <2>1. i \in 1..n /\ (j \in 1..n \/ j = n + 1)
    BY <1>8
  <2>2. CASE j \in 1..n
    BY <1>2, <1>4, <1>8, <2>1, <2>2 DEF Sorted
  <2>3. CASE j = n + 1
    <3>1. t[j] = x /\ t[i] \in S
      BY <1>4, <2>1, <2>3
    <3>. QED BY <3>1
  <2>. QED BY <2>1, <2>2, <2>3
<1>. QED BY <1>4, <1>7, <1>8 DEF Sorted

(* Any finite set of issues can be sorted. *)
LEMMA SortedExists ==
  ASSUME NEW S, IsFiniteSet(S), \A y \in S : Stamp(y) \in Nat
  PROVE  \E t \in SetToSeqs(S) : Sorted(t)
<1>. DEFINE N == {n \in Nat : \A U \in SUBSET S : Cardinality(U) = n => \E t \in SetToSeqs(U) : Sorted(t)}
<1>1. 0 \in N
  <2>1. ASSUME NEW U \in SUBSET S, Cardinality(U) = 0 PROVE \E t \in SetToSeqs(U) : Sorted(t)
    <3>1. U = {}
      BY <2>1, FS_Subset, FS_EmptySet
    <3>2. <<>> \in SetToSeqs(U)
      BY <2>1 DEF SetToSeqs
    <3>. QED BY <3>2 DEF Sorted
  <2>. QED BY <2>1
<1>2. ASSUME NEW n \in Nat, n \in N PROVE n + 1 \in N
  <2>1. ASSUME NEW U \in SUBSET S, Cardinality(U) = n + 1 PROVE \E t \in SetToSeqs(U) : Sorted(t)
    <3>. DEFINE stamps == {Stamp(y) : y \in U}
    <3>1. IsFiniteSet(U) /\ U # {}
      BY <2>1, FS_Subset, FS_EmptySet
    <3>2. PICK m \in stamps : \A k \in stamps : m <= k
      <4>1. stamps \subseteq Nat /\ stamps # {}
        BY <3>1
      <4>. QED BY <4>1, Least
    <3>3. PICK x \in U : \A y \in U : Stamp(x) <= Stamp(y)
      BY <3>2
    <3>4. Cardinality(U \ {x}) = n
      <4>1. Cardinality(U \ {x}) = Cardinality(U) - 1
        BY <3>1, <3>3, FS_RemoveElement
      <4>. QED BY <2>1, <4>1
    <3>5. U \ {x} \in SUBSET S
      OBVIOUS
    <3>6. PICK s \in SetToSeqs(U \ {x}) : Sorted(s)
      BY <1>2, <3>4, <3>5
    <3>. QED BY <3>1, <3>3, <3>6, OldestLast
  <2>2. n + 1 \in Nat
    OBVIOUS
  <2>. QED BY <2>1, <2>2
<1>. HIDE DEF N
<1>3. Cardinality(S) \in N
  BY <1>1, <1>2, Induction, FS_CardinalityType
<1>. QED BY <1>3 DEF N

(* What is found has every issue, and the newest comes first. *)
LEMMA NewestFirstIs ==
  ASSUME NEW repos, repos \subseteq Repos
  PROVE  LET issues == NewestFirst(repos)
         IN  /\ \A repo \in repos : Issues[repo] \subseteq ToSet(issues)
             /\ \A i, j \in DOMAIN issues : i < j => Stamp(issues[i]) >= Stamp(issues[j])
<1>. DEFINE sets == {Issues[repo] : repo \in repos}
            S == UNION sets
<1>1. IsFiniteSet(S)
  <2>1. IsFiniteSet(repos)
    BY SearchAssumption, FS_Subset
  <2>2. IsFiniteSet(sets)
    <3>. DEFINE f == [repo \in repos |-> Issues[repo]]
    <3>1. f \in Surjection(repos, sets)
      BY DEF Surjection
    <3>. QED BY <2>1, <3>1, FS_Surjection
  <2>3. \A T \in sets : IsFiniteSet(T)
    BY SearchAssumption
  <2>. QED BY <2>2, <2>3, FS_UNION
<1>2. \A y \in S : Stamp(y) \in Nat
  BY SearchAssumption DEF Stamp, Or, Falsy
<1>3. PICK s : s = NewestFirst(repos)
  OBVIOUS
<1>4. s \in SetToSeqs(S) /\ Sorted(s)
  <2>1. \E t \in SetToSeqs(S) : Sorted(t)
    BY <1>1, <1>2, SortedExists
  <2>2. s = CHOOSE t \in SetToSeqs(S) : Sorted(t)
    BY <1>3 DEF NewestFirst, Sorted
  <2>. QED BY <2>1, <2>2
<1>5. ToSet(s) = S
  <2>1. PICK n \in Nat : n = Cardinality(S)
    BY <1>1, FS_CardinalityType
  <2>2. s \in Injection(1..n, S)
    BY <1>4, <2>1 DEF SetToSeqs, Injection, IsInjective
  <2>3. Cardinality(1..n) = n
    BY FS_Interval
  <2>4. s \in Surjection(1..n, S)
    BY <1>1, <2>1, <2>2, <2>3, FS_Injection
  <2>. QED BY <2>4 DEF Surjection, ToSet
<1>6. \A repo \in repos : Issues[repo] \subseteq S
  OBVIOUS
<1>. QED BY <1>3, <1>4, <1>5, <1>6 DEF Sorted

(* A search goes on among the repositories there are, and what it found    *)
(* are the issues of those that answered, the newest first.                *)
GoesOn(s) ==
  /\ s.pc = "searching" => s.left \cup s.answered \subseteq Repos
  /\ s.pc = "found" => s.answered \subseteq Repos /\ s.issues = NewestFirst(s.answered)

SearchInv == default_repos \in DefaultRepos /\ \A c \in Readers : GoesOn(call[c])

(* One repository less to wait for. *)
LEMMA SearchingGoesOn ==
  ASSUME NEW left, NEW answered, left \cup answered \subseteq Repos
  PROVE  GoesOn(Searching(left, answered))
BY DEF GoesOn, Searching, Failed

(* Reading is no search. *)
LEMMA ReadingGoesOn ==
  ASSUME NEW s, s = [pc |-> "waiting", ask |-> s.ask, began |-> s.began, floor |-> s.floor,
                     asked |-> s.asked, value |-> s.value]
  PROVE  /\ GoesOn(s) /\ GoesOn(Fetching(s))
         /\ \A error : GoesOn(Failed(error))
         /\ \A t, value : GoesOn(Delivered(t, value))
BY DEF GoesOn, Fetching, Failed, Delivered

(* A call becomes another one that goes on. *)
LEMMA SearchCallStep ==
  ASSUME SearchInv, DOMAIN call = Readers, NEW c \in Readers, NEW s, GoesOn(s), Becomes(c, s),
         default_repos' = default_repos
  PROVE  SearchInv'
<1>1. ASSUME NEW d \in Readers PROVE GoesOn(call[d])'
  <2>1. PICK t : t = call'[d]
    OBVIOUS
  <2>2. t = s \/ t = call[d]
    BY <2>1 DEF Becomes
  <2>3. GoesOn(call[d])
    BY DEF SearchInv
  <2>. QED BY <2>1, <2>2, <2>3 DEF GoesOn
<1>. QED BY <1>1 DEF SearchInv

(* Nothing happens to any call. *)
LEMMA SearchStays ==
  ASSUME SearchInv, UNCHANGED <<default_repos, call>>
  PROVE  SearchInv'
BY DEF SearchInv, GoesOn

(* A search is of repositories that there are. *)
LEMMA TargetsAreRepos ==
  ASSUME SearchInv, NEW question \in Questions, question.tool = "search_knowledge_base"
  PROVE  Targets(question) \subseteq Repos
<1>1. default_repos \in Seq(Repos)
  BY RepositoryAssumption DEF SearchInv
<1>2. ToSet(default_repos) \subseteq Repos
  BY <1>1 DEF ToSet
<1>. QED BY <1>2, SearchAssumption DEF Targets

(* Every step keeps what is known of the searches. *)
LEMMA SearchStep ==
  ASSUME GitInv, SearchInv, [GitNext]_gitVars
  PROVE  SearchInv'
<1>0. DOMAIN call = Readers
  BY DEF GitInv, Dated
<1>1. ASSUME NEW c \in Readers, NEW question \in Questions, Read(c, question) PROVE SearchInv'
  <2>1. PICK s : s = Started(question)
    OBVIOUS
  <2>2. s = [pc |-> "waiting", ask |-> s.ask, began |-> s.began, floor |-> s.floor,
             asked |-> s.asked, value |-> s.value]
    BY <2>1 DEF Started
  <2>3. \E t : Becomes(c, t) /\ GoesOn(t)
    BY <1>1, <2>1, <2>2, ReadingGoesOn DEF Read
  <2>. QED BY <1>0, <1>1, <2>3, SearchCallStep DEF Read
<1>2. ASSUME NEW c \in Readers, Resume(c) PROVE SearchInv'
  <2>1. PICK s : s = call[c]
    OBVIOUS
  <2>2. s = [pc |-> "waiting", ask |-> s.ask, began |-> s.began, floor |-> s.floor,
             asked |-> s.asked, value |-> s.value]
    BY <1>2, <2>1 DEF Resume, GitInv, Dated, IsReader, IsReading
  <2>3. \E t : Becomes(c, t) /\ GoesOn(t)
    BY <1>2, <2>1, <2>2, ReadingGoesOn DEF Resume
  <2>. QED BY <1>0, <1>2, <2>3, SearchCallStep DEF Resume
<1>3. ASSUME NEW c \in Readers, GitReads(c) PROVE SearchInv'
  <2>1. PICK s : s = call[c]
    OBVIOUS
  <2>2. s = [pc |-> "fetching", ask |-> s.ask, began |-> s.began, floor |-> s.floor,
             asked |-> s.asked, value |-> s.value]
    BY <1>3, <2>1 DEF GitReads, GitInv, Dated, IsReader, IsReading
  <2>3. PICK v : Becomes(c, [call[c] EXCEPT !.value = v])
    BY <1>3 DEF GitReads
  <2>4. PICK t : t = [s EXCEPT !.value = v]
    OBVIOUS
  <2>5. GoesOn(t) /\ Becomes(c, t)
    BY <2>1, <2>2, <2>3, <2>4 DEF GoesOn
  <2>. QED BY <1>0, <1>3, <2>5, SearchCallStep DEF GitReads
<1>4. ASSUME NEW c \in Readers, Fetched(c) \/ FetchFails(c) \/ Cancel(c) PROVE SearchInv'
  <2>1. \E t : Becomes(c, t) /\ GoesOn(t)
    <3>1. CASE Fetched(c)
      BY <3>1 DEF Fetched, GoesOn, Delivered, Failed
    <3>2. CASE FetchFails(c)
      BY <3>2 DEF FetchFails, GoesOn, Failed
    <3>3. CASE Cancel(c)
      BY <3>3 DEF Cancel, GoesOn, Failed
    <3>. QED BY <1>4, <3>1, <3>2, <3>3
  <2>. QED BY <1>0, <1>4, <2>1, SearchCallStep DEF Fetched, FetchFails, Cancel
<1>5. ASSUME NEW c \in Readers, NEW question \in Questions, Search(c, question) PROVE SearchInv'
  <2>1. \E t : Becomes(c, t) /\ GoesOn(t)
    <3>1. Targets(question) \subseteq Repos
      BY <1>5, TargetsAreRepos DEF Search
    <3>2. GoesOn(Searching(Targets(question), {}))
      BY <3>1, SearchingGoesOn
    <3>3. GoesOn(Failed("unsupported_git_host"))
      BY DEF GoesOn, Failed
    <3>. QED BY <1>5, <3>2, <3>3 DEF Search
  <2>. QED BY <1>0, <1>5, <2>1, SearchCallStep DEF Search
<1>6. ASSUME NEW c \in Readers, NEW repo \in Repos, RepoAnswers(c, repo) \/ RepoFails(c, repo)
      PROVE  SearchInv'
  <2>1. PICK left, answered : left = call[c].left /\ answered = call[c].answered
    OBVIOUS
  <2>2. left \cup answered \subseteq Repos
    BY <1>6, <2>1 DEF RepoAnswers, RepoFails, SearchInv, GoesOn
  <2>3. /\ GoesOn(Searching(left \ {repo}, answered \cup {repo}))
        /\ GoesOn(Searching(left \ {repo}, answered))
    BY <2>2, SearchingGoesOn
  <2>4. \E t : Becomes(c, t) /\ GoesOn(t)
    BY <1>6, <2>1, <2>3 DEF RepoAnswers, RepoFails, Without
  <2>. QED BY <1>0, <1>6, <2>4, SearchCallStep DEF RepoAnswers, RepoFails
<1>7. CASE \/ Tick \/ UNCHANGED gitVars
           \/ \E repo \in Repos : \E branch \in DOMAIN Contents[repo] : Commit(repo, branch)
  BY <1>7, SearchStays DEF Tick, Commit, gitVars
<1>. QED BY <1>1, <1>2, <1>3, <1>4, <1>5, <1>6, <1>7 DEF GitNext

(* A search that is under way fails only if its caller gives it up, or by  *)
(* dates that do not compare.                                              *)
LEMMA OnlyCancelled ==
  ASSUME GitInv, [GitNext]_gitVars, NEW c \in Readers,
         call[c].pc = "searching", call'[c].pc = "failed"
  PROVE  \/ call'[c].error = "cancelled"
         \/ /\ call'[c].error = "internal_error"
            /\ \E repos \in SUBSET (call[c].left \cup call[c].answered) : ~ Comparable(repos)
<1>0. DOMAIN call = Readers
  BY DEF GitInv, Dated
<1>1. call' # call
  OBVIOUS
<1>2. PICK d \in Readers :
        \/ \E question \in Questions : Read(d, question) \/ Search(d, question)
        \/ Resume(d) \/ GitReads(d) \/ Fetched(d) \/ FetchFails(d) \/ Cancel(d)
        \/ \E repo \in Repos : RepoAnswers(d, repo) \/ RepoFails(d, repo)
  BY <1>1 DEF GitNext, Commit, Tick, gitVars
<1>3. \E s : Becomes(d, s)
  BY <1>2 DEF Read, Search, Resume, GitReads, Fetched, FetchFails, Cancel, RepoAnswers, RepoFails
<1>4. d = c
  BY <1>0, <1>3 DEF Becomes
<1>5. \/ Cancel(c)
      \/ \E repo \in Repos : RepoAnswers(c, repo) \/ RepoFails(c, repo)
  BY <1>2, <1>4 DEF Read, Search, Resume, GitReads, Fetched, FetchFails, Idle
<1>6. \A left, answered : Searching(left, answered).pc = "failed" =>
        ~ Comparable(answered) /\ Searching(left, answered).error = "internal_error"
  <2>. SUFFICES ASSUME NEW left, NEW answered, Searching(left, answered).pc = "failed"
                PROVE  ~ Comparable(answered) /\ Searching(left, answered).error = "internal_error"
    OBVIOUS
  <2>1. left = {}
    BY DEF Searching
  <2>2. CASE Comparable(answered)
    BY <2>1, <2>2 DEF Searching
  <2>3. CASE ~ Comparable(answered)
    BY <2>1, <2>3 DEF Searching, Failed
  <2>. QED BY <2>2, <2>3
<1>7. CASE Cancel(c)
  BY <1>0, <1>7 DEF Cancel, Becomes, Failed
<1>8. CASE \E repo \in Repos : RepoAnswers(c, repo) \/ RepoFails(c, repo)
  <2>1. PICK left, answered :
          Becomes(c, Searching(left, answered)) /\ answered \subseteq call[c].left \cup call[c].answered
    BY <1>8 DEF RepoAnswers, RepoFails, Without
  <2>2. call'[c] = Searching(left, answered)
    BY <1>0, <2>1 DEF Becomes
  <2>. QED BY <1>6, <2>1, <2>2
<1>. QED BY <1>5, <1>7, <1>8

(* A search ends with the issues of all repositories that answered, the    *)
(* newest first, whatever becomes of the others; it fails as a whole only  *)
(* if it is cancelled, or if the dates of the issues do not compare.       *)
THEOREM SearchesKeepTheRest == GitSpec => SearchKeepsTheRest
<1>1. GitInit => SearchInv
  BY DEF GitInit, SearchInv, GoesOn, Idle
<1>2. GitInv /\ SearchInv /\ [GitNext]_gitVars => SearchInv'
  BY SearchStep
<1>3. SearchInv' => \A c \in Readers : call'[c].pc = "found" =>
        LET issues == call'[c].issues
        IN  /\ \A repo \in call'[c].answered : Issues[repo] \subseteq ToSet(issues)
            /\ \A i, j \in DOMAIN issues : i < j => Stamp(issues[i]) >= Stamp(issues[j])
  <2>. SUFFICES ASSUME SearchInv', NEW c \in Readers, call'[c].pc = "found"
                PROVE  LET issues == call'[c].issues
                       IN  /\ \A repo \in call'[c].answered : Issues[repo] \subseteq ToSet(issues)
                           /\ \A i, j \in DOMAIN issues : i < j => Stamp(issues[i]) >= Stamp(issues[j])
    OBVIOUS
  <2>1. PICK s : s = call'[c]
    OBVIOUS
  <2>2. s.pc = "found" /\ s.answered \subseteq Repos /\ s.issues = NewestFirst(s.answered)
    BY <2>1 DEF SearchInv, GoesOn
  <2>. QED BY <2>1, <2>2, NewestFirstIs
<1>4. GitInv /\ SearchInv' /\ [GitNext]_gitVars =>
        \A c \in Readers :
          /\ call[c].pc = "searching" /\ call'[c].pc = "failed" =>
               \/ call'[c].error = "cancelled"
               \/ call'[c].error = "internal_error" /\ \E repos \in SUBSET (call[c].left \cup call[c].answered) :
                    ~ Comparable(repos)
          /\ call'[c].pc = "found" =>
               LET issues == call'[c].issues
               IN  /\ \A repo \in call'[c].answered : Issues[repo] \subseteq ToSet(issues)
                   /\ \A i, j \in DOMAIN issues : i < j => Stamp(issues[i]) >= Stamp(issues[j])
  BY <1>3, OnlyCancelled
<1>. QED BY <1>1, <1>2, <1>4, GitInvariance, PTL DEF GitSpec, SearchKeepsTheRest

----
(* The devices of a file: those of each IOC, in their places. *)

IocAt(file, i) == MergeIocDefaults(file.iocDefaults, file.iocs[i])

DevicesAt(file, i) == Or(Get(IocAt(file, i), "devices"), <<>>)

ListedAt(file, filters, i) ==
  FlattenSeq([j \in DOMAIN DevicesAt(file, i) |-> Listed(IocAt(file, i), DevicesAt(file, i)[j], filters)])

Place(file, i, j) == [ioc |-> file.iocs[i], dev |-> DevicesAt(file, i)[j], at |-> <<i, j>>]

(* Whether the device in a place has a name and is asked for. *)
Wanted(file, filters, i, j) ==
  HasName(DevicesAt(file, i)[j]) /\ IsAskedFor(file, Place(file, i, j), filters)

WantedAt(file, filters, i) ==
  {Place(file, i, j) : j \in {k \in DOMAIN DevicesAt(file, i) : Wanted(file, filters, i, k)}}

(* What the merge gives for a key is what the file says of it. *)
LEMMA MergedIsSaid ==
  ASSUME NEW file, NEW raw, NEW key
  PROVE  Get(MergeIocDefaults(file.iocDefaults, raw), key) = Says(file, raw, key)
<1>. DEFINE inherited == DefaultsOf(file.iocDefaults, raw)
<1>1. CASE inherited \in Falsy
  <2>1. MergeIocDefaults(file.iocDefaults, raw) = raw
    BY <1>1 DEF MergeIocDefaults
  <2>2. key \notin DOMAIN <<>>
    OBVIOUS
  <2>3. Or(inherited, <<>>) = <<>>
    BY <1>1 DEF Or
  <2>. HIDE DEF inherited
  <2>4. Says(file, raw, key) = IF key \in DOMAIN raw THEN raw[key] ELSE Get(Or(inherited, <<>>), key)
    BY DEF Says, inherited
  <2>. QED BY <2>1, <2>2, <2>3, <2>4 DEF Get
<1>2. CASE inherited \notin Falsy
  <2>. HIDE DEF inherited
  <2>1. MergeIocDefaults(file.iocDefaults, raw) =
          [k \in DOMAIN inherited \cup DOMAIN raw |-> IF k \in DOMAIN raw THEN raw[k] ELSE inherited[k]]
    BY <1>2 DEF MergeIocDefaults, inherited
  <2>2. Says(file, raw, key) = IF key \in DOMAIN raw THEN raw[key] ELSE Get(inherited, key)
    BY <1>2 DEF Says, inherited, Or
  <2>. QED BY <2>1, <2>2 DEF Get
<1>. QED BY <1>1, <1>2

(* What an IOC inherits is of its template, or nothing. *)
LEMMA DefaultsAre ==
  ASSUME NEW file, NEW raw, DefaultsOf(file.iocDefaults, raw) # NoValue
  PROVE  \E t \in DOMAIN file.iocDefaults : DefaultsOf(file.iocDefaults, raw) = file.iocDefaults[t]
BY DEF DefaultsOf, Get

(* The devices of an IOC are listed. *)
LEMMA DevicesAreListed ==
  ASSUME NEW file, IsFile(file), NEW i \in DOMAIN file.iocs
  PROVE  DevicesAt(file, i) \in Seq(ToSet(DevicesAt(file, i)))
<1>. DEFINE raw == file.iocs[i]
            said == Says(file, raw, "devices")
            inherited == DefaultsOf(file.iocDefaults, raw)
<1>1. DevicesAt(file, i) = Or(said, <<>>)
  BY MergedIsSaid DEF DevicesAt, IocAt
<1>2. <<>> \in Seq(ToSet(<<>>))
  OBVIOUS
<1>3. said # NoValue => said \in Seq(ToSet(said))
  <2>1. CASE "devices" \in DOMAIN raw
    BY <2>1 DEF Says, IsFile, Get
  <2>2. CASE "devices" \notin DOMAIN raw
    <3>1. said = Get(Or(inherited, <<>>), "devices")
      BY <2>2 DEF Says
    <3>2. "devices" \notin DOMAIN <<>>
      OBVIOUS
    <3>3. CASE inherited = NoValue \/ Or(inherited, <<>>) = <<>>
      <4>1. Or(inherited, <<>>) = <<>>
        BY <3>3 DEF Or, Falsy
      <4>. HIDE DEF inherited, said
      <4>. QED BY <3>1, <3>2, <4>1 DEF Get
    <3>4. CASE inherited # NoValue /\ Or(inherited, <<>>) = inherited
      <4>1. PICK t \in DOMAIN file.iocDefaults : inherited = file.iocDefaults[t]
        BY <3>4, DefaultsAre
      <4>2. said = Get(file.iocDefaults[t], "devices")
        BY <3>1, <3>4, <4>1
      <4>. HIDE DEF inherited, said
      <4>3. Get(file.iocDefaults[t], "devices") # NoValue =>
              file.iocDefaults[t].devices \in Seq(ToSet(file.iocDefaults[t].devices))
        BY DEF IsFile
      <4>. QED BY <4>2, <4>3 DEF Get
    <3>. QED BY <3>3, <3>4 DEF Or
  <2>. QED BY <2>1, <2>2
<1>. HIDE DEF said
<1>. QED BY <1>1, <1>2, <1>3 DEF Or, Falsy

(* A device that is wanted is listed, and without a zone no other one is.  *)
LEMMA ListedIs ==
  ASSUME NEW file, NEW filters, filters.devfunc = NoValue, NEW i, NEW j
  PROVE  LET listed == Listed(IocAt(file, i), DevicesAt(file, i)[j], filters)
             device == Device(IocAt(file, i), DevicesAt(file, i)[j])
         IN  /\ listed \in {<<>>, <<device>>}
             /\ Wanted(file, filters, i, j) => listed = <<device>>
             /\ filters.zone = NoValue /\ listed # <<>> => Wanted(file, filters, i, j)
             /\ Wanted(file, filters, i, j) =>
                  device.name \in {Get(DevicesAt(file, i)[j], "alias"), Get(DevicesAt(file, i)[j], "name")}
<1>. DEFINE dev == DevicesAt(file, i)[j]
            ioc == IocAt(file, i)
            device == Device(ioc, dev)
            listed == Listed(ioc, dev, filters)
<1>1. /\ device.name = Or(Get(dev, "alias"), Get(dev, "name"))
      /\ device.devgroup = Get(ioc, "devgroup") /\ device.zones = DeviceZones(ioc, dev)
  BY DEF Device, NameOf
<1>2. HasName(dev) <=> device.name \notin Falsy
  BY <1>1 DEF HasName, Or
<1>3. /\ Get(ioc, "devgroup") = Says(file, file.iocs[i], "devgroup")
      /\ Get(ioc, "zones") = Says(file, file.iocs[i], "zones")
  BY MergedIsSaid DEF IocAt
<1>4. Place(file, i, j).ioc = file.iocs[i] /\ Place(file, i, j).dev = dev
  BY DEF Place
<1>. DEFINE zones == IF "zones" \in DOMAIN dev THEN dev.zones ELSE Get(ioc, "zones")
<1>5. IsAskedFor(file, Place(file, i, j), filters) <=>
        /\ filters.devgroup \in {NoValue, device.devgroup}
        /\ filters.zone = NoValue \/ zones = NoValue \/ {filters.zone, All} \cap zones.zones # {}
  <2>. HIDE DEF dev, ioc, device
  <2>. QED BY <1>1, <1>3, <1>4 DEF IsAskedFor
<1>6. NormalizeZones(zones) \subseteq device.zones
  BY <1>1 DEF DeviceZones
<1>7. MatchesFilters(device, filters) <=>
        /\ filters.devgroup \in {NoValue, device.devgroup}
        /\ filters.zone = NoValue \/ {filters.zone, All} \cap device.zones # {}
  BY DEF MatchesFilters
<1>8. listed = IF device.name \notin Falsy /\ MatchesFilters(device, filters) THEN <<device>> ELSE <<>>
  BY DEF Listed
<1>9. Wanted(file, filters, i, j) <=> HasName(dev) /\ IsAskedFor(file, Place(file, i, j), filters)
  BY DEF Wanted
<1>. HIDE DEF dev, ioc, device, listed, zones
<1>10. zones = NoValue \/ {filters.zone, All} \cap zones.zones # {} => {filters.zone, All} \cap device.zones # {}
  BY <1>6 DEF NormalizeZones
<1>11. Wanted(file, filters, i, j) => device.name \notin Falsy /\ MatchesFilters(device, filters)
  BY <1>2, <1>5, <1>7, <1>9, <1>10
<1>12. listed \in {<<>>, <<device>>} /\ (Wanted(file, filters, i, j) => listed = <<device>>)
  BY <1>8, <1>11
<1>13. filters.zone = NoValue /\ listed # <<>> => Wanted(file, filters, i, j)
  BY <1>2, <1>5, <1>7, <1>8, <1>9
<1>14. device.name \in {Get(dev, "alias"), Get(dev, "name")}
  BY <1>1 DEF Or
<1>. QED BY <1>12, <1>13, <1>14 DEF dev, ioc, device, listed

(* What is listed of one IOC: what is wanted, and without a zone once.     *)
LEMMA ListedAtIs ==
  ASSUME NEW file, IsFile(file), NEW i \in DOMAIN file.iocs, NEW filters, filters.devfunc = NoValue
  PROVE  /\ ListedAt(file, filters, i) \in Seq(ToSet(ListedAt(file, filters, i)))
         /\ \A j \in DOMAIN DevicesAt(file, i) : Wanted(file, filters, i, j) =>
              \E device \in ToSet(ListedAt(file, filters, i)) :
                device.name \in {Get(DevicesAt(file, i)[j], "alias"), Get(DevicesAt(file, i)[j], "name")}
         /\ filters.zone = NoValue =>
              /\ IsFiniteSet(WantedAt(file, filters, i))
              /\ Len(ListedAt(file, filters, i)) = Cardinality(WantedAt(file, filters, i))
<1>. DEFINE devs == DevicesAt(file, i)
            ioc == IocAt(file, i)
            listed == [j \in DOMAIN devs |-> Listed(ioc, devs[j], filters)]
            T == {Device(ioc, devs[j]) : j \in DOMAIN devs}
            all == ListedAt(file, filters, i)
<1>1. PICK n \in Nat : n = Len(devs) /\ DOMAIN devs = 1..n
  BY DevicesAreListed
<1>2. all = FlattenSeq(listed)
  BY DEF ListedAt
<1>3. \A j \in 1..n : /\ Device(ioc, devs[j]) \in T
                      /\ listed[j] \in {<<>>, <<Device(ioc, devs[j])>>}
                      /\ Wanted(file, filters, i, j) => listed[j] = <<Device(ioc, devs[j])>>
                      /\ filters.zone = NoValue /\ listed[j] # <<>> => Wanted(file, filters, i, j)
                      /\ Wanted(file, filters, i, j) =>
                           Device(ioc, devs[j]).name \in {Get(devs[j], "alias"), Get(devs[j], "name")}
  BY <1>1, ListedIs
<1>4. DOMAIN listed = 1..n /\ Len(listed) = n
  <2>1. listed = [j \in 1..n |-> Listed(ioc, devs[j], filters)]
    BY <1>1
  <2>. HIDE DEF listed
  <2>. QED BY <2>1
<1>. HIDE DEF listed, T, all, devs, ioc
<1>5. \A j \in 1..n : listed[j] \in Seq(T)
  <2>1. \A d \in T : <<d>> \in Seq(T)
    OBVIOUS
  <2>2. <<>> \in Seq(T)
    OBVIOUS
  <2>. QED BY <1>3, <2>1, <2>2
<1>6. all \in Seq(T) /\ ToSet(all) = UNION {ToSet(listed[j]) : j \in 1..n}
  BY <1>2, <1>4, <1>5, FlattenRange
<1>7. all \in Seq(ToSet(all))
  BY <1>6 DEF ToSet
<1>8. \A j \in 1..n : Wanted(file, filters, i, j) => Device(ioc, devs[j]) \in ToSet(all)
  <2>1. \A d : d \in ToSet(<<d>>)
    BY DEF ToSet
  <2>. QED BY <1>3, <1>6, <2>1
<1>9. ASSUME filters.zone = NoValue
      PROVE  IsFiniteSet(WantedAt(file, filters, i)) /\ Len(all) = Cardinality(WantedAt(file, filters, i))
  <2>. DEFINE A == [j \in 1..n |-> IF Wanted(file, filters, i, j) THEN {Place(file, i, j)} ELSE {}]
  <2>1. \A j \in 1..n : IsFiniteSet(A[j]) /\ Len(listed[j]) = Cardinality(A[j])
    <3>1. ASSUME NEW j \in 1..n, Wanted(file, filters, i, j)
          PROVE  IsFiniteSet(A[j]) /\ Len(listed[j]) = Cardinality(A[j])
      <4>1. A[j] = {Place(file, i, j)} /\ listed[j] = <<Device(ioc, devs[j])>>
        BY <1>3, <3>1
      <4>2. Len(listed[j]) = 1
        BY <4>1
      <4>3. IsFiniteSet(A[j]) /\ Cardinality(A[j]) = 1
        BY <4>1, FS_Singleton
      <4>. QED BY <4>2, <4>3
    <3>2. ASSUME NEW j \in 1..n, ~ Wanted(file, filters, i, j)
          PROVE  IsFiniteSet(A[j]) /\ Len(listed[j]) = Cardinality(A[j])
      <4>1. A[j] = {} /\ listed[j] = <<>>
        BY <1>3, <1>9, <3>2
      <4>2. Len(listed[j]) = 0
        BY <4>1
      <4>3. IsFiniteSet(A[j]) /\ Cardinality(A[j]) = 0
        BY <4>1, FS_EmptySet
      <4>. QED BY <4>2, <4>3
    <3>. QED BY <3>1, <3>2
  <2>2. \A j, k \in 1..n : j # k => A[j] \cap A[k] = {}
    <3>1. \A j, k \in 1..n : Place(file, i, j) = Place(file, i, k) => j = k
      BY DEF Place
    <3>. QED BY <3>1
  <2>3. Together(A, n) = WantedAt(file, filters, i)
    <3>1. WantedAt(file, filters, i) = {Place(file, i, j) : j \in {k \in 1..n : Wanted(file, filters, i, k)}}
      BY <1>1 DEF WantedAt, devs
    <3>. QED BY <3>1 DEF Together
  <2>. HIDE DEF A
  <2>4. IsFiniteSet(Together(A, n)) /\ Len(FlattenSeq(listed)) = Cardinality(Together(A, n))
    <3>1. \A j \in 1..n :
            listed[j] \in Seq(T) /\ IsFiniteSet(A[j]) /\ Len(listed[j]) = Cardinality(A[j])
      BY <1>5, <2>1
    <3>2. CountedBy(listed, A, n, T)
      BY <1>4, <2>2, <3>1 DEF CountedBy
    <3>. QED BY <3>2, FlattenCounts
  <2>. QED BY <1>2, <2>3, <2>4
<1>10. DOMAIN devs = 1..n
  BY <1>1
<1>. QED BY <1>3, <1>7, <1>8, <1>9, <1>10 DEF devs, all

(* A listing of a file misses nothing that is wanted, and without a zone   *)
(* it has each device once.                                                *)
LEMMA ListingsCountRight ==
  ASSUME NEW file, IsFile(file), NEW filters PROVE CountsRight(file, filters, ListDevices(file, filters))
<1>. SUFFICES ASSUME filters.devfunc = NoValue PROVE CountsRight(file, filters, ListDevices(file, filters))
  BY DEF CountsRight
<1>. DEFINE at == [i \in DOMAIN file.iocs |-> ListedAt(file, filters, i)]
            listing == ListDevices(file, filters)
            asked == {e \in Named(file) : IsAskedFor(file, e, filters)}
<1>1. PICK n \in Nat : n = Len(file.iocs) /\ DOMAIN file.iocs = 1..n
  BY DEF IsFile
<1>2. listing = FlattenSeq(at)
  BY DEF ListDevices, ListedAt, IocAt, DevicesAt
<1>3. at = [i \in 1..n |-> ListedAt(file, filters, i)]
  BY <1>1
<1>. DEFINE T == UNION {ToSet(at[i]) : i \in 1..n}
<1>. HIDE DEF at, listing
<1>4. DOMAIN at = 1..n /\ Len(at) = n /\ \A i \in 1..n : at[i] = ListedAt(file, filters, i)
  BY <1>3
<1>5. \A i \in 1..n : at[i] \in Seq(T)
  <2>1. \A i \in 1..n : at[i] \in Seq(ToSet(at[i])) /\ ToSet(at[i]) \subseteq T
    <3>1. \A i \in 1..n : ToSet(at[i]) \subseteq T
      OBVIOUS
    <3>. HIDE DEF T
    <3>2. \A i \in 1..n : at[i] \in Seq(ToSet(at[i]))
      <4>1. ASSUME NEW i \in 1..n PROVE at[i] \in Seq(ToSet(at[i]))
        <5>1. i \in DOMAIN file.iocs /\ at[i] = ListedAt(file, filters, i)
          BY <1>1, <1>4
        <5>. QED BY <5>1, ListedAtIs
      <4>. QED BY <4>1
    <3>. QED BY <3>1, <3>2
  <2>2. \A S, s : S \subseteq T /\ s \in Seq(S) => s \in Seq(T)
    OBVIOUS
  <2>. HIDE DEF T
  <2>. QED BY <2>1, <2>2
<1>6. ToSet(listing) = T
  <2>. HIDE DEF T
  <2>1. ToSet(listing) = UNION {ToSet(at[i]) : i \in 1..n}
    BY <1>2, <1>4, <1>5, FlattenRange
  <2>. QED BY <2>1 DEF T
<1>7. asked = UNION {WantedAt(file, filters, i) : i \in 1..n}
  <2>1. \A i \in 1..n : DevicesAt(file, i) = Or(Says(file, file.iocs[i], "devices"), <<>>)
    BY MergedIsSaid DEF DevicesAt, IocAt
  <2>2. Named(file) =
          UNION {{Place(file, i, j) : j \in {k \in DOMAIN DevicesAt(file, i) : HasName(DevicesAt(file, i)[k])}} :
                   i \in 1..n}
    BY <1>1, <2>1 DEF Named, Place
  <2>. QED BY <2>2 DEF WantedAt, Wanted
<1>8. ASSUME NEW e \in asked
      PROVE  \E k \in DOMAIN listing : listing[k].name \in {Get(e.dev, "alias"), Get(e.dev, "name")}
  <2>1. PICK i \in 1..n : e \in WantedAt(file, filters, i)
    BY <1>7, <1>8
  <2>2. PICK j \in DOMAIN DevicesAt(file, i) : Wanted(file, filters, i, j) /\ e = Place(file, i, j)
    BY <2>1 DEF WantedAt
  <2>3. e.dev = DevicesAt(file, i)[j]
    BY <2>2 DEF Place
  <2>4. PICK device \in ToSet(at[i]) : device.name \in {Get(e.dev, "alias"), Get(e.dev, "name")}
    BY <1>1, <1>4, <2>2, <2>3, ListedAtIs
  <2>5. device \in ToSet(listing)
    BY <1>6, <2>4
  <2>. QED BY <2>4, <2>5 DEF ToSet
<1>9. ASSUME filters.zone = NoValue PROVE Len(listing) = Cardinality(asked)
  <2>. DEFINE A == [i \in 1..n |-> WantedAt(file, filters, i)]
  <2>1. \A i \in 1..n : IsFiniteSet(A[i]) /\ Len(at[i]) = Cardinality(A[i])
    BY <1>1, <1>4, <1>9, ListedAtIs
  <2>2. \A i, k \in 1..n : i # k => A[i] \cap A[k] = {}
    <3>1. \A i, k \in 1..n : \A e \in A[i] \cap A[k] : i = k
      BY DEF WantedAt, Place
    <3>. QED BY <3>1
  <2>3. asked = Together(A, n)
    BY <1>7 DEF Together
  <2>. HIDE DEF A, T, asked
  <2>4. Len(FlattenSeq(at)) = Cardinality(Together(A, n))
    <3>1. \A i \in 1..n : at[i] \in Seq(T) /\ IsFiniteSet(A[i]) /\ Len(at[i]) = Cardinality(A[i])
      BY <1>5, <2>1
    <3>2. CountedBy(at, A, n, T)
      BY <1>4, <2>2, <3>1 DEF CountedBy
    <3>. QED BY <3>2, FlattenCounts
  <2>. QED BY <1>2, <2>3, <2>4
<1>. QED BY <1>8, <1>9 DEF CountsRight, listing

----
(* A commit of the file, under a key of it. *)
Exists(key, commit) ==
  key.view = "file" =>
    /\ commit.branch \in DOMAIN Contents[key.repo]
    /\ commit.version \in DOMAIN Contents[key.repo][commit.branch]

CanBeAsked(question) ==
  question \in Questions /\ question.tool # "search_knowledge_base" /\ ResolveRepo(question.repo) # NoValue

(* What is read, stored and fetched is there. *)
ListInv ==
  /\ default_repos \in DefaultRepos
  /\ tip = [repo \in Repos |-> [branch \in DOMAIN Contents[repo] |-> tip[repo][branch]]]
  /\ \A repo \in Repos : \A branch \in DOMAIN Contents[repo] : tip[repo][branch] \in DOMAIN Contents[repo][branch]
  /\ \A e \in cache : Exists(e.key, e.value.commit)
  /\ \A c \in Readers : IsReader(c) =>
       CanBeAsked(call[c].ask) /\ \A v \in call[c].value : Exists(Key(call[c].ask), v.commit)
  /\ InventoryCountsRight

(* The file that is asked for is in one of the repositories, and the       *)
(* server has the branch that the key stands for.                          *)
LEMMA ServedExists ==
  ASSUME ListInv, NEW question, CanBeAsked(question)
  PROVE  Key(question).repo \in Repos /\ Exists(Key(question), Served(Key(question)))
<1>1. ResolveRepo(question.repo) \in Repos
  <2>1. question.repo \in Repos \cup {NoValue}
    BY QuestionAssumption DEF CanBeAsked
  <2>2. default_repos \in Seq(Repos)
    BY RepositoryAssumption DEF ListInv
  <2>3. default_repos # <<>> => default_repos[1] \in Repos
    BY <2>2
  <2>. QED BY <2>1, <2>3 DEF CanBeAsked, ResolveRepo
<1>2. PICK repo \in Repos : repo = ResolveRepo(question.repo)
  BY <1>1
<1>3. Key(question).repo = repo /\ (Key(question).view = "file" => Key(question).ref = ResolveRef(question.ref))
  BY <1>2 DEF Key
<1>4. ASSUME Key(question).view = "file" PROVE Exists(Key(question), Served(Key(question)))
  <2>1. question.ref \in DOMAIN Contents[repo] \cup {NoValue, HeadRef}
    <3>1. question.repo \in {NoValue, repo}
      BY <1>2 DEF ResolveRepo
    <3>. QED BY <3>1, QuestionAssumption DEF CanBeAsked
  <2>2. Key(question).ref \in DOMAIN Contents[repo] \cup {HeadRef} /\ Main \in DOMAIN Contents[repo]
    BY <1>3, <1>4, <2>1, RepositoryAssumption DEF ResolveRef
  <2>. DEFINE ref == Request(Key(question))
              branch == IF ref \in {NoValue, HeadRef} THEN Main ELSE ref
  <2>3. branch \in DOMAIN Contents[repo]
    BY <1>4, <2>2 DEF Request, GitHubRequest, GitLabRequest
  <2>. HIDE DEF ref
  <2>4. Served(Key(question)) = [branch |-> branch, version |-> tip[repo][branch]]
    BY <1>3, <1>4 DEF Served, ref
  <2>. HIDE DEF branch
  <2>5. tip[repo][branch] \in DOMAIN Contents[repo][branch]
    BY <2>3 DEF ListInv
  <2>. QED BY <1>3, <2>3, <2>4, <2>5 DEF Exists
<1>. QED BY <1>1, <1>3, <1>4 DEF Exists

(* What is delivered counts right: it is of a file, or there is no list.   *)
LEMMA DeliveredCounts ==
  ASSUME ListInv, NEW s, CanBeAsked(s.ask), NEW value, Exists(Key(s.ask), value.commit),
         Delivered(s, value).pc = "done", Delivered(s, value).listing # NoValue
  PROVE  LET t == Delivered(s, value)
         IN  CountsRight(Content(ResolveRepo(t.ask.repo), t.commit), t.ask.filters, t.listing)
<1>. DEFINE repo == ResolveRepo(s.ask.repo)
            file == Content(repo, value.commit)
            t == Delivered(s, value)
<1>1. t = [pc |-> "done", ask |-> s.ask, began |-> s.began, floor |-> s.floor,
           commit |-> value.commit, read |-> value.read, listing |-> Listing(s.ask, repo, value.commit)]
  BY DEF Delivered, Failed
<1>2. t.ask = s.ask /\ t.commit = value.commit /\ t.listing = Listing(s.ask, repo, value.commit)
  BY <1>1
<1>3. s.ask.tool = "list_beamline_devices" /\ t.listing = ListDevices(file, s.ask.filters)
  BY <1>2 DEF Listing
<1>4. file # Unparsable
  BY <1>3 DEF Delivered, Failed
<1>5. Key(s.ask).view = "file" /\ Key(s.ask).repo = repo
  BY <1>3 DEF Key, View
<1>6. repo \in Repos
  BY <1>5, ServedExists
<1>7. IsFile(file)
  <2>1. PICK files : files = Contents[repo][value.commit.branch]
    OBVIOUS
  <2>2. /\ files \in Seq(ToSet(files)) /\ value.commit.version \in DOMAIN files
        /\ \A f \in ToSet(files) \ {Unparsable} : IsFile(f)
    BY <1>5, <1>6, <2>1, ContentAssumption DEF Exists
  <2>3. files[value.commit.version] \in ToSet(files)
    BY <2>2 DEF ToSet
  <2>. QED BY <1>4, <2>1, <2>2, <2>3 DEF Content
<1>. HIDE DEF t, file, repo
<1>8. CountsRight(file, s.ask.filters, t.listing)
  BY <1>3, <1>7, ListingsCountRight
<1>. QED BY <1>2, <1>8 DEF t, file, repo

(* A step of one call. *)
LEMMA ListCallStep ==
  ASSUME ListInv, DOMAIN call = Readers, NEW c \in Readers, NEW state, Becomes(c, state),
         UNCHANGED <<default_repos, tip>>,
         \A e \in cache' : Exists(e.key, e.value.commit),
         state.pc \in {"waiting", "fetching"} =>
           CanBeAsked(state.ask) /\ \A v \in state.value : Exists(Key(state.ask), v.commit),
         state.pc = "done" /\ state.listing # NoValue =>
           CountsRight(Content(ResolveRepo(state.ask.repo), state.commit), state.ask.filters, state.listing)
  PROVE  ListInv'
<1>1. call'[c] = state /\ \A d \in Readers \ {c} : call'[d] = call[d]
  BY DEF Becomes
<1>2. \A d \in Readers : Key(call[d].ask)' = Key(call'[d].ask)
  BY KeysStay
<1>3. /\ \A d \in Readers : CanBeAsked(call[d].ask)' <=> CanBeAsked(call'[d].ask)
      /\ \A d \in Readers : ResolveRepo(call[d].ask.repo)' = ResolveRepo(call'[d].ask.repo)
  BY DEF CanBeAsked, ResolveRepo
<1>4. ASSUME NEW d \in Readers, call'[d].pc \in {"waiting", "fetching"}
      PROVE  CanBeAsked(call'[d].ask) /\ \A v \in call'[d].value : Exists(Key(call'[d].ask), v.commit)
  BY <1>1, <1>4 DEF ListInv, IsReader
<1>5. ASSUME NEW d \in Readers, call'[d].pc = "done", call'[d].listing # NoValue
      PROVE  CountsRight(Content(ResolveRepo(call'[d].ask.repo), call'[d].commit), call'[d].ask.filters, call'[d].listing)
  BY <1>1, <1>5 DEF ListInv, InventoryCountsRight
<1>6. InventoryCountsRight'
  BY <1>3, <1>5 DEF InventoryCountsRight
<1>7. \A d \in Readers : IsReader(d)' =>
        CanBeAsked(call[d].ask)' /\ \A v \in call'[d].value : Exists(Key(call[d].ask)', v.commit)
  BY <1>2, <1>3, <1>4 DEF IsReader
<1>. QED BY <1>6, <1>7 DEF ListInv, Exists

(* Nothing is read, and nothing becomes known. *)
LEMMA ListStays ==
  ASSUME ListInv, UNCHANGED <<default_repos, cache, call>>
  PROVE  /\ default_repos' \in DefaultRepos
         /\ (\A e \in cache : Exists(e.key, e.value.commit))'
         /\ (\A c \in Readers : IsReader(c) =>
               CanBeAsked(call[c].ask) /\ \A v \in call[c].value : Exists(Key(call[c].ask), v.commit))'
         /\ InventoryCountsRight'
<1>1. \A question : /\ Key(question)' = Key(question) /\ ResolveRepo(question.repo)' = ResolveRepo(question.repo)
                    /\ CanBeAsked(question)' <=> CanBeAsked(question)
  BY DEF Key, View, ResolveRepo, ResolveRef, CanBeAsked
<1>. QED BY <1>1 DEF ListInv, IsReader, InventoryCountsRight, Exists

(* A call that reads goes on with a value that is there, or with none.     *)
LEMMA ListReadsOn ==
  ASSUME GitInv, ListInv, NEW c \in Readers, NEW s, CanBeAsked(s.ask), s.value = {}, s.pc = "waiting",
         s = [pc |-> s.pc, ask |-> s.ask, began |-> s.began, floor |-> s.floor, asked |-> s.asked, value |-> s.value],
         UNCHANGED <<default_repos, tip, cache>>,
         \/ Becomes(c, s)
         \/ Becomes(c, Fetching(s))
         \/ \E e \in Hits(Key(s.ask)) : Becomes(c, Delivered(s, e.value))
  PROVE  ListInv'
<1>0. DOMAIN call = Readers /\ \A e \in cache' : Exists(e.key, e.value.commit)
  BY DEF GitInv, Dated, ListInv
<1>1. CASE Becomes(c, s)
  BY <1>0, <1>1, ListCallStep
<1>2. CASE Becomes(c, Fetching(s))
  <2>1. PICK t : t = Fetching(s)
    OBVIOUS
  <2>2. t.pc = "failed" \/ (t.pc = "fetching" /\ t.ask = s.ask /\ t.value = {})
    BY <2>1 DEF Fetching, Failed
  <2>. QED BY <1>0, <1>2, <2>1, <2>2, ListCallStep
<1>3. ASSUME NEW e \in Hits(Key(s.ask)), Becomes(c, Delivered(s, e.value)) PROVE ListInv'
  <2>1. PICK t : t = Delivered(s, e.value)
    OBVIOUS
  <2>2. Exists(Key(s.ask), e.value.commit)
    BY DEF Hits, Fresh, ListInv
  <2>3. t.pc \in {"failed", "done"}
    BY <2>1, DeliveredIs
  <2>4. t.pc = "done" /\ t.listing # NoValue =>
          CountsRight(Content(ResolveRepo(t.ask.repo), t.commit), t.ask.filters, t.listing)
    BY <2>1, <2>2, DeliveredCounts
  <2>. QED BY <1>0, <1>3, <2>1, <2>3, <2>4, ListCallStep
<1>. QED BY <1>1, <1>2, <1>3

(* Every step keeps it. *)
LEMMA ListStep == ASSUME GitInv, ListInv, [GitNext]_gitVars PROVE ListInv'
<1>0. DOMAIN call = Readers
  BY DEF GitInv, Dated
<1>1. ASSUME NEW c \in Readers, NEW question \in Questions, Read(c, question) PROVE ListInv'
  <2>. DEFINE s == Started(question)
  <2>1. /\ s = [pc |-> s.pc, ask |-> s.ask, began |-> s.began, floor |-> s.floor, asked |-> s.asked, value |-> s.value]
        /\ s.ask = question /\ s.value = {} /\ s.pc = "waiting"
    BY DEF Started
  <2>. HIDE DEF s
  <2>2. UNCHANGED <<default_repos, tip, cache>> /\ question.tool # "search_knowledge_base"
    BY <1>1 DEF Read
  <2>3. CASE ResolveRepo(question.repo) = NoValue
    <3>1. Becomes(c, Failed("validation_error"))
      BY <1>1, <2>3 DEF Read
    <3>2. Failed("validation_error").pc = "failed"
      BY DEF Failed
    <3>3. \A e \in cache' : Exists(e.key, e.value.commit)
      BY <2>2 DEF ListInv
    <3>. QED BY <1>0, <2>2, <3>1, <3>2, <3>3, ListCallStep
  <2>4. CASE ResolveRepo(question.repo) # NoValue
    <3>1. CanBeAsked(s.ask)
      BY <2>1, <2>2, <2>4 DEF CanBeAsked
    <3>2. \/ Becomes(c, s)
          \/ Becomes(c, Fetching(s))
          \/ \E e \in Hits(Key(s.ask)) : Becomes(c, Delivered(s, e.value))
      BY <1>1, <2>1, <2>4 DEF Read, s
    <3>. QED BY <2>1, <2>2, <3>1, <3>2, ListReadsOn
  <2>. QED BY <2>3, <2>4
<1>2. ASSUME NEW c \in Readers, Resume(c) PROVE ListInv'
  <2>1. PICK s : s = call[c]
    OBVIOUS
  <2>2. /\ s = [pc |-> s.pc, ask |-> s.ask, began |-> s.began, floor |-> s.floor, asked |-> s.asked, value |-> s.value]
        /\ s.value = {} /\ s.pc = "waiting"
    BY <1>2, <2>1 DEF Resume, GitInv, Dated, IsReader, IsReading
  <2>3. CanBeAsked(s.ask)
    BY <1>2, <2>1 DEF Resume, ListInv, IsReader
  <2>4. UNCHANGED <<default_repos, tip, cache>>
    BY <1>2 DEF Resume
  <2>5. \/ Becomes(c, Fetching(s))
        \/ \E e \in Hits(Key(s.ask)) : Becomes(c, Delivered(s, e.value))
    BY <1>2, <2>1 DEF Resume
  <2>. QED BY <2>2, <2>3, <2>4, <2>5, ListReadsOn
<1>3. ASSUME NEW c \in Readers, GitReads(c) PROVE ListInv'
  <2>1. PICK s : s = call[c]
    OBVIOUS
  <2>2. s = [pc |-> "fetching", ask |-> s.ask, began |-> s.began, floor |-> s.floor, asked |-> s.asked, value |-> s.value]
    BY <1>3, <2>1 DEF GitReads, GitInv, Dated, IsReader, IsReading
  <2>3. CanBeAsked(s.ask)
    BY <1>3, <2>1 DEF GitReads, ListInv, IsReader
  <2>4. PICK v : v = [commit |-> Served(Key(s.ask)), read |-> now]
    OBVIOUS
  <2>5. Exists(Key(s.ask), v.commit)
    BY <2>3, <2>4, ServedExists
  <2>6. PICK t : t = [s EXCEPT !.value = {v}]
    OBVIOUS
  <2>7. t.pc = "fetching" /\ t.ask = s.ask /\ t.value = {v}
    BY <2>2, <2>6
  <2>8. Becomes(c, t) /\ UNCHANGED <<default_repos, tip>> /\ \A e \in cache' : Exists(e.key, e.value.commit)
    BY <1>3, <2>1, <2>4, <2>6 DEF GitReads, ListInv
  <2>. QED BY <1>0, <2>3, <2>5, <2>7, <2>8, ListCallStep
<1>4. ASSUME NEW c \in Readers, Fetched(c) PROVE ListInv'
  <2>1. PICK s : s = call[c]
    OBVIOUS
  <2>2. PICK v \in s.value :
          /\ Becomes(c, Delivered(s, v)) /\ UNCHANGED <<default_repos, tip>>
          /\ cache' = {e \in Fresh : e.key # Key(s.ask)}
                        \cup {[key |-> Key(s.ask), value |-> v, expires |-> now + TTL]}
    BY <1>4, <2>1 DEF Fetched
  <2>3. CanBeAsked(s.ask) /\ Exists(Key(s.ask), v.commit)
    BY <1>4, <2>1, <2>2 DEF Fetched, ListInv, IsReader
  <2>4. \A e \in cache' : Exists(e.key, e.value.commit)
    BY <2>2, <2>3 DEF Fresh, ListInv
  <2>5. PICK t : t = Delivered(s, v)
    OBVIOUS
  <2>6. t.pc \in {"failed", "done"}
    BY <2>5, DeliveredIs
  <2>7. t.pc = "done" /\ t.listing # NoValue =>
          CountsRight(Content(ResolveRepo(t.ask.repo), t.commit), t.ask.filters, t.listing)
    BY <2>3, <2>5, DeliveredCounts
  <2>. QED BY <1>0, <2>2, <2>4, <2>5, <2>6, <2>7, ListCallStep
<1>5. ASSUME NEW c \in Readers,
             \/ FetchFails(c) \/ Cancel(c)
             \/ \E question \in Questions : Search(c, question)
             \/ \E repo \in Repos : RepoAnswers(c, repo) \/ RepoFails(c, repo)
      PROVE  ListInv'
  <2>1. PICK t : Becomes(c, t) /\ t.pc \in {"failed", "searching", "found"}
    BY <1>5, LeavesReading
  <2>2. UNCHANGED <<default_repos, tip, cache>>
    BY <1>5 DEF FetchFails, Cancel, Search, RepoAnswers, RepoFails
  <2>3. \A e \in cache' : Exists(e.key, e.value.commit)
    BY <2>2 DEF ListInv
  <2>. QED BY <1>0, <2>1, <2>2, <2>3, ListCallStep
<1>6. ASSUME NEW repo \in Repos, NEW branch \in DOMAIN Contents[repo], Commit(repo, branch) PROVE ListInv'
  <2>1. UNCHANGED <<default_repos, now, cache, call>>
    BY <1>6 DEF Commit
  <2>2. PICK files : files = Contents[repo][branch]
    OBVIOUS
  <2>3. files \in Seq(ToSet(files)) /\ tip[repo][branch] \in DOMAIN files /\ tip[repo][branch] < Len(files)
    BY <1>6, <2>2, ContentAssumption DEF Commit, ListInv
  <2>4. tip[repo][branch] + 1 \in DOMAIN files
    BY <2>3
  <2>5. /\ tip' = [r \in Repos |-> [b \in DOMAIN Contents[r] |-> tip'[r][b]]]
        /\ \A r \in Repos : \A b \in DOMAIN Contents[r] :
             tip'[r][b] = IF r = repo /\ b = branch THEN tip[repo][branch] + 1 ELSE tip[r][b]
    <3>1. PICK old : old = tip[repo]
      OBVIOUS
    <3>2. PICK new : new = [old EXCEPT ![branch] = old[branch] + 1]
      OBVIOUS
    <3>3. tip' = [tip EXCEPT ![repo] = new]
      BY <1>6, <3>1, <3>2 DEF Commit
    <3>4. old = [b \in DOMAIN Contents[repo] |-> tip[repo][b]] /\ DOMAIN tip = Repos
      BY <3>1 DEF ListInv
    <3>5. new = [b \in DOMAIN Contents[repo] |-> IF b = branch THEN tip[repo][branch] + 1 ELSE tip[repo][b]]
      BY <3>1, <3>2, <3>4
    <3>6. tip' = [r \in Repos |-> IF r = repo THEN new ELSE tip[r]]
      BY <3>3, <3>4
    <3>7. tip = [r \in Repos |-> [b \in DOMAIN Contents[r] |-> tip[r][b]]]
      BY DEF ListInv
    <3>8. \A r \in Repos : DOMAIN tip[r] = DOMAIN Contents[r] /\ tip[r] = [b \in DOMAIN Contents[r] |-> tip[r][b]]
      BY <3>7
    <3>9. \A r \in Repos : \A b \in DOMAIN Contents[r] :
             tip'[r][b] = IF r = repo /\ b = branch THEN tip[repo][branch] + 1 ELSE tip[r][b]
      BY <3>5, <3>6
    <3>10. \A r \in Repos : tip'[r] = [b \in DOMAIN Contents[r] |-> tip'[r][b]]
      BY <3>5, <3>6, <3>8
    <3>. QED BY <3>6, <3>9, <3>10
  <2>6. \A r \in Repos : \A b \in DOMAIN Contents[r] : tip'[r][b] \in DOMAIN Contents[r][b]
    BY <2>2, <2>4, <2>5 DEF ListInv
  <2>. QED BY <2>1, <2>5, <2>6, ListStays DEF ListInv
<1>7. CASE Tick \/ UNCHANGED gitVars
  <2>1. UNCHANGED <<default_repos, tip, cache, call>>
    BY <1>7 DEF Tick, gitVars
  <2>. QED BY <2>1, ListStays DEF ListInv
<1>. QED BY <1>1, <1>2, <1>3, <1>4, <1>5, <1>6, <1>7 DEF GitNext

(* With whatever calls, commits and answers, list_beamline_devices misses  *)
(* no device that the file puts into the group and zone asked for, and     *)
(* without a zone it lists each device once.                               *)
THEOREM InventoriesCountRight == GitSpec => []InventoryCountsRight
<1>1. GitInit => ListInv
  <2>. SUFFICES ASSUME GitInit PROVE ListInv
    OBVIOUS
  <2>1. \A repo \in Repos : \A branch \in DOMAIN Contents[repo] : 1 \in DOMAIN Contents[repo][branch]
    <3>1. \A repo \in Repos : \A branch \in DOMAIN Contents[repo] :
            Contents[repo][branch] \in Seq(ToSet(Contents[repo][branch])) /\ Contents[repo][branch] # <<>>
      BY ContentAssumption
    <3>2. \A S : \A s \in Seq(S) : s # <<>> => 1 \in DOMAIN s
      OBVIOUS
    <3>. QED BY <3>1, <3>2
  <2>2. cache = {} /\ default_repos \in DefaultRepos /\ \A c \in Readers : call[c].pc = "idle"
    BY DEF GitInit, Idle
  <2>3. tip = [repo \in Repos |-> [branch \in DOMAIN Contents[repo] |-> 1]]
    BY DEF GitInit
  <2>4. \A repo \in Repos : \A branch \in DOMAIN Contents[repo] : tip[repo][branch] = 1
    BY <2>3
  <2>5. tip = [repo \in Repos |-> [branch \in DOMAIN Contents[repo] |-> tip[repo][branch]]]
    BY <2>3
  <2>. QED BY <2>1, <2>2, <2>4, <2>5 DEF ListInv, IsReader, InventoryCountsRight
<1>2. GitInv /\ ListInv /\ [GitNext]_gitVars => ListInv'
  BY ListStep
<1>3. ListInv => InventoryCountsRight
  BY DEF ListInv
<1>. QED BY <1>1, <1>2, <1>3, GitInvariance, PTL DEF GitSpec

----
(* The logbook. *)

USE PeopleAssumption, ValueAssumption, EntryAssumption, AskAssumption, SentinelAssumption
    DEF Refusals, Failures

(* What a request that Olog may still serve is: of a tool that writes, and *)
(* an update is of an entry that Olog has, and is that entry with the      *)
(* given arguments over it as long as nobody else wrote it.                *)
RequestFits(c) ==
  /\ ask[c] \in Asks
  /\ request[c] \in [record : Records, base : Nat]
  /\ ask[c].tool \in {"create_logbook_entry", "update_logbook_entry"}
  /\ ask[c].tool = "update_logbook_entry" =>
       /\ Entry(c) \in Ids
       /\ olog[Entry(c)] # NoEntry
       /\ request[c].base <= version[Entry(c)]
       /\ request[c].base = version[Entry(c)] =>
            request[c].record = Updated(olog[Entry(c)], ask[c].changes)

(* How far a call has got. *)
CallFits(c) ==
  /\ pc[c] # "new" => ask[c] \in Asks
  /\ pc[c] # "done" => reply[c] = NoReply /\ c \notin late \cup landed
  /\ pc[c] = "reading" =>
       /\ ask[c].tool # "create_logbook_entry"
       /\ ask[c].tool # "get_alarm_history" => Entry(c) \in Ids
  /\ c \in late => c \notin landed
  /\ pc[c] = "writing" \/ c \in late => RequestFits(c)

IInv == TypeOK /\ (\A c \in Calls : CallFits(c)) /\ RepliesAreTrue

----
(* An entry with arguments over it is a record again. *)
LEMMA UpdatedIsRecord ==
  ASSUME NEW r \in Records, NEW a \in Asks
  PROVE  Updated(r, a.changes) \in Records
<1> DEFINE D == DOMAIN r \cup (DOMAIN a.changes \ {"text"})
<1>1. PICK F \in SUBSET Fields : Required \subseteq F /\ r \in [F -> Values]
  BY DEF Records
<1>2. PICK G \in SUBSET Arguments : a.changes \in [G -> Values]
  OBVIOUS
<1>3. D \in SUBSET Fields /\ Required \subseteq D
  BY <1>1, <1>2 DEF Fields, Required, Arguments
<1>4. ASSUME NEW f \in D
      PROVE  (IF f \in DOMAIN a.changes \ {"text"} THEN a.changes[f]
              ELSE IF f \in {"description", "source"} /\ "text" \in DOMAIN a.changes
                   THEN a.changes["text"] ELSE r[f]) \in Values
  BY <1>1, <1>2
<1>5. Updated(r, a.changes) \in [D -> Values]
  BY <1>4 DEF Updated
<1> QED
  BY <1>3, <1>5 DEF Records

(* So is what a valid call creates. *)
LEMMA CreatedIsRecord ==
  ASSUME NEW a \in Asks, a.tool = "create_logbook_entry", Valid(a)
  PROVE  Created(a.changes) \in Records
<1>1. PICK G \in SUBSET Arguments : a.changes \in [G -> Values]
  OBVIOUS
<1>2. {"title", "text", "logbooks"} \subseteq G
  BY <1>1 DEF Valid
<1>3. ASSUME NEW f \in Required
      PROVE  (IF f = "description" THEN a.changes["text"]
              ELSE IF f = "tags" /\ "tags" \notin DOMAIN a.changes THEN NoTags ELSE a.changes[f]) \in Values
  BY <1>1, <1>2 DEF Required
<1>4. Created(a.changes) \in [Required -> Values]
  BY <1>3 DEF Created
<1> QED
  BY <1>4 DEF Records, Fields

(* A record with its description for a source is a record. *)
LEMMA SourcedIsRecord ==
  ASSUME NEW r \in Records
  PROVE  [f \in DOMAIN r \cup {"source"} |-> IF f \in DOMAIN r THEN r[f] ELSE r["description"]] \in Records
<1>1. PICK F \in SUBSET Fields : Required \subseteq F /\ r \in [F -> Values]
  BY DEF Records
<1>2. F \cup {"source"} \in {G \in SUBSET Fields : Required \subseteq G}
  BY <1>1 DEF Fields
<1>3. "description" \in F
  BY <1>1 DEF Required
<1>4. ASSUME NEW f \in F \cup {"source"}
      PROVE  (IF f \in F THEN r[f] ELSE r["description"]) \in Values
  BY <1>1, <1>3
<1> DEFINE G == F \cup {"source"}
           s == [f \in G |-> IF f \in F THEN r[f] ELSE r["description"]]
<1>5. s \in [G -> Values]
  BY <1>4
<1>6. s = [f \in DOMAIN r \cup {"source"} |-> IF f \in DOMAIN r THEN r[f] ELSE r["description"]]
  BY <1>1
<1> HIDE DEF s, G
<1>7. s \in Records
  BY <1>2, <1>5 DEF Records, G
<1> QED
  BY <1>6, <1>7

(* Olog stores a record under one number: the one the call named or a new  *)
(* one; a record with the logbooks that were sent, and for an update the   *)
(* record that was sent.                                                   *)
LEMMA CarriedOut ==
  ASSUME TypeOK, NEW c \in Calls, RequestFits(c), NEW i \in Ids, CarriesOut(c, i)
  PROVE  \E r \in Records :
           /\ olog' = [olog EXCEPT ![i] = r]
           /\ r["logbooks"] = request[c].record["logbooks"]
           /\ ask[c].tool = "update_logbook_entry" => r = request[c].record /\ i = Entry(c)
           /\ ask[c].tool = "create_logbook_entry" => olog[i] = NoEntry
<1> DEFINE sent == request[c].record
           sourced == [f \in DOMAIN sent \cup {"source"} |->
                         IF f \in DOMAIN sent THEN sent[f] ELSE sent["description"]]
<1>1. sent \in Records
  BY DEF RequestFits
<1>2. sourced \in Records
  BY <1>1, SourcedIsRecord
<1>3. "logbooks" \in DOMAIN sent
  BY <1>1 DEF Records, Required
<1>4. sourced["logbooks"] = sent["logbooks"]
  BY <1>3
<1>5. PICK r \in {sent, sourced} :
        /\ ask[c].tool = "update_logbook_entry" => r = sent
        /\ olog' = [olog EXCEPT ![i] = r]
  BY DEF CarriesOut
<1>6. /\ ask[c].tool = "update_logbook_entry" => i = Entry(c)
      /\ ask[c].tool = "create_logbook_entry" => olog[i] = NoEntry
  BY DEF CarriesOut, Target
<1> HIDE DEF sent, sourced
<1>7. r \in Records /\ r["logbooks"] = sent["logbooks"]
  BY <1>1, <1>2, <1>4, <1>5
<1> QED
  BY <1>5, <1>6, <1>7 DEF sent

(* A request stays fit when somebody writes an entry: either it is another *)
(* entry, or the version is no longer the one the request was read at.     *)
LEMMA WritingKeepsFit ==
  ASSUME TypeOK, NEW i \in Ids, NEW r \in Records,
         olog' = [olog EXCEPT ![i] = r], version' = [version EXCEPT ![i] = @ + 1],
         UNCHANGED <<ask, request>>, NEW d \in Calls, RequestFits(d)
  PROVE  RequestFits(d)'
<1> USE DEF TypeOK
<1>1. CASE ask[d].tool # "update_logbook_entry"
  BY <1>1 DEF RequestFits
<1>2. CASE ask[d].tool = "update_logbook_entry"
  <2> DEFINE n == Entry(d)
  <2>1. n \in Ids /\ n = Entry(d)' /\ olog[n] # NoEntry /\ request[d].base \in Nat
    BY <1>2 DEF RequestFits, Entry
  <2>2. CASE n # i
    <3>1. olog'[n] = olog[n] /\ version'[n] = version[n]
      BY <2>1, <2>2
    <3> QED
      BY <1>2, <2>1, <3>1 DEF RequestFits, Entry
  <2>3. CASE n = i
    <3>1. olog'[n] = r /\ version'[n] = version[n] + 1 /\ version[n] \in Nat
      BY <2>1, <2>3
    <3>2. request[d].base <= version[n]
      BY <1>2 DEF RequestFits
    <3>3. request[d].base < version'[n] /\ request[d].base # version'[n]
      BY <2>1, <3>1, <3>2
    <3>4. olog'[n] # NoEntry
      BY <3>1
    <3> HIDE DEF n
    <3> QED
      BY <1>2, <2>1, <3>3, <3>4 DEF RequestFits, n
  <2> QED
    BY <2>2, <2>3
<1> QED
  BY <1>1, <1>2

----
(* The three parts of what preserves a call's fitness: the calls that a    *)
(* step leaves alone need their request fit, and nothing else of the       *)
(* state.                                                                  *)
LEMMA OtherCallFits ==
  ASSUME NEW d \in Calls, CallFits(d), RequestFits(d) => RequestFits(d)',
         pc'[d] = pc[d], ask'[d] = ask[d], reply'[d] = reply[d],
         d \in late' => d \in late, d \in landed' => d \in landed
  PROVE  CallFits(d)'
BY DEF CallFits, Entry

(* A step that writes nothing in Olog keeps every other request fit.       *)
LEMMA RequestStaysFit ==
  ASSUME NEW d \in Calls, RequestFits(d), UNCHANGED <<olog, version>>,
         ask'[d] = ask[d], request'[d] = request[d]
  PROVE  RequestFits(d)'
BY DEF RequestFits, Entry

(* Init *)
LEMMA Initially == Init => IInv
<1> SUFFICES ASSUME Init PROVE IInv
  OBVIOUS
<1>1. TypeOK
  BY DEF Init, TypeOK, Places
<1>2. \A c \in Calls : CallFits(c)
  BY DEF Init, CallFits
<1>3. RepliesAreTrue
  BY DEF Init, RepliesAreTrue
<1> QED
  BY <1>1, <1>2, <1>3 DEF IInv

(* A call ends without Olog having done anything for it: with a failure or *)
(* a refusal, or a read with success.                                      *)
LEMMA EndingKeeps ==
  ASSUME IInv, NEW c \in Calls, NEW code \in Refusals \cup Failures \cup {"success"},
         pc[c] # "done", Ends(c, code), ask' \in [Calls -> Asks \cup {NoAsk}], ask'[c] \in Asks,
         \A d \in Calls \ {c} : ask'[d] = ask[d],
         code = "success" => ask'[c].tool \in ReadTools,
         UNCHANGED <<configured, olog, version, edits, request, late, landed>>
  PROVE  IInv'
<1> USE DEF IInv
<1>1. TypeOK'
  BY DEF TypeOK, Ends, Places
<1>2. CallFits(c)'
  BY DEF CallFits, Ends, TypeOK
<1>3. ASSUME NEW d \in Calls \ {c} PROVE CallFits(d)'
  <2>1. pc'[d] = pc[d] /\ reply'[d] = reply[d] /\ ask'[d] = ask[d]
    BY DEF Ends, TypeOK
  <2> QED
    BY <2>1, OtherCallFits, RequestStaysFit
<1>4. RepliesAreTrue'
  <2>1. c \notin late \cup landed
    BY DEF CallFits
  <2>2. \A d \in Calls : reply'[d] = IF d = c THEN code ELSE reply[d]
    BY DEF Ends, TypeOK
  <2> QED
    BY <2>1, <2>2 DEF RepliesAreTrue
<1> QED
  BY <1>1, <1>2, <1>3, <1>4

(* A call goes on to its next request. *)
LEMMA GoingOnKeeps ==
  ASSUME IInv, NEW c \in Calls, NEW place \in {"reading", "writing", "naming"},
         pc[c] # "done", Goes(c, place), ask' \in [Calls -> Asks \cup {NoAsk}], ask'[c] \in Asks,
         \A d \in Calls \ {c} : ask'[d] = ask[d] /\ request'[d] = request[d],
         request' \in [Calls -> [record : Records, base : Nat] \cup {NoRequest}],
         place = "reading" =>
           /\ ask'[c].tool # "create_logbook_entry"
           /\ ask'[c].tool # "get_alarm_history" => OlogEntryId(ask'[c].name) \in Ids,
         place = "writing" => RequestFits(c)',
         UNCHANGED <<configured, olog, version, edits, late, landed>>
  PROVE  IInv'
<1> USE DEF IInv
<1>1. TypeOK'
  BY DEF TypeOK, Goes, Places
<1>2. pc'[c] = place /\ reply' = reply /\ c \notin late \cup landed /\ reply[c] = NoReply
  BY DEF CallFits, Goes, TypeOK
<1>3. CallFits(c)'
  BY <1>2 DEF CallFits, Entry
<1>4. ASSUME NEW d \in Calls \ {c} PROVE CallFits(d)'
  <2>1. pc'[d] = pc[d] /\ reply'[d] = reply[d] /\ ask'[d] = ask[d]
    BY DEF Goes, TypeOK
  <2> QED
    BY <2>1, OtherCallFits, RequestStaysFit
<1>5. RepliesAreTrue'
  <2>1. \A d \in Calls \ {c} : ask'[d] = ask[d]
    OBVIOUS
  <2> QED
    BY <1>2, <2>1 DEF RepliesAreTrue
<1> QED
  BY <1>1, <1>3, <1>4, <1>5

(* Every step keeps the invariant. *)
LEMMA BeginKeeps ==
  ASSUME IInv, NEW c \in Calls, Begin(c)
  PROVE  IInv'
<1>1. PICK a \in Asks :
        /\ ask' = [ask EXCEPT ![c] = a]
        /\ \/ Rejected(c, a) /\ UNCHANGED request
           \/ /\ Valid(a) /\ HasOlog /\ ~ NamesNoEntry(a)
              /\ IF a.tool = "create_logbook_entry"
                 THEN Sends(c, Created(a.changes), 0)
                 ELSE Goes(c, "reading") /\ UNCHANGED request
  BY DEF Begin
<1>2. pc[c] = "new" /\ UNCHANGED <<configured, olog, version, edits, late, landed>>
  BY DEF Begin
<1>3. /\ ask' \in [Calls -> Asks \cup {NoAsk}] /\ ask'[c] = a
      /\ \A d \in Calls \ {c} : ask'[d] = ask[d]
  BY <1>1 DEF IInv, TypeOK
<1>4. CASE Rejected(c, a) /\ UNCHANGED request
  <2>1. PICK code \in Refusals : Ends(c, code) /\ code # "success"
    BY <1>4 DEF Rejected
  <2> QED
    BY <1>2, <1>3, <1>4, <2>1, EndingKeeps
<1>5. CASE Valid(a) /\ a.tool = "create_logbook_entry" /\ Sends(c, Created(a.changes), 0)
  <2>1. Created(a.changes) \in Records
    BY <1>5, CreatedIsRecord
  <2>2. /\ request'[c] = [record |-> Created(a.changes), base |-> 0]
        /\ request' \in [Calls -> [record : Records, base : Nat] \cup {NoRequest}]
        /\ \A d \in Calls \ {c} : request'[d] = request[d]
    BY <1>5, <2>1 DEF Sends, IInv, TypeOK
  <2>3. RequestFits(c)'
    BY <1>3, <1>5, <2>1, <2>2 DEF RequestFits
  <2>4. Goes(c, "writing")
    BY <1>5 DEF Sends
  <2> QED
    BY <1>2, <1>3, <2>2, <2>3, <2>4, GoingOnKeeps
<1>6. CASE ~ NamesNoEntry(a) /\ a.tool # "create_logbook_entry" /\ Goes(c, "reading") /\ UNCHANGED request
  <2>1. a.tool # "get_alarm_history" => OlogEntryId(a.name) \in Ids
    <3>1. a.tool \in Tools /\ a.name.number \in Ids
      BY DEF Names
    <3> QED
      BY <1>6, <3>1 DEF NamesNoEntry, OlogEntryId, Tools, ReadTools
  <2>2. request' \in [Calls -> [record : Records, base : Nat] \cup {NoRequest}]
    BY <1>6 DEF IInv, TypeOK
  <2> QED
    BY <1>2, <1>3, <1>6, <2>1, <2>2, GoingOnKeeps
<1> QED
  BY <1>1, <1>4, <1>5, <1>6

(* An update that has read its entry sends a record that fits. *)
LEMMA SendingBackKeeps ==
  ASSUME IInv, NEW c \in Calls, SendsBack(c)
  PROVE  IInv'
<1> DEFINE i == Entry(c)
           record == Updated(olog[i], ask[c].changes)
<1>1. /\ pc[c] = "reading" /\ ask[c].tool = "update_logbook_entry" /\ olog[i] # NoEntry
      /\ Sends(c, record, version[i])
      /\ UNCHANGED <<configured, olog, version, edits, ask, late, landed>>
  BY DEF SendsBack, Found
<1>2. ask[c] \in Asks /\ i \in Ids
  BY <1>1 DEF IInv, CallFits
<1>3. olog[i] \in Records /\ version[i] \in Nat
  BY <1>1, <1>2 DEF IInv, TypeOK
<1>4. record \in Records
  BY <1>2, <1>3, UpdatedIsRecord
<1>5. /\ ask' \in [Calls -> Asks \cup {NoAsk}] /\ ask'[c] = ask[c]
      /\ \A d \in Calls \ {c} : ask'[d] = ask[d]
  BY <1>1 DEF IInv, TypeOK
<1> HIDE DEF record
<1>6. /\ request'[c] = [record |-> record, base |-> version[i]]
      /\ request' \in [Calls -> [record : Records, base : Nat] \cup {NoRequest}]
      /\ \A d \in Calls \ {c} : request'[d] = request[d]
  BY <1>1, <1>3, <1>4 DEF Sends, IInv, TypeOK
<1>7. RequestFits(c)'
  <2>1. Entry(c)' = i /\ olog' = olog /\ version' = version
    BY <1>1, <1>5 DEF Entry
  <2>2. request'[c].record = record /\ request'[c].base = version[i]
    BY <1>6
  <2>3. version[i] <= version[i]
    BY <1>3
  <2>4. request'[c] \in [record : Records, base : Nat]
    BY <1>3, <1>4, <1>6
  <2>5. record = Updated(olog'[i], ask'[c].changes)
    BY <1>5, <2>1 DEF record
  <2> HIDE DEF i
  <2> QED
    BY <1>1, <1>2, <1>5, <2>1, <2>2, <2>3, <2>4, <2>5 DEF RequestFits
<1>8. Goes(c, "writing")
  BY <1>1 DEF Sends
<1> QED
  BY <1>1, <1>2, <1>5, <1>6, <1>7, <1>8, GoingOnKeeps

(* Olog carries out a request: the call that sent it is not told that it   *)
(* was refused.                                                            *)
LEMMA CarryingOutKeeps ==
  ASSUME IInv, NEW c \in Calls, RequestFits(c), c \notin landed,
         NEW i \in Ids, CarriesOut(c, i),
         reply' \in [Calls -> Refusals \cup Failures \cup {"success", NoReply}],
         pc' \in [Calls -> Places],
         reply'[c] \notin Refusals, pc'[c] = "done",
         c \notin late', late' \subseteq late,
         \A d \in Calls \ {c} : pc'[d] = pc[d] /\ reply'[d] = reply[d],
         UNCHANGED <<configured, ask, request, edits>>
  PROVE  IInv'
<1> USE DEF IInv
<1>1. PICK r \in Records : olog' = [olog EXCEPT ![i] = r]
  BY CarriedOut
<1>2. version' = [version EXCEPT ![i] = @ + 1] /\ landed' = landed \cup {c}
  BY DEF CarriesOut
<1>3. TypeOK'
  BY <1>1, <1>2 DEF TypeOK
<1>4. ASSUME NEW d \in Calls \ {c} PROVE CallFits(d)'
  <2>1. RequestFits(d) => RequestFits(d)'
    BY <1>1, <1>2, WritingKeepsFit
  <2>2. ask'[d] = ask[d] /\ (d \in landed' => d \in landed) /\ (d \in late' => d \in late)
    BY <1>2
  <2> QED
    BY <2>1, <2>2, OtherCallFits
<1>5. CallFits(c)'
  BY DEF CallFits, RequestFits
<1>6. RepliesAreTrue'
  <2>1. \A d \in Calls : reply'[d] \in Refusals => d \notin landed' \cup late'
    BY <1>2 DEF RepliesAreTrue
  <2>2. \A d \in Calls : reply'[d] = "success" => (ask'[d].tool \in ReadTools \/ d \in landed')
    BY <1>2 DEF RepliesAreTrue
  <2> QED
    BY <2>1, <2>2 DEF RepliesAreTrue
<1> QED
  BY <1>3, <1>4, <1>5, <1>6

(* The steps of a call that touch nothing in Olog. *)
LEMMA CallStepKeeps ==
  ASSUME IInv, NEW c \in Calls,
         Reads(c) \/ IsMissing(c) \/ ReadFails(c) \/ IsRefused(c) \/ GetsNames(c)
  PROVE  IInv'
<1>1. /\ UNCHANGED <<configured, olog, version, edits, ask, request, late, landed>>
      /\ pc[c] \in {"reading", "writing", "naming"}
  BY DEF Reads, IsMissing, ReadFails, IsRefused, GetsNames
<1>2. /\ ask[c] \in Asks /\ ask' \in [Calls -> Asks \cup {NoAsk}]
      /\ request' \in [Calls -> [record : Records, base : Nat] \cup {NoRequest}]
  BY <1>1 DEF IInv, TypeOK, CallFits
<1>3. CASE Goes(c, "naming")
  BY <1>1, <1>2, <1>3, GoingOnKeeps
<1>4. CASE ask[c].tool \in ReadTools /\ Ends(c, "success")
  BY <1>1, <1>2, <1>4, EndingKeeps
<1>5. ASSUME NEW code \in Refusals \cup Failures, Ends(c, code) PROVE IInv'
  <2>1. code # "success"
    OBVIOUS
  <2> QED
    BY <1>1, <1>2, <1>5, <2>1, EndingKeeps
<1> QED
  BY <1>3, <1>4, <1>5 DEF Reads, IsMissing, ReadFails, IsRefused, GetsNames

(* Olog carries out what a call waits for. *)
LEMMA WritesKeeps ==
  ASSUME IInv, NEW c \in Calls, Writes(c)
  PROVE  IInv'
<1>1. PICK i \in Ids : CarriesOut(c, i)
  BY DEF Writes
<1>2. PICK code \in Saved : Ends(c, code)
  BY DEF Writes
<1>3. RequestFits(c) /\ c \notin late \cup landed
  BY DEF IInv, CallFits, Writes
<1>4. code \in Failures \cup {"success"} /\ code \notin Refusals
  BY DEF Saved
<1>5. /\ reply' \in [Calls -> Refusals \cup Failures \cup {"success", NoReply}]
      /\ pc' \in [Calls -> Places]
      /\ reply'[c] = code /\ pc'[c] = "done"
      /\ \A d \in Calls \ {c} : pc'[d] = pc[d] /\ reply'[d] = reply[d]
  BY <1>2, <1>4 DEF Ends, IInv, TypeOK, Places
<1>6. UNCHANGED <<configured, ask, request, edits, late>>
  BY DEF Writes
<1> QED
  BY <1>1, <1>3, <1>4, <1>5, <1>6, CarryingOutKeeps

(* A request that was given up arrives after all, or Olog drops it. *)
LEMMA ArrivingLateKeeps ==
  ASSUME IInv, NEW c \in Calls, ArrivesLate(c)
  PROVE  IInv'
<1>1. /\ c \in late /\ late' = late \ {c}
      /\ UNCHANGED <<configured, edits, pc, ask, request, reply>>
  BY DEF ArrivesLate
<1>2. RequestFits(c) /\ c \notin landed /\ pc[c] = "done" /\ reply[c] \notin Refusals
  BY <1>1 DEF IInv, CallFits, RepliesAreTrue
<1>3. ASSUME NEW i \in Ids, CarriesOut(c, i) PROVE IInv'
  <2>1. /\ reply' \in [Calls -> Refusals \cup Failures \cup {"success", NoReply}]
        /\ pc' \in [Calls -> Places]
    BY <1>1 DEF IInv, TypeOK
  <2> QED
    BY <1>1, <1>2, <1>3, <2>1, CarryingOutKeeps
<1>4. CASE UNCHANGED <<olog, version, landed>>
  <2>1. TypeOK'
    BY <1>1, <1>4 DEF IInv, TypeOK
  <2>2. ASSUME NEW d \in Calls PROVE CallFits(d)'
    <3>1. RequestFits(d) => RequestFits(d)'
      BY <1>1, <1>4, RequestStaysFit
    <3> QED
      BY <1>1, <1>4, <3>1, OtherCallFits DEF IInv
  <2>3. RepliesAreTrue'
    BY <1>1, <1>4 DEF IInv, RepliesAreTrue
  <2> QED
    BY <2>1, <2>2, <2>3 DEF IInv
<1> QED
  BY <1>3, <1>4 DEF ArrivesLate

(* A call gives its request up: the user is told of a failure. *)
LEMMA GivingUpKeeps ==
  ASSUME IInv, NEW c \in Calls, GivesUp(c)
  PROVE  IInv'
<1> USE DEF IInv
<1>1. /\ pc[c] = "writing" /\ late' \subseteq late \cup {c}
      /\ UNCHANGED <<configured, olog, version, edits, ask, request, landed>>
  BY DEF GivesUp
<1>2. PICK code \in Failures : Ends(c, code)
  BY DEF GivesUp
<1>3. RequestFits(c) /\ c \notin landed /\ c \notin late
  BY <1>1 DEF CallFits
<1>4. TypeOK'
  BY <1>1, <1>2 DEF TypeOK, Ends, Places
<1>5. \A d \in Calls : /\ pc'[d] = IF d = c THEN "done" ELSE pc[d]
                       /\ reply'[d] = IF d = c THEN code ELSE reply[d]
  BY <1>2 DEF TypeOK, Ends
<1>6. ASSUME NEW d \in Calls PROVE CallFits(d)'
  <2>1. RequestFits(d) => RequestFits(d)'
    BY <1>1, RequestStaysFit
  <2>2. CASE d # c
    <3>1. pc'[d] = pc[d] /\ reply'[d] = reply[d] /\ (d \in late' => d \in late)
      BY <1>1, <1>5, <2>2
    <3> QED
      BY <1>1, <2>1, <3>1, OtherCallFits
  <2>3. CASE d = c
    <3>1. RequestFits(c)' /\ pc'[c] = "done" /\ c \notin landed'
      BY <1>1, <1>3, <1>5, <2>1, <2>3
    <3>2. ask'[c] \in Asks
      BY <3>1 DEF RequestFits
    <3> QED
      BY <2>3, <3>1, <3>2 DEF CallFits
  <2> QED
    BY <2>2, <2>3
<1>7. RepliesAreTrue'
  <2>1. code \notin Refusals /\ code # "success"
    BY <1>2
  <2> QED
    BY <1>1, <1>5, <2>1 DEF RepliesAreTrue
<1> QED
  BY <1>4, <1>6, <1>7

(* Others write an entry: it is no longer the one that was read. *)
LEMMA OthersEditKeeps ==
  ASSUME IInv, NEW i \in Ids, OthersEdit(i)
  PROVE  IInv'
<1> USE DEF IInv
<1>1. PICK r \in Records : olog' = [olog EXCEPT ![i] = r]
  BY DEF OthersEdit
<1>2. /\ version' = [version EXCEPT ![i] = @ + 1] /\ edits < MaxEdits /\ edits' = edits + 1
      /\ UNCHANGED <<configured, pc, ask, request, reply, late, landed>>
  BY DEF OthersEdit
<1>3. TypeOK'
  BY <1>1, <1>2 DEF TypeOK
<1>4. ASSUME NEW d \in Calls PROVE CallFits(d)'
  <2>1. RequestFits(d) => RequestFits(d)'
    BY <1>1, <1>2, WritingKeepsFit
  <2> QED
    BY <1>2, <2>1, OtherCallFits
<1>5. RepliesAreTrue'
  BY <1>2 DEF RepliesAreTrue
<1> QED
  BY <1>3, <1>4, <1>5

(* A step that changes nothing. *)
LEMMA StutteringKeeps == IInv /\ UNCHANGED vars => IInv'
<1> SUFFICES ASSUME IInv, UNCHANGED vars PROVE IInv'
  OBVIOUS
<1>1. TypeOK'
  BY DEF IInv, TypeOK, vars
<1>2. ASSUME NEW d \in Calls PROVE CallFits(d)'
  <2>1. RequestFits(d) => RequestFits(d)'
    BY RequestStaysFit DEF vars
  <2> QED
    BY <2>1, OtherCallFits DEF vars, IInv
<1>3. RepliesAreTrue'
  BY DEF IInv, RepliesAreTrue, vars
<1> QED
  BY <1>1, <1>2, <1>3 DEF IInv

(* The inductive invariant. *)
LEMMA Inductive == IInv /\ [Next]_vars => IInv'
<1> SUFFICES ASSUME IInv, [Next]_vars PROVE IInv'
  OBVIOUS
<1>1. ASSUME NEW c \in Calls, Begin(c) PROVE IInv'
  BY <1>1, BeginKeeps
<1>2. ASSUME NEW c \in Calls, SendsBack(c) PROVE IInv'
  BY <1>2, SendingBackKeeps
<1>3. ASSUME NEW c \in Calls,
             Reads(c) \/ IsMissing(c) \/ ReadFails(c) \/ IsRefused(c) \/ GetsNames(c)
      PROVE  IInv'
  BY <1>3, CallStepKeeps
<1>4. ASSUME NEW c \in Calls, Writes(c) PROVE IInv'
  BY <1>4, WritesKeeps
<1>5. ASSUME NEW c \in Calls, ArrivesLate(c) PROVE IInv'
  BY <1>5, ArrivingLateKeeps
<1>6. ASSUME NEW c \in Calls, GivesUp(c) PROVE IInv'
  BY <1>6, GivingUpKeeps
<1>7. ASSUME NEW i \in Ids, OthersEdit(i) PROVE IInv'
  BY <1>7, OthersEditKeeps
<1>8. CASE UNCHANGED vars
  BY <1>8, StutteringKeeps
<1> QED
  BY <1>1, <1>2, <1>3, <1>4, <1>5, <1>6, <1>7, <1>8 DEF Next

LEMMA AlwaysIInv == Spec => []IInv
BY Initially, Inductive, PTL DEF Spec

(* The variables have their types: what is sent is always a whole record.  *)
THEOREM TypeCorrect == Spec => []TypeOK
BY AlwaysIInv, PTL DEF IInv

(* What the user is told of a call is what Olog did: a refusal means that  *)
(* nothing was written, nor ever will be.                                  *)
THEOREM RepliesTrue == Spec => []RepliesAreTrue
BY AlwaysIInv, PTL DEF IInv

----
(* A request lands only in a step in which Olog carries it out. *)
LEMMA LandingIsCarryingOut ==
  ASSUME IInv, [Next]_vars, NEW c \in Calls, Lands(c)
  PROVE  RequestFits(c) /\ UNCHANGED <<ask, request>> /\ \E i \in Ids : CarriesOut(c, i)
<1>1. landed' # landed
  BY DEF Lands
<1>2. PICK d \in Calls : Writes(d) \/ ArrivesLate(d)
  BY <1>1 DEF Next, vars, Begin, Reads, IsMissing, SendsBack, ReadFails, IsRefused, GetsNames, GivesUp, OthersEdit
<1>3. PICK i \in Ids : CarriesOut(d, i)
  BY <1>1, <1>2 DEF Writes, ArrivesLate
<1>4. c = d
  BY <1>3 DEF CarriesOut, Lands
<1>5. UNCHANGED <<ask, request>>
  BY <1>2 DEF Writes, ArrivesLate
<1>6. RequestFits(c)
  BY <1>2, <1>4 DEF IInv, CallFits, Writes, ArrivesLate
<1> QED
  BY <1>3, <1>4, <1>5, <1>6

(* A record with arguments over it: the fields that an argument is about   *)
(* hold it, the others are as they were.                                   *)
LEMMA UpdatedHolds ==
  ASSUME NEW r \in Records, NEW a \in Asks, NEW f \in DOMAIN r
  PROVE  /\ \A x \in DOMAIN a.changes : f \in FieldsOf(x) => Updated(r, a.changes)[f] = a.changes[x]
         /\ (\A x \in DOMAIN a.changes : f \notin FieldsOf(x)) => Updated(r, a.changes)[f] = r[f]
<1>1. PICK G \in SUBSET Arguments : a.changes \in [G -> Values]
  OBVIOUS
<1>2. PICK F \in SUBSET Fields : r \in [F -> Values]
  BY DEF Records
<1>3. Updated(r, a.changes)[f] =
        IF f \in G \ {"text"} THEN a.changes[f]
        ELSE IF f \in {"description", "source"} /\ "text" \in G THEN a.changes["text"] ELSE r[f]
  BY <1>1, <1>2 DEF Updated
<1>4. DOMAIN a.changes = G
  BY <1>1
<1>5. \A x \in G : f \in FieldsOf(x) => Updated(r, a.changes)[f] = a.changes[x]
  BY <1>3 DEF FieldsOf, Arguments
<1>6. (\A x \in G : f \notin FieldsOf(x)) => Updated(r, a.changes)[f] = r[f]
  BY <1>3 DEF FieldsOf
<1> QED
  BY <1>4, <1>5, <1>6

(* Its fields are those of the record, which has all that an argument is   *)
(* about but the source.                                                   *)
LEMMA UpdatedDomain ==
  ASSUME NEW r \in Records, NEW a \in Asks
  PROVE  DOMAIN Updated(r, a.changes) = DOMAIN r
<1>1. PICK G \in SUBSET Arguments : a.changes \in [G -> Values]
  OBVIOUS
<1>2. PICK F \in SUBSET Fields : Required \subseteq F /\ r \in [F -> Values]
  BY DEF Records
<1>3. DOMAIN r \cup (DOMAIN a.changes \ {"text"}) = DOMAIN r
  <2>1. DOMAIN r = F /\ DOMAIN a.changes = G
    BY <1>1, <1>2
  <2>2. G \ {"text"} \subseteq F
    BY <1>2 DEF Arguments, Required
  <2>3. F \cup (G \ {"text"}) = F
    BY <2>2
  <2> QED
    BY <2>1, <2>3
<1>4. DOMAIN Updated(r, a.changes) = DOMAIN r \cup (DOMAIN a.changes \ {"text"})
  BY DEF Updated
<1> QED
  BY <1>3, <1>4

(* An update that nobody overlapped changes what was given, and nothing    *)
(* else, even if it lands after the call has given it up.                  *)
THEOREM OnlyGivenChange == Spec => OnlyGivenFieldsChange
<1>1. ASSUME IInv, [Next]_vars, NEW c \in Calls, Lands(c), ask[c].tool = "update_logbook_entry",
             version[Entry(c)] = request[c].base
      PROVE  LET i == Entry(c)
                 given == ask[c].changes
             IN  /\ DOMAIN olog'[i] = DOMAIN olog[i]
                 /\ \A f \in DOMAIN olog[i] :
                      /\ \A a \in DOMAIN given : f \in FieldsOf(a) => olog'[i][f] = given[a]
                      /\ (\A a \in DOMAIN given : f \notin FieldsOf(a)) => olog'[i][f] = olog[i][f]
  <2> DEFINE i == Entry(c)
  <2>1. RequestFits(c) /\ \E j \in Ids : CarriesOut(c, j)
    BY <1>1, LandingIsCarryingOut
  <2>2. PICK r \in Records : /\ olog' = [olog EXCEPT ![i] = r]
                             /\ r = request[c].record
    BY <1>1, <2>1, CarriedOut DEF IInv
  <2>3. i \in Ids /\ olog[i] \in Records /\ ask[c] \in Asks
    BY <1>1, <2>1 DEF RequestFits, IInv, TypeOK
  <2>4. request[c].record = Updated(olog[i], ask[c].changes)
    BY <1>1, <2>1 DEF RequestFits
  <2>5. olog'[i] = Updated(olog[i], ask[c].changes)
    BY <1>1, <2>2, <2>3, <2>4 DEF IInv, TypeOK
  <2> HIDE DEF i
  <2>6. DOMAIN olog'[i] = DOMAIN olog[i]
    BY <2>3, <2>5, UpdatedDomain
  <2>7. ASSUME NEW f \in DOMAIN olog[i]
        PROVE  /\ \A a \in DOMAIN ask[c].changes : f \in FieldsOf(a) => olog'[i][f] = ask[c].changes[a]
               /\ (\A a \in DOMAIN ask[c].changes : f \notin FieldsOf(a)) => olog'[i][f] = olog[i][f]
    BY <2>3, <2>5, UpdatedHolds
  <2> QED
    BY <2>6, <2>7 DEF i
<1>2. IInv /\ [Next]_vars =>
        \A c \in Calls :
          (Lands(c) /\ ask[c].tool = "update_logbook_entry") =>
            LET i == Entry(c)
                given == ask[c].changes
            IN  version[i] = request[c].base =>
                  /\ DOMAIN olog'[i] = DOMAIN olog[i]
                  /\ \A f \in DOMAIN olog[i] :
                       /\ \A a \in DOMAIN given : f \in FieldsOf(a) => olog'[i][f] = given[a]
                       /\ (\A a \in DOMAIN given : f \notin FieldsOf(a)) => olog'[i][f] = olog[i][f]
  BY <1>1
<1> QED
  BY <1>2, AlwaysIInv, PTL DEF Spec, OnlyGivenFieldsChange

(* Entries are written by those who may, and only those that the caller    *)
(* meant, or that have the number of one of another facility.              *)
THEOREM WrittenByRight == Spec => WritersMayWrite
<1>1. ASSUME IInv, [Next]_vars, NEW c \in Calls, NEW i \in Ids, Lands(c), olog'[i] # olog[i]
      PROVE  LET writable == IF ask[c].who = NoToken THEN MayWrite[Account] ELSE MayWrite[ask[c].who] IN
               /\ olog'[i]["logbooks"] \in writable
               /\ \/ olog[i] = NoEntry /\ ask[c].tool = "create_logbook_entry"
                  \/ /\ olog[i] # NoEntry /\ olog[i]["logbooks"] \in writable
                     /\ ask[c].tool = "update_logbook_entry"
                     /\ \/ i \in Meant(ask[c].name)
                        \/ ask[c].name.facility # Here /\ i = ask[c].name.number
  <2> DEFINE writable == IF ask[c].who = NoToken THEN MayWrite[Account] ELSE MayWrite[ask[c].who]
  <2>1. RequestFits(c)
    BY <1>1, LandingIsCarryingOut
  <2>2. PICK j \in Ids : CarriesOut(c, j)
    BY <1>1, LandingIsCarryingOut
  <2>3. PICK r \in Records :
          /\ olog' = [olog EXCEPT ![j] = r]
          /\ r["logbooks"] = request[c].record["logbooks"]
          /\ ask[c].tool = "update_logbook_entry" => j = Entry(c)
          /\ ask[c].tool = "create_logbook_entry" => olog[j] = NoEntry
    BY <1>1, <2>1, <2>2, CarriedOut DEF IInv
  <2>4. i = j /\ olog'[i] = r
    BY <1>1, <2>3 DEF IInv, TypeOK
  <2>5. ask[c].who \in People \cup {NoToken} /\ ask[c] \in Asks
    BY <2>1 DEF RequestFits
  <2>6. MayWrite[Principal(ask[c].who)] = writable
    BY <2>5 DEF Principal
  <2>7. /\ request[c].record["logbooks"] \in writable
        /\ olog[i] # NoEntry => olog[i]["logbooks"] \in writable
    BY <2>2, <2>4, <2>6 DEF CarriesOut, Permits
  <2>8. CASE ask[c].tool = "create_logbook_entry"
    BY <2>3, <2>4, <2>7, <2>8
  <2>9. CASE ask[c].tool = "update_logbook_entry"
    <3>1. i = Entry(c) /\ olog[i] # NoEntry
      BY <2>1, <2>3, <2>4, <2>9 DEF RequestFits
    <3>2. ask[c].name.form # "other" /\ ask[c].name.number = i
      BY <3>1 DEF Entry, OlogEntryId
    <3>3. i \in Meant(ask[c].name) \/ (ask[c].name.facility # Here /\ i = ask[c].name.number)
      BY <3>2 DEF Meant
    <3> QED
      BY <2>3, <2>4, <2>7, <2>9, <3>1, <3>3
  <2> QED
    BY <2>1, <2>8, <2>9 DEF RequestFits
<1>2. IInv /\ [Next]_vars =>
        \A c \in Calls, i \in Ids :
          (Lands(c) /\ olog'[i] # olog[i]) =>
            LET writable == IF ask[c].who = NoToken THEN MayWrite[Account] ELSE MayWrite[ask[c].who] IN
              /\ olog'[i]["logbooks"] \in writable
              /\ \/ olog[i] = NoEntry /\ ask[c].tool = "create_logbook_entry"
                 \/ /\ olog[i] # NoEntry /\ olog[i]["logbooks"] \in writable
                    /\ ask[c].tool = "update_logbook_entry"
                    /\ \/ i \in Meant(ask[c].name)
                       \/ ask[c].name.facility # Here /\ i = ask[c].name.number
  BY <1>1
<1> QED
  BY <1>2, AlwaysIInv, PTL DEF Spec, WritersMayWrite
====
