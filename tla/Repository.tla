---- MODULE Repository ----
(***************************************************************************)
(* What ARGUS reads from git (services/knowledge_service.py,               *)
(* providers/git/, mcp_server/tools/knowledge_tools.py and                 *)
(* beamline_tools.py): the deploy file of a beamline and the devices in    *)
(* it, a file's history, a commit, and the issues of several repositories. *)
(*                                                                         *)
(* Everything but the issues goes through AsyncTTLCache.get_or_set, whose  *)
(* lock is held by the call that fetches; evictions are left to IocCache.  *)
(* A beamline has one file, and the last commits to its branches come one  *)
(* by one while calls are under way.                                       *)
(***************************************************************************)
EXTENDS Integers, DeployYaml, Providers

CONSTANTS
  Readers,       \* bound: tool calls, each made once
  Questions,     \* bound: what they ask
  Repos,
  DefaultRepos,  \* what GIT_DEFAULT_REPOS may be: a set of sequences
  Host,          \* Host[repo]: "github", or another host
  GitLabHost,    \* that of GITLAB_BASE_URL, or NoValue
  HeadRef, Main, \* "HEAD", and a repository's own default branch
  DefaultRef,    \* GIT_DEFAULT_REF
  Contents,      \* bound: Contents[repo][branch]: the file, commit by commit
  Unparsable,    \* a file that is no YAML
  Issues,        \* Issues[repo]: the issues that a search finds there
  TTL,           \* CACHE_KNOWLEDGE_TTL_SECONDS, in clock ticks
  MaxFetch,      \* bound: ticks that a request takes
  MaxTime        \* bound: clock ticks

ASSUME RepositoryAssumption ==
  /\ DefaultRepos \subseteq Seq(Repos)
  /\ \A repo \in Repos : Main \in DOMAIN Contents[repo] /\ DefaultRef \in DOMAIN Contents[repo] \cup {HeadRef}
  /\ NoValue \notin Repos \cup {DefaultRef}
  /\ TTL \in Nat \ {0} /\ MaxFetch \in Nat \ {0} /\ MaxTime \in Nat

ASSUME ContentAssumption ==
  \A repo \in Repos : \A branch \in DOMAIN Contents[repo] :
    LET files == Contents[repo][branch]
    IN  /\ files \in Seq(ToSet(files)) /\ files # <<>>
        /\ \A file \in ToSet(files) \ {Unparsable} : IsFile(file)

(* What is asked for is there; what is not is one of the errors.           *)
ASSUME QuestionAssumption ==
  \A ask \in Questions : ask.tool # "search_knowledge_base" =>
    /\ ask.repo \in Repos \cup {NoValue}
    /\ \A repo \in Repos : ask.repo \in {NoValue, repo} =>
         ask.ref \in DOMAIN Contents[repo] \cup {NoValue, HeadRef}

(* A date is a number; zoned: the dates of an issue tell their time zone.  *)
ASSUME SearchAssumption ==
  /\ IsFiniteSet(Repos)
  /\ \A ask \in Questions : ask.tool = "search_knowledge_base" => ask.repos \subseteq Repos
  /\ \A repo \in Repos :
       /\ IsFiniteSet(Issues[repo])
       /\ \A i \in Issues[repo] : {i.updated, i.created} \subseteq Nat \cup {NoValue} /\ i.zoned \in BOOLEAN
  /\ NoText \notin Nat

VARIABLES
  default_repos,  \* the setting
  now,            \* the clock
  tip,            \* git: the last commit of each branch
  cache,          \* knowledge_cache: a set of entries
  call            \* call[c]: what a tool call is doing

gitVars == <<default_repos, now, tip, cache, call>>

Idle == [pc |-> "idle"]

GitInit ==
  /\ default_repos \in DefaultRepos
  /\ now = 0
  /\ tip = [repo \in Repos |-> [branch \in DOMAIN Contents[repo] |-> 1]]
  /\ cache = {}
  /\ call = [c \in Readers |-> Idle]

----
(* KnowledgeService. *)

(* urlparse(repo).netloc, and the adapter for it. *)
ProviderFor(repo) ==
  IF Host[repo] = "github" THEN "github" ELSE IF Host[repo] = GitLabHost THEN "gitlab" ELSE NoValue

ResolveRepo(repo) ==
  IF repo # NoValue THEN repo ELSE IF default_repos = <<>> THEN NoValue ELSE default_repos[1]

(* git's own HEAD. *)
LiteralRef(ref) == IF ref = NoValue THEN HeadRef ELSE ref

ResolveRef(ref) == IF ref \in {NoValue, HeadRef} THEN DefaultRef ELSE ref

(* get_config_history: a commit before a ref, a ref before the history. *)
View(ask) ==
  IF ask.tool = "list_beamline_devices" THEN "file"
  ELSE IF ask.sha # NoValue THEN "diff" ELSE IF ask.ref # NoValue THEN "file" ELSE "history"

(* The key in the cache: only a file has a ref, and only a commit a sha. *)
Key(ask) ==
  [view |-> View(ask), repo |-> ResolveRepo(ask.repo),
   ref |-> IF View(ask) = "file" THEN ResolveRef(ask.ref) ELSE NoValue,
   sha |-> IF View(ask) = "diff" THEN ask.sha ELSE NoValue]

Fresh == {e \in cache : now < e.expires}

Hits(key) == {e \in Fresh : e.key = key}

(* The requests: GitHub is told no ref for HEAD, GitLab is told HEAD, and  *)
(* neither is told where a history starts.                                 *)
GitHubRequest(key) == IF key.view = "file" /\ key.ref = HeadRef THEN NoValue ELSE key.ref

GitLabRequest(key) == key.ref

Request(key) == IF ProviderFor(key.repo) = "github" THEN GitHubRequest(key) ELSE GitLabRequest(key)

(* What the server gives: a commit of the branch, or the commit asked for. *)
Served(key) ==
  LET ref == Request(key)
      branch == IF ref \in {NoValue, HeadRef} THEN Main ELSE ref
  IN  IF key.view = "diff" THEN key.sha
      ELSE [branch |-> branch, version |-> tip[key.repo][branch]]

----
(* The tool calls. *)

Becomes(c, state) == call' = [call EXCEPT ![c] = state]

Failed(error) == [pc |-> "failed", error |-> error]

Content(repo, commit) == Contents[repo][commit.branch][commit.version]

(* The devices of the file, for list_beamline_devices. *)
Listing(ask, repo, commit) ==
  IF ask.tool # "list_beamline_devices" THEN NoValue
  ELSE ListDevices(Content(repo, commit), ask.filters)

(* A file is delivered as it is, but devices need YAML that the parser can *)
(* take.  read: the time when the server read it.                          *)
Delivered(state, value) ==
  LET repo == ResolveRepo(state.ask.repo)
      file == Content(repo, value.commit)
  IN  IF state.ask.tool = "list_beamline_devices" /\ file = Unparsable
      THEN Failed("beamline_inventory_error")
      ELSE IF state.ask.tool = "list_beamline_devices" /\ Breaks(file)
      THEN Failed("internal_error")
      ELSE [pc |-> "done", ask |-> state.ask, began |-> state.began, floor |-> state.floor,
            commit |-> value.commit, read |-> value.read,
            listing |-> Listing(state.ask, repo, value.commit)]

(* The factory: the provider is looked for first. *)
Fetching(state) ==
  IF ProviderFor(ResolveRepo(state.ask.repo)) = NoValue THEN Failed("unsupported_git_host")
  ELSE [state EXCEPT !.pc = "fetching", !.asked = now]

(* The times of the values that calls which are over have delivered. *)
Shown(key) == {call[d].read : d \in {c \in Readers : call[c].pc = "done" /\ Key(call[c].ask) = key}}

Started(ask) ==
  [pc |-> "waiting", ask |-> ask, began |-> now, floor |-> Max({0} \cup Shown(Key(ask))),
   asked |-> 0, value |-> {}]

Holds(c, key) == call[c].pc = "fetching" /\ Key(call[c].ask) = key

InUse(key) == \E c \in Readers : Holds(c, key) \/ (call[c].pc = "waiting" /\ Key(call[c].ask) = key)

(* get_or_set: a value at hand, or the lock, or the queue for it.          *)
(* Arguments of a wrong type are refused before.                           *)
Read(c, ask) ==
  /\ call[c] = Idle /\ ask.tool # "search_knowledge_base"
  /\ \/ ResolveRepo(ask.repo) = NoValue /\ Becomes(c, Failed("validation_error"))
     \/ /\ ResolveRepo(ask.repo) # NoValue
        /\ \/ \E e \in Hits(Key(ask)) : Becomes(c, Delivered(Started(ask), e.value))
           \/ Hits(Key(ask)) = {} /\ ~ InUse(Key(ask)) /\ Becomes(c, Fetching(Started(ask)))
           \/ Hits(Key(ask)) = {} /\ InUse(Key(ask)) /\ Becomes(c, Started(ask))
  /\ UNCHANGED <<default_repos, now, tip, cache>>

Unlocked(c) == TRUE

GetsLock(c) == \A d \in Readers : ~ Holds(d, Key(call[c].ask))

(* The lock is free again: look once more, then fetch. *)
Resume(c) ==
  /\ call[c].pc = "waiting"
  /\ GetsLock(c)
  /\ \/ \E e \in Hits(Key(call[c].ask)) : Becomes(c, Delivered(call[c], e.value))
     \/ Hits(Key(call[c].ask)) = {} /\ Becomes(c, Fetching(call[c]))
  /\ UNCHANGED <<default_repos, now, tip, cache>>

GitReads(c) ==
  /\ call[c].pc = "fetching" /\ call[c].value = {}
  /\ Becomes(c, [call[c] EXCEPT !.value = {[commit |-> Served(Key(call[c].ask)), read |-> now]}])
  /\ UNCHANGED <<default_repos, now, tip, cache>>

Fetched(c) ==
  /\ call[c].pc = "fetching"
  /\ \E value \in call[c].value :
       /\ Becomes(c, Delivered(call[c], value))
       /\ cache' = {e \in Fresh : e.key # Key(call[c].ask)}
                     \cup {[key |-> Key(call[c].ask), value |-> value, expires |-> now + TTL]}
  /\ UNCHANGED <<default_repos, now, tip>>

(* The provider raises; nothing is stored, and the next one fetches. *)
FetchFails(c) ==
  /\ call[c].pc = "fetching"
  /\ LET git == IF ProviderFor(ResolveRepo(call[c].ask.repo)) = "github" THEN GitHub ELSE GitLab
     IN  \E met \in DOMAIN git : git[met] # "ok" /\ Becomes(c, Failed(git[met]))
  /\ UNCHANGED <<default_repos, now, tip, cache>>

Cancel(c) ==
  /\ call[c].pc \in {"waiting", "fetching", "searching"}
  /\ Becomes(c, Failed("cancelled"))
  /\ UNCHANGED <<default_repos, now, tip, cache>>

----
(* search_knowledge_base. *)

Targets(ask) == IF ask.repos # {} THEN ask.repos ELSE ToSet(default_repos)

(* updated_at or created_at or the epoch. *)
Stamp(i) == Or(i.updated, Or(i.created, 0))

(* All issues of the repositories that answered, the newest first. *)
NewestFirst(repos) ==
  CHOOSE issues \in SetToSeqs(UNION {Issues[repo] : repo \in repos}) :
    \A i, j \in DOMAIN issues : i < j => Stamp(issues[i]) >= Stamp(issues[j])

(* Only dates that all tell their zone, or none of which does, compare;    *)
(* the epoch does.                                                         *)
Zoned(i) == i.zoned \/ {i.updated, i.created} = {NoValue}

Comparable(repos) ==
  \A i, j \in UNION {Issues[repo] : repo \in repos} : Zoned(i) = Zoned(j)

Searching(left, answered) ==
  IF left # {} THEN [pc |-> "searching", left |-> left, answered |-> answered]
  ELSE IF ~ Comparable(answered) THEN Failed("internal_error")
  ELSE [pc |-> "found", answered |-> answered, issues |-> NewestFirst(answered)]

(* A host without an adapter ends the search before anything is asked. *)
Search(c, ask) ==
  /\ call[c] = Idle /\ ask.tool = "search_knowledge_base"
  /\ Becomes(c, IF \E repo \in Targets(ask) : ProviderFor(repo) = NoValue
                THEN Failed("unsupported_git_host") ELSE Searching(Targets(ask), {}))
  /\ UNCHANGED <<default_repos, now, tip, cache>>

RepoAnswers(c, repo) ==
  /\ call[c].pc = "searching" /\ repo \in call[c].left
  /\ Becomes(c, Searching(call[c].left \ {repo}, call[c].answered \cup {repo}))
  /\ UNCHANGED <<default_repos, now, tip, cache>>

OneFailsAll(c, repo) == Failed("ProviderUnavailableError")

Without(c, repo) == Searching(call[c].left \ {repo}, call[c].answered)

(* An error of any kind, or ten seconds: the others are not disturbed. *)
RepoFails(c, repo) ==
  /\ call[c].pc = "searching" /\ repo \in call[c].left
  /\ Becomes(c, Without(c, repo))
  /\ UNCHANGED <<default_repos, now, tip, cache>>

----
(* Someone pushes to a branch. *)
Commit(repo, branch) ==
  /\ tip[repo][branch] < Len(Contents[repo][branch])
  /\ tip' = [tip EXCEPT ![repo][branch] = @ + 1]
  /\ UNCHANGED <<default_repos, now, cache, call>>

(* No request takes longer than MaxFetch. *)
Tick ==
  /\ now < MaxTime
  /\ \A c \in Readers : call[c].pc = "fetching" => now < call[c].asked + MaxFetch
  /\ now' = now + 1
  /\ UNCHANGED <<default_repos, tip, cache, call>>

GitNext ==
  \/ \E c \in Readers, ask \in Questions : Read(c, ask) \/ Search(c, ask)
  \/ \E c \in Readers : Resume(c) \/ GitReads(c) \/ Fetched(c) \/ FetchFails(c) \/ Cancel(c)
  \/ \E c \in Readers, repo \in Repos : RepoAnswers(c, repo) \/ RepoFails(c, repo)
  \/ \E repo \in Repos : \E branch \in DOMAIN Contents[repo] : Commit(repo, branch)
  \/ Tick

GitSpec == GitInit /\ [][GitNext]_gitVars

----
(* HEAD, or no ref, is the branch that the beamline is deployed from, and  *)
(* not the repository's own default branch ("literal HEAD can silently     *)
(* read the wrong branch's config"); and what is shown of a branch was     *)
(* read less than the TTL and one request before it was asked for.         *)
DeployedIsShown ==
  \A c \in Readers : call[c].pc = "done" =>
    LET ask == call[c].ask
    IN  /\ View(ask) = "file" =>
             call[c].commit.branch = IF ask.ref \notin {NoValue, HeadRef} THEN ask.ref
                                     ELSE IF DefaultRef = HeadRef THEN Main ELSE DefaultRef
        /\ call[c].read + TTL + MaxFetch > call[c].began

(* Whoever asks after someone was answered sees the same state of the file *)
(* or a later one, by whichever tool: calls that miss the cache together   *)
(* do not let a slow answer replace a newer one.                           *)
NeverBack == \A c \in Readers : call[c].pc = "done" => call[c].read >= call[c].floor

(* list_beamline_devices misses no device of the file, however its IOC     *)
(* comes to its group ("reading the raw file yourself and grep-ing for     *)
(* devgroup will undercount").                                             *)
InventoryCountsRight ==
  \A c \in Readers : call[c].pc = "done" /\ call[c].listing # NoValue =>
    CountsRight(Content(ResolveRepo(call[c].ask.repo), call[c].commit), call[c].ask.filters, call[c].listing)

(* A search ends with the issues of every repository that answered, the    *)
(* newest first, whatever became of the others: only a host without an     *)
(* adapter (or the caller) ends it otherwise - and the dates of those that *)
(* answered, if some tell their time zone and some do not.                 *)
SearchKeepsTheRest ==
  [][\A c \in Readers :
       /\ call[c].pc = "searching" /\ call'[c].pc = "failed" =>
            \/ call'[c].error = "cancelled"
            \/ call'[c].error = "internal_error" /\ \E repos \in SUBSET (call[c].left \cup call[c].answered) :
                 ~ Comparable(repos)
       /\ call'[c].pc = "found" =>
            LET issues == call'[c].issues
            IN  /\ \A repo \in call'[c].answered : Issues[repo] \subseteq ToSet(issues)
                /\ \A i, j \in DOMAIN issues : i < j => Stamp(issues[i]) >= Stamp(issues[j])]_gitVars
====
