---- MODULE Providers ----
(***************************************************************************)
(* How the providers behind a report tell what became of a request: for    *)
(* each backend, a function from what the request meets there to "ok" or   *)
(* to the error of core/errors.py that the provider raises, by the class   *)
(* through which the callers know it; Exception is everything else.        *)
(*                                                                         *)
(*   good         the answer that was asked for                            *)
(*   absent       there is no such thing                                   *)
(*   denied       the credentials are not accepted                         *)
(*   refused      the request is refused for another reason                *)
(*   broken       the backend answers that it failed                       *)
(*   unreachable  there is no connection                                   *)
(*   late         the provider's own timeout has passed                    *)
(*   strange      an answer of a shape that the provider looks out for     *)
(*   garbled      an answer that it does not look out for                  *)
(*                                                                         *)
(* What a request cannot meet at a backend is not in the domain.           *)
(***************************************************************************)

(* Most providers: httpx.HTTPError is "unreachable" whatever its reason,   *)
(* and only looking into the answer is guarded, not parsing it.            *)
Archiver ==
  [good |-> "ok",
   absent |-> "ProviderUnavailableError", denied |-> "ProviderUnavailableError",
   refused |-> "ProviderUnavailableError", broken |-> "ProviderUnavailableError",
   unreachable |-> "ProviderUnavailableError", late |-> "ProviderTimeoutError",
   strange |-> "ArgusError", garbled |-> "Exception"]

Loki == Archiver

(* Errors of the application come with status 200, as strange answers. *)
Ragflow == Archiver

(* An unknown application is None, and no answer is looked into with care. *)
ArgoCD == [Archiver EXCEPT !.absent = "ok", !.denied = "ArgusError", !.strange = "Exception"]

(* A status below 500 is Olog's refusal, told with its reason. *)
Olog ==
  [Archiver EXCEPT !.absent = "ArgusError", !.denied = "ArgusError", !.refused = "ArgusError"]

(* The client waits without a timeout, in a thread, and parses there;      *)
(* _to_pod_status takes what it parsed for whole (garbled).                *)
Pods ==
  [good |-> "ok", absent |-> "ok",
   denied |-> "ProviderUnavailableError", refused |-> "ProviderUnavailableError",
   broken |-> "ProviderUnavailableError", unreachable |-> "ProviderUnavailableError",
   strange |-> "ProviderUnavailableError", garbled |-> "Exception"]

(* Whatever happens, the pod was not found. *)
PodLogs ==
  [good |-> "ok", absent |-> "ArgusError", denied |-> "ArgusError", refused |-> "ArgusError",
   broken |-> "ArgusError", unreachable |-> "ArgusError", garbled |-> "ArgusError"]

(* A PV that does not answer is "disconnected", in an answer; broken is an *)
(* installation without aioca, which is imported when it is needed.        *)
LivePVs ==
  [good |-> "ok", absent |-> "ok", unreachable |-> "ok", late |-> "ok", broken |-> "Exception"]

(* No requests: no documents are an answer, an index that cannot be built  *)
(* is strange, and one that cannot be loaded may be garbled.               *)
Tfidf == [good |-> "ok", absent |-> "ok", strange |-> "ArgusError", garbled |-> "Exception"]

(* Every KnowledgeHubError is "unavailable", also what the MCP client      *)
(* cannot read (broken); absent is a token that reads no workspace, and    *)
(* one workspace that answers is good.                                     *)
HubDocuments ==
  [good |-> "ok",
   absent |-> "ProviderUnavailableError", denied |-> "ProviderUnavailableError",
   refused |-> "ProviderUnavailableError", broken |-> "ProviderUnavailableError",
   unreachable |-> "ProviderUnavailableError", late |-> "ProviderUnavailableError",
   strange |-> "ArgusError", garbled |-> "Exception"]

(* The same errors, as a query that failed. *)
HubLogbook ==
  [good |-> "ok", absent |-> "ArgusError", denied |-> "ArgusError", refused |-> "ArgusError",
   broken |-> "ArgusError", unreachable |-> "ArgusError", late |-> "ProviderTimeoutError",
   strange |-> "ArgusError", garbled |-> "Exception"]

(* "Not found" is an error of its own, and what follows a good status is   *)
(* not looked into with care.  GitLab is asked in the same way.            *)
GitHub ==
  [good |-> "ok", absent |-> "ArgusError", denied |-> "ProviderUnavailableError",
   refused |-> "ProviderUnavailableError", broken |-> "ProviderUnavailableError",
   unreachable |-> "ProviderUnavailableError", late |-> "ProviderTimeoutError",
   strange |-> "Exception", garbled |-> "Exception"]

GitLab == GitHub

(* What is asked of which backend; Kubernetes is asked for two things. *)
Requests ==
  [epics |-> LivePVs, archiver |-> Archiver, pod |-> Pods, pod_logs |-> PodLogs, loki |-> Loki,
   argocd |-> ArgoCD, olog |-> Olog, hub_logbook |-> HubLogbook, tfidf |-> Tfidf,
   ragflow |-> Ragflow, hub_documents |-> HubDocuments]

(* The errors that a request can end with. *)
ErrorsOf(request) == {Requests[request][met] : met \in DOMAIN Requests[request]} \ {"ok"}
====
