------------------------------- MODULE Services -------------------------------
(***************************************************************************)
(* The Services of the replicas and the addresses that replicas and        *)
(* clients are given: the IPs of the Services, and spec.port.  TigerBeetle *)
(* reads its list of addresses once, so the IPs must not change: a Service *)
(* that a user deletes is created again with the IP that the               *)
(* TigerBeetleCluster's status recalls.  When spec.port changes, the       *)
(* Services forward the new port at once and the replicas follow as the    *)
(* StatefulSet restarts them.                                              *)
(*                                                                         *)
(* The operator reads Services and the TigerBeetleCluster from caches that *)
(* lag behind independently of each other.  IPs that no Service of the     *)
(* cluster has are handed out to anybody.                                  *)
(*                                                                         *)
(* A port is the number of the edit that chose it, so that no port comes   *)
(* back; external addresses are part of the list in the same way.  Left    *)
(* out: the bootstrap between the ConfigMap and the StatefulSet            *)
(* (Bootstrap), and replicas that fail.  An IP is allocated when its       *)
(* Service is created, so the operator never waits for one.                *)
(***************************************************************************)
EXTENDS Integers, FiniteSets

CONSTANTS
    N,              \* spec.replicas
    IPs,            \* the addresses of the Kubernetes cluster's Services
    MaxDeletes,     \* bound: Services deleted by users
    MaxTaken,       \* bound: IPs given to others
    MaxEdits,       \* bound: changes of spec.port or spec.externalAddresses
    MaxFaults,      \* bound: failed calls and crashes
    MaxTotal,       \* bound: all of these together
    Assumed         \* "StatusSeen"  a Service is only deleted after the operator
                    \*               has read its IP in the status

ASSUME NAssumption == N \in Nat \ {0}
ASSUME BoundsAssumption == {MaxDeletes, MaxTaken, MaxEdits, MaxFaults, MaxTotal} \subseteq Nat
ASSUME AssumedAssumption == Assumed \subseteq {"StatusSeen"}

Ordinals == 0 .. N - 1
None == "none"
\* IPs never run out.
ASSUME IPsAssumption ==
    None \notin IPs /\ IsFiniteSet(IPs) /\ Cardinality(IPs) >= N + MaxTaken

VARIABLES
    svc,            \* the IP of each replica's Service, and the port it forwards
    cSvc, news,     \* the cached IPs; Services have changed since
    others,         \* IPs of the Services of others
    tbc, cTbc,      \* the TigerBeetleCluster, and the cached one
    configMap,      \* the addresses in the ConfigMap, for clients
    template,       \* the addresses in the StatefulSet, for replicas
    pods,           \* the addresses that each replica has been started with
    queue, pc,      \* the operator: work queue and next step,
    me, k, ips,     \* the TigerBeetleCluster it began with, the loop over replicas
    deletes, taken, faults

live  == <<svc, news, others, tbc, configMap, template, pods>>
cache == <<cSvc, cTbc, queue>>
rec   == <<pc, me, k, ips>>
bound == <<deletes, taken, faults>>
vars  == <<live, cache, rec, bound>>

-----------------------------------------------------------------------------

Ports   == 1 .. MaxEdits + 1
IPLists == [Ordinals -> IPs \union {None}]
Unknown == [i \in Ordinals |-> None]
Complete(list) == \A i \in Ordinals : list[i] # None

\* Addresses: the IPs in the order of the replicas, all with the same port.
Lists  == [ips : {list \in IPLists : Complete(list)}, port : Ports]
NoList == [ips |-> Unknown, port |-> 0]
Addresses(list, port) == [ips |-> list, port |-> port]

\* A replica binds to a port of its own instead of its Service's address.
Local == "0.0.0.0"
LocalAddresses(list, i) == [list EXCEPT !.ips[i] = Local]

Services  == [ip : IPs, port : Ports]
NoService == [ip |-> None, port |-> 0]
LiveIPs   == [i \in Ordinals |-> svc[i].ip]

Clusters == [port : Ports, ips : IPLists, addresses : Lists \union {NoList}, stalled : BOOLEAN]
NewCluster == [port |-> 1, ips |-> Unknown, addresses |-> NoList, stalled |-> FALSE]

\* Lists of addresses are complete or absent wherever they are published, and
\* every replica runs on a list of its own.
TypeOK ==
    /\ svc \in [Ordinals -> Services \union {NoService}]
    /\ cSvc \in IPLists /\ ips \in IPLists
    /\ {tbc, cTbc, me} \subseteq Clusters
    /\ \A copy \in {tbc, cTbc, me} : copy.ips = Unknown \/ Complete(copy.ips)
    /\ {configMap, template} \subseteq Lists \union {NoList}
    /\ \A i \in Ordinals : pods[i] = NoList \/ pods[i].ips[i] = Local
    /\ others \subseteq IPs
    /\ news \in BOOLEAN /\ queue \in BOOLEAN /\ k \in 0 .. N
    /\ pc \in {"idle", "services", "configMap", "statefulSet", "done"}
    /\ deletes \in 0 .. MaxDeletes /\ taken \in 0 .. MaxTaken /\ faults \in 0 .. MaxFaults

Init ==
    /\ svc = [i \in Ordinals |-> NoService] /\ cSvc = Unknown /\ news = FALSE /\ others = {}
    /\ tbc = NewCluster /\ cTbc = tbc
    /\ configMap = NoList /\ template = NoList /\ pods = [i \in Ordinals |-> NoList]
    /\ queue = TRUE /\ pc = "idle" /\ me = tbc /\ k = 0 /\ ips = Unknown
    /\ deletes = 0 /\ taken = 0 /\ faults = 0

Free == IPs \ (others \union {svc[i].ip : i \in Ordinals})
Budget == deletes + taken + faults + tbc.port <= MaxTotal

-----------------------------------------------------------------------------
(* The operator *)

BeginReconcile ==
    /\ pc = "idle" /\ queue
    /\ queue' = FALSE /\ me' = cTbc
    /\ pc' = "services" /\ k' = 0 /\ ips' = Unknown
    /\ UNCHANGED <<live, cSvc, cTbc, bound>>

\* How Reconcile ends, whatever the outcome: the fields of the status that
\* differ from the copy that the call began with are patched.
Patched(field, value) == IF value # me[field] THEN value ELSE tbc[field]
PatchWith(list, addresses, stalled) ==
    tbc' = [tbc EXCEPT !.ips = Patched("ips", list),
                       !.addresses = Patched("addresses", addresses),
                       !.stalled = Patched("stalled", stalled)]

Finish_Bug(stalled, again) ==       \* Services that have their IP are published at once
    /\ PatchWith(ips, IF Complete(ips) THEN Addresses(ips, me.port) ELSE me.addresses, stalled)
    /\ queue' = (queue \/ again) /\ pc' = "idle"

Finish(stalled, again) ==
    /\ IF Complete(ips) THEN PatchWith(ips, Addresses(ips, me.port), stalled)
                        ELSE PatchWith(me.ips, me.addresses, stalled)
    /\ queue' = (queue \/ again) /\ pc' = "idle"

\* The IP a replica's Service is applied with: of the cached Service, else of
\* the status, else none.
Repins == cSvc[k] = None /\ me.ips[k] # None
Pinned_Bug == cSvc[k]
Pinned == IF Repins THEN me.ips[k] ELSE cSvc[k]

\* The API server creates the Service, or brings its port up to date.  It
\* rejects an IP that is in use or not the existing Service's.
Accepted == IF svc[k] = NoService THEN Pinned \in Free ELSE Pinned \in {None, svc[k].ip}

ApplyService ==
    /\ pc = "services" /\ k < N
    /\ \E ip \in IF svc[k] # NoService THEN {svc[k].ip}
                 ELSE IF Pinned = None THEN Free ELSE {Pinned} :
         svc' = [svc EXCEPT ![k] = [ip |-> ip, port |-> me.port]]
    /\ Pinned = None \/ Accepted
    /\ news' = (news \/ svc' # svc)
    /\ ips' = [ips EXCEPT ![k] = svc'[k].ip] /\ k' = k + 1
    /\ UNCHANGED <<others, tbc, configMap, template, pods, cache, pc, me, bound>>

\* Its Service cannot have the IP: a replica's previous IP that is lost needs
\* a user, another IP is an error of the cache's making and tried again.
RejectedStalls_Bug == FALSE
RejectedStalls == Repins
ServiceRejected ==
    /\ pc = "services" /\ k < N /\ Pinned # None /\ ~Accepted
    /\ Finish(RejectedStalls, TRUE)
    /\ UNCHANGED <<svc, news, others, configMap, template, pods, cSvc, cTbc, me, k, ips, bound>>

ApplyConfigMap ==
    /\ pc = "services" /\ k = N
    /\ configMap' = Addresses(ips, me.port) /\ pc' = "statefulSet"
    /\ UNCHANGED <<svc, news, others, tbc, template, pods, cache, me, k, ips, bound>>

ApplyStatefulSet_Bug ==         \* with the cluster as it is by now
    /\ pc = "statefulSet"
    /\ template' = Addresses(ips, cTbc.port) /\ pc' = "done"
    /\ UNCHANGED <<svc, news, others, tbc, configMap, pods, cache, me, k, ips, bound>>

ApplyStatefulSet ==
    /\ pc = "statefulSet"
    /\ template' = Addresses(ips, me.port) /\ pc' = "done"
    /\ UNCHANGED <<svc, news, others, tbc, configMap, pods, cache, me, k, ips, bound>>

PatchStatus ==
    /\ pc = "done"
    /\ Finish(FALSE, FALSE)
    /\ UNCHANGED <<svc, news, others, configMap, template, pods, cSvc, cTbc, me, k, ips, bound>>

Fault == Budget /\ faults < MaxFaults /\ faults' = faults + 1 /\ UNCHANGED <<deletes, taken>>

\* A call fails, which takes a Stalled condition back.
ApiError ==
    /\ pc \in {"services", "statefulSet"}
    /\ Finish(FALSE, TRUE)
    /\ Fault
    /\ UNCHANGED <<svc, news, others, configMap, template, pods, cSvc, cTbc, me, k, ips>>

\* The patch of the status fails, or the operator stops before it.
StatusPatchFails ==
    /\ pc = "done"
    /\ queue' = TRUE /\ pc' = "idle"
    /\ Fault
    /\ UNCHANGED <<live, cSvc, cTbc, me, k, ips>>

Crash ==
    /\ pc # "idle"
    /\ cSvc' = LiveIPs /\ news' = FALSE /\ cTbc' = tbc /\ queue' = TRUE /\ pc' = "idle"
    /\ Fault
    /\ UNCHANGED <<svc, others, tbc, configMap, template, pods, me, k, ips>>

SyncServices_Bug ==
    /\ news
    /\ cSvc' = LiveIPs /\ news' = FALSE /\ UNCHANGED queue
    /\ UNCHANGED <<svc, others, tbc, configMap, template, pods, cTbc, rec, bound>>

\* Services are watched, and the TigerBeetleCluster is.
SyncServices ==
    /\ news
    /\ cSvc' = LiveIPs /\ news' = FALSE /\ queue' = TRUE
    /\ UNCHANGED <<svc, others, tbc, configMap, template, pods, cTbc, rec, bound>>

SyncCluster ==
    /\ cTbc # tbc
    /\ cTbc' = tbc /\ queue' = TRUE
    /\ UNCHANGED <<live, cSvc, rec, bound>>

Reconcile ==
    \/ BeginReconcile \/ ApplyService \/ ServiceRejected
    \/ ApplyConfigMap \/ ApplyStatefulSet \/ PatchStatus

Operator == Reconcile \/ ApiError \/ StatusPatchFails \/ Crash \/ SyncServices \/ SyncCluster

-----------------------------------------------------------------------------
(* The StatefulSet controller, users and the rest of the Kubernetes cluster *)

\* A replica is started, or restarted by a rollout, with the template's list.
StartReplica(i) ==
    /\ template # NoList /\ pods[i] # LocalAddresses(template, i)
    /\ pods' = [pods EXCEPT ![i] = LocalAddresses(template, i)]
    /\ UNCHANGED <<svc, news, others, tbc, configMap, template, cache, rec, bound>>

EditSpec ==
    /\ tbc.port <= MaxEdits /\ Budget
    /\ tbc' = [tbc EXCEPT !.port = @ + 1]
    /\ UNCHANGED <<svc, news, others, configMap, template, pods, cache, rec, bound>>

DeleteService(i) ==
    /\ svc[i] # NoService /\ deletes < MaxDeletes /\ Budget
    /\ "StatusSeen" \in Assumed =>
         /\ tbc.ips[i] = svc[i].ip /\ cTbc.ips[i] = svc[i].ip
         /\ pc = "services" => me.ips[i] = svc[i].ip
    /\ svc' = [svc EXCEPT ![i] = NoService] /\ news' = TRUE /\ deletes' = deletes + 1
    /\ UNCHANGED <<others, tbc, configMap, template, pods, cache, rec, taken, faults>>

TakeIP(ip) ==
    /\ ip \in Free /\ taken < MaxTaken /\ Budget
    /\ others' = others \union {ip} /\ taken' = taken + 1
    /\ UNCHANGED <<svc, news, tbc, configMap, template, pods, cache, rec, deletes, faults>>

ReleaseIP(ip) ==
    /\ ip \in others
    /\ others' = others \ {ip}
    /\ UNCHANGED <<svc, news, tbc, configMap, template, pods, cache, rec, bound>>

Next ==
    \/ Operator
    \/ EditSpec
    \/ \E i \in Ordinals : StartReplica(i) \/ DeleteService(i)
    \/ \E ip \in IPs : TakeIP(ip) \/ ReleaseIP(ip)

Spec == Init /\ [][Next]_vars

\* The operator, its informers and the StatefulSet controller keep going;
\* nobody owes an IP.
FairSpec ==
    /\ Spec
    /\ WF_vars(Reconcile) /\ WF_vars(SyncServices) /\ WF_vars(SyncCluster)
    /\ WF_vars(\E i \in Ordinals : StartReplica(i))

-----------------------------------------------------------------------------
(* Properties *)

\* The IPs that clients and replicas are given never change: a deleted Service
\* is created again with its previous IP (ensureServices, clients.md).
AddressesKept ==
    [][ /\ configMap # NoList => configMap'.ips = configMap.ips
        /\ template # NoList => template'.ips = template.ips ]_vars

\* A new port reaches Services, clients and replicas in this order, so that
\* nobody is sent to a port that its Service does not forward yet, whatever
\* fails in between and however often a Service is made anew (reconcile).
SwitchesInOrder ==
    \A i \in Ordinals :
        /\ pods[i].port <= template.port /\ template.port <= configMap.port
        /\ svc[i] # NoService => configMap.port <= svc[i].port

\* Stalled says ServiceIPRepinFailed for as long as a Service cannot have its
\* IP back, and no longer, even when calls fail in between.
LossOfIPIsReported ==
    <>[](tbc.stalled <=> \E i \in Ordinals : svc[i] = NoService /\ tbc.ips[i] \in others)

\* The address that replica i has of replica j leads there.
Reaches(i, j) ==
    /\ pods[i].ips[j] = svc[j].ip
    /\ pods[i].port = svc[j].port /\ svc[j].port = pods[j].port

\* In the end the Services, the status and the lists of clients and replicas
\* agree on the latest port, and every replica reaches every other, unless an
\* IP is lost to somebody else.
AddressesServed ==
    <>[]( \/ \E i \in Ordinals : tbc.ips[i] \in others
          \/ /\ {tbc.addresses, configMap, template} = {Addresses(LiveIPs, tbc.port)}
             /\ tbc.ips = LiveIPs
             /\ \A i \in Ordinals : \A j \in Ordinals \ {i} : Reaches(i, j) )
==============================================================================
