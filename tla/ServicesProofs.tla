---------------------------- MODULE ServicesProofs ----------------------------
(***************************************************************************)
(* Proofs about the Services of the replicas, for every number of          *)
(* replicas, every set of IPs and any number of deletions, edits, failed   *)
(* calls and crashes.                                                      *)
(*                                                                         *)
(* A new port reaches Services, clients and replicas in this order         *)
(* (SwitchesInOrder), whatever the caches say.  That the IPs they are      *)
(* given never change (AddressesKept) needs that a Service is only deleted *)
(* once the operator has read its IP in the status: then everything that   *)
(* remembers the IP of a replica remembers the same one (OneIP), and what  *)
(* a call begins with still has it when the Service is gone (Recalled).    *)
(***************************************************************************)
EXTENDS Services, TLAPS

PodLists == [ips : [Ordinals -> IPs \union {None, Local}], port : Ports \union {0}]

\* The IPs that a call has collected are those of the replicas it has been to.
Collected ==
    /\ pc # "idle" => \A i \in Ordinals : ips[i] # None <=> i < k
    /\ pc \in {"statefulSet", "done"} => k = N

TypeInv == TypeOK /\ pods \in [Ordinals -> PodLists] /\ Collected

\* The copies of spec.port only move forward.
CopiesInOrder ==
    configMap.port <= me.port /\ me.port <= cTbc.port /\ cTbc.port <= tbc.port

\* A call's port is ahead of every Service's until the call has applied it.
Forwarded ==
    /\ \A i \in Ordinals : svc[i] # NoService =>
         /\ svc[i].port <= me.port
         /\ pc # "idle" /\ i < k => svc[i].port = me.port
    /\ pc \in {"statefulSet", "done"} => configMap.port = me.port

OrderInv == TypeInv /\ CopiesInOrder /\ Forwarded /\ SwitchesInOrder

\* Whatever remembers the IP of replica i.
Records(i) ==
    {svc[i].ip, cSvc[i], tbc.ips[i], cTbc.ips[i], me.ips[i], ips[i],
     configMap.ips[i], template.ips[i]} \ {None}

OneIP == \A i \in Ordinals : \A a, b \in Records(i) : a = b

\* While a Service is gone, the status has its IP, and so has what a call
\* that may create it again has begun with.
Recalled ==
    \A i \in Ordinals : svc[i] = NoService /\ Records(i) # {} =>
        /\ tbc.ips[i] # None /\ cTbc.ips[i] # None
        /\ pc = "services" => me.ips[i] # None

RecallInv == TypeInv /\ OneIP /\ Recalled

-----------------------------------------------------------------------------
(* Lemmas about the operators *)

\* An address is complete exactly when it lists an IP of every replica.
LEMMA ListTypes ==
    /\ Unknown \in IPLists /\ ~Complete(Unknown)
    /\ NoList.ips = Unknown /\ NoList.port = 0
    /\ \A list \in IPLists, port \in Ports :
         /\ Complete(list) => Addresses(list, port) \in Lists
         /\ Addresses(list, port).ips = list /\ Addresses(list, port).port = port
    /\ \A l \in Lists : l.ips \in IPLists /\ Complete(l.ips) /\ l.port \in Ports
<1>1. 0 \in Ordinals
    BY NAssumption DEF Ordinals
<1> QED
    BY <1>1 DEF Unknown, IPLists, Complete, NoList, Lists, Addresses

\* What a status patch does, whatever else a call ends with.
LEMMA FinishPatches ==
    ASSUME TypeInv, NEW s \in BOOLEAN, NEW again \in BOOLEAN, Finish(s, again)
    PROVE /\ tbc' \in Clusters /\ tbc'.port = tbc.port
          /\ tbc'.ips = tbc.ips \/ (tbc'.ips = ips /\ Complete(ips))
          /\ queue' \in BOOLEAN /\ pc' = "idle"
<1> USE DEF TypeInv, TypeOK
<1>1. tbc \in Clusters /\ me \in Clusters /\ ips \in IPLists
    OBVIOUS
<1>2. ASSUME NEW list \in IPLists, NEW addresses \in Lists \union {NoList},
             PatchWith(list, addresses, s)
      PROVE /\ tbc' \in Clusters /\ tbc'.port = tbc.port
            /\ tbc'.ips = IF list # me.ips THEN list ELSE tbc.ips
    BY <1>1, <1>2 DEF PatchWith, Patched, Clusters
<1>3. queue' \in BOOLEAN /\ pc' = "idle"
    BY DEF Finish
<1>4. CASE Complete(ips)
    <2>1. Addresses(ips, me.port) \in Lists
        BY <1>1, <1>4, ListTypes DEF Clusters
    <2>2. PatchWith(ips, Addresses(ips, me.port), s)
        BY <1>4 DEF Finish
    <2> QED
        BY <1>1, <1>2, <1>3, <1>4, <2>1, <2>2
<1>5. CASE ~Complete(ips)
    <2>1. PatchWith(me.ips, me.addresses, s)
        BY <1>5 DEF Finish
    <2> QED
        BY <1>1, <1>2, <1>3, <2>1 DEF Clusters
<1> QED
    BY <1>4, <1>5

\* The replica's Service that a call applies has an IP, the one it had if it
\* was there, and the port that the call began with.
LEMMA ApplyEffect ==
    ASSUME TypeInv, ApplyService
    PROVE /\ k \in Ordinals /\ svc'[k] \in Services
          /\ svc' = [svc EXCEPT ![k] = svc'[k]]
          /\ svc'[k].port = me.port /\ svc'[k] # NoService
          /\ svc[k] # NoService => svc'[k].ip = svc[k].ip
          /\ svc[k] = NoService /\ Pinned # None => svc'[k].ip = Pinned
          /\ ips' = [ips EXCEPT ![k] = svc'[k].ip] /\ k' = k + 1
<1> USE DEF TypeInv, TypeOK
<1>1. k \in Ordinals
    BY NAssumption DEF ApplyService, Ordinals
<1>2. PICK ip \in IF svc[k] # NoService THEN {svc[k].ip}
                  ELSE IF Pinned = None THEN Free ELSE {Pinned} :
            svc' = [svc EXCEPT ![k] = [ip |-> ip, port |-> me.port]]
    BY DEF ApplyService
<1>3. ip \in IPs
    BY <1>1, <1>2 DEF ApplyService, Accepted, Free, Services
<1>4. svc'[k] = [ip |-> ip, port |-> me.port]
    BY <1>1, <1>2
<1>5. me.port \in Ports
    BY DEF Clusters
<1>6. svc'[k] # NoService
    BY <1>3, <1>4, IPsAssumption DEF NoService
<1> QED
    BY <1>1, <1>2, <1>3, <1>4, <1>5, <1>6 DEF ApplyService, Services

-----------------------------------------------------------------------------
(* Types *)

\* At first nothing has been created.
LEMMA TypeInit == Init => TypeInv
<1> SUFFICES ASSUME Init PROVE TypeInv
    OBVIOUS
<1>1. 1 \in Ports /\ 0 \in 0 .. N /\ 0 \in Ordinals
    BY NAssumption, BoundsAssumption DEF Ports, Ordinals
<1>2. NewCluster \in Clusters /\ NewCluster.ips = Unknown
    BY <1>1, ListTypes DEF NewCluster, Clusters
<1>3. svc \in [Ordinals -> Services \union {NoService}] /\ cSvc \in IPLists /\ ips \in IPLists
    BY ListTypes DEF Init
<1>4. {tbc, cTbc, me} \subseteq Clusters /\ \A copy \in {tbc, cTbc, me} : copy.ips = Unknown
    BY <1>2 DEF Init
<1>5. {configMap, template} \subseteq Lists \union {NoList} /\ \A i \in Ordinals : pods[i] = NoList
    BY DEF Init
<1>6. /\ others \subseteq IPs /\ news \in BOOLEAN /\ queue \in BOOLEAN /\ k \in 0 .. N
      /\ pc = "idle"
    BY <1>1 DEF Init
<1>7. deletes \in 0 .. MaxDeletes /\ taken \in 0 .. MaxTaken /\ faults \in 0 .. MaxFaults
    BY BoundsAssumption DEF Init
<1>8. pods \in [Ordinals -> PodLists]
    <2>1. NoList \in PodLists
        BY DEF NoList, Unknown, PodLists
    <2> QED
        BY <2>1 DEF Init
<1> QED
    BY <1>3, <1>4, <1>5, <1>6, <1>7, <1>8 DEF TypeInv, TypeOK, Collected

\* A step of a call that ends it leaves the types.
LEMMA TypeFinish ==
    ASSUME TypeInv, NEW s \in BOOLEAN, NEW again \in BOOLEAN, Finish(s, again),
           faults' \in 0 .. MaxFaults,
           UNCHANGED <<svc, news, others, configMap, template, pods, cSvc, cTbc, me, k, ips,
                       deletes, taken>>
    PROVE TypeInv'
<1>1. /\ tbc' \in Clusters /\ (tbc'.ips = tbc.ips \/ Complete(tbc'.ips))
      /\ queue' \in BOOLEAN /\ pc' = "idle"
    BY FinishPatches
<1> QED
    BY <1>1 DEF TypeInv, TypeOK, Collected, Complete

\* A replica's list has the template's IPs, but for its own.
LEMMA LocalType ==
    ASSUME NEW list \in Lists, NEW i \in Ordinals
    PROVE LET l == LocalAddresses(list, i)
          IN  l \in PodLists /\ l.ips[i] = Local /\ l.port = list.port
<1>1. list.ips \in [Ordinals -> IPs \union {None}] /\ list.port \in Ports
    BY ListTypes DEF IPLists
<1>2. list = [ips |-> list.ips, port |-> list.port]
    BY DEF Lists
<1>3. LocalAddresses(list, i) = [ips |-> [list.ips EXCEPT ![i] = Local], port |-> list.port]
    BY <1>2 DEF LocalAddresses
<1> QED
    BY <1>1, <1>3 DEF PodLists

\* No step leaves the types.
LEMMA TypeNext == TypeInv /\ [Next]_vars => TypeInv'
<1> SUFFICES ASSUME TypeInv, [Next]_vars PROVE TypeInv'
    OBVIOUS
<1> USE BoundsAssumption, NAssumption DEF TypeInv, TypeOK, Collected, Ordinals, Complete
<1>1. CASE BeginReconcile
    <2>1. ips' \in IPLists /\ \A i \in Ordinals : ips'[i] = None
        BY <1>1, ListTypes DEF BeginReconcile, Unknown
    <2> QED
        <3>1. {tbc', cTbc', me'} = {tbc, cTbc}
            BY <1>1 DEF BeginReconcile, live
        <3>2. k' = 0 /\ 0 \in 0 .. N /\ pc' = "services" /\ queue' = FALSE
            BY <1>1 DEF BeginReconcile
        <3>3. Collected'
            BY <2>1, <3>2
        <3> QED
            BY <1>1, <2>1, <3>1, <3>2, <3>3 DEF BeginReconcile, live, bound
<1>2. CASE ApplyService
    <2>1. svc' \in [Ordinals -> Services \union {NoService}]
        BY <1>2, ApplyEffect
    <2>2. /\ ips' \in IPLists /\ k' \in 0 .. N
          /\ \A i \in Ordinals : ips'[i] # None <=> i < k'
        <3>1. svc'[k].ip \in IPs /\ svc'[k].ip # None /\ k \in Ordinals
            BY <1>2, ApplyEffect, IPsAssumption DEF Services
        <3>2. pc = "services"
            BY <1>2 DEF ApplyService
        <3> QED
            <4>1. ips' = [ips EXCEPT ![k] = svc'[k].ip] /\ k' = k + 1
                BY <1>2, ApplyEffect
            <4>2. ips' \in IPLists
                BY <3>1, <4>1 DEF IPLists
            <4>3. \A i \in Ordinals : ips[i] # None <=> i < k
                BY <3>2
            <4>4. ASSUME NEW i \in Ordinals PROVE ips'[i] # None <=> i < k'
                <5>1. CASE i = k
                    BY <3>1, <4>1, <5>1 DEF IPLists
                <5>2. CASE i # k
                    <6>1. ips'[i] = ips[i]
                        BY <3>1, <4>1, <5>2 DEF IPLists
                    <6> QED
                        BY <3>1, <4>1, <4>3, <5>2, <6>1
                <5> QED
                    BY <5>1, <5>2
            <4> QED
                BY <3>1, <4>1, <4>2, <4>4
    <2>3. news' \in BOOLEAN
        BY <1>2 DEF ApplyService
    <2> QED
        BY <1>2, <2>1, <2>2, <2>3 DEF ApplyService, cache, bound
<1>3. CASE ServiceRejected
    <2>1. RejectedStalls \in BOOLEAN
        BY DEF RejectedStalls, Repins
    <2> QED
        BY <1>3, <2>1, TypeFinish DEF ServiceRejected, bound
<1>4. CASE ApplyConfigMap
    <2>1. configMap' \in Lists
        <3>1. Complete(ips)
            BY <1>4 DEF ApplyConfigMap
        <3> QED
            BY <1>4, <3>1, ListTypes DEF ApplyConfigMap, Clusters
    <2> QED
        BY <1>4, <2>1 DEF ApplyConfigMap, cache, bound
<1>5. CASE ApplyStatefulSet
    <2>1. template' \in Lists
        <3>1. Complete(ips)
            BY <1>5 DEF ApplyStatefulSet
        <3> QED
            BY <1>5, <3>1, ListTypes DEF ApplyStatefulSet, Clusters
    <2> QED
        BY <1>5, <2>1 DEF ApplyStatefulSet, cache, bound
<1>6. CASE PatchStatus
    BY <1>6, TypeFinish DEF PatchStatus, bound
<1>7. CASE ApiError
    <2>1. Finish(FALSE, TRUE)
        BY <1>7 DEF ApiError
    <2>2. faults' \in 0 .. MaxFaults
        BY <1>7 DEF ApiError, Fault
    <2> QED
        BY <1>7, <2>1, <2>2, TypeFinish DEF ApiError, Fault
<1>8. CASE StatusPatchFails
    BY <1>8 DEF StatusPatchFails, Fault, live
<1>9. LiveIPs \in IPLists
    <2>1. \A i \in Ordinals : svc[i].ip \in IPs \union {None}
        BY DEF Services, NoService
    <2> QED
        BY <2>1 DEF LiveIPs, IPLists
<1>10. CASE Crash
    <2>1. {tbc', cTbc', me'} = {tbc, me} /\ cSvc' \in IPLists
        BY <1>9, <1>10 DEF Crash
    <2>2. faults' \in 0 .. MaxFaults
        BY <1>10 DEF Crash, Fault
    <2> QED
        <3>1. Collected' /\ pc' = "idle" /\ news' = FALSE /\ queue' = TRUE
            BY <1>10 DEF Crash
        <3>2. UNCHANGED <<svc, others, tbc, configMap, template, pods, me, k, ips, deletes, taken>>
            BY <1>10 DEF Crash, Fault
        <3> QED
            BY <2>1, <2>2, <3>1, <3>2
<1>11. CASE SyncServices
    BY <1>9, <1>11 DEF SyncServices, rec, bound
<1>12. CASE SyncCluster
    BY <1>12 DEF SyncCluster, live, rec, bound
<1>13. ASSUME NEW i \in Ordinals, StartReplica(i) PROVE TypeInv'
    <2>1. LocalAddresses(template, i) \in PodLists /\ LocalAddresses(template, i).ips[i] = Local
        BY <1>13, LocalType DEF StartReplica
    <2> QED
        BY <1>13, <2>1 DEF StartReplica, cache, rec, bound
<1>14. ASSUME NEW i \in Ordinals, DeleteService(i) PROVE TypeInv'
    BY <1>14 DEF DeleteService, cache, rec
<1>15. CASE EditSpec
    <2>1. tbc' \in Clusters /\ tbc'.ips = tbc.ips
        <3>1. tbc \in Clusters
            OBVIOUS
        <3>2. tbc.port + 1 \in Ports /\ tbc' = [tbc EXCEPT !.port = tbc.port + 1]
            BY <1>15, <3>1 DEF EditSpec, Clusters, Ports
        <3> QED
            BY <3>1, <3>2 DEF Clusters
    <2> QED
        BY <1>15, <2>1 DEF EditSpec, cache, rec, bound
<1>16. ASSUME NEW ip \in IPs, TakeIP(ip) \/ ReleaseIP(ip) PROVE TypeInv'
    BY <1>16 DEF TakeIP, ReleaseIP, cache, rec, bound
<1>17. CASE UNCHANGED vars
    BY <1>17 DEF vars, live, cache, rec, bound
<1> QED
    BY <1>1, <1>2, <1>3, <1>4, <1>5, <1>6, <1>7, <1>8, <1>10, <1>11, <1>12, <1>13, <1>14,
       <1>15, <1>16, <1>17 DEF Next, Operator, Reconcile

\* The types of the Services, of the copies of the status and of the lists:
\* lists are complete or absent wherever they are published.
THEOREM ServicesTyped == Spec => []TypeOK
<1>1. TypeInv => TypeOK
    BY DEF TypeInv
<1> QED
    BY <1>1, TypeInit, TypeNext, PTL DEF Spec

-----------------------------------------------------------------------------
(* The order of a new port *)

\* The ports are numbers, of Services and lists that are absent too.
LEMMA PortTypes ==
    ASSUME TypeInv
    PROVE /\ {tbc.port, cTbc.port, me.port} \subseteq Ports
          /\ {configMap.port, template.port} \subseteq Ports \union {0}
          /\ \A i \in Ordinals : svc[i].port \in Ports \union {0} /\ pods[i].port \in Ports \union {0}
          /\ Ports \subseteq Nat
<1>1. {tbc.port, cTbc.port, me.port} \subseteq Ports
    BY DEF TypeInv, TypeOK, Clusters
<1>2. {configMap.port, template.port} \subseteq Ports \union {0}
    BY ListTypes DEF TypeInv, TypeOK
<1>3. \A i \in Ordinals : svc[i].port \in Ports \union {0} /\ pods[i].port \in Ports \union {0}
    BY DEF TypeInv, TypeOK, Services, NoService, PodLists
<1> QED
    BY <1>1, <1>2, <1>3 DEF Ports

\* At first every port is the first one, or absent.
LEMMA OrderInit == Init => OrderInv
BY TypeInit DEF Init, OrderInv, CopiesInOrder, Forwarded, SwitchesInOrder, NoList, NoService,
    NewCluster

\* OrderInv is inductive: a call applies its port to every Service before it
\* publishes it to clients, and to clients before it does to replicas.
LEMMA OrderNext == OrderInv /\ [Next]_vars => OrderInv'
<1> SUFFICES ASSUME OrderInv, [Next]_vars PROVE OrderInv'
    OBVIOUS
<1>1. TypeInv'
    BY TypeNext DEF OrderInv
<1>2. TypeInv /\ k \in 0 .. N
    BY DEF OrderInv, TypeInv, TypeOK
<1> SUFFICES CopiesInOrder' /\ Forwarded' /\ SwitchesInOrder'
    BY <1>1 DEF OrderInv
<1>3. CopiesInOrder /\ Forwarded /\ SwitchesInOrder
    BY DEF OrderInv
<1> USE <1>2, <1>3, PortTypes DEF CopiesInOrder, Forwarded, SwitchesInOrder
<1>4. CASE BeginReconcile
    BY <1>4, NAssumption DEF BeginReconcile, live, Ordinals
<1>5. CASE ApplyService
    <2>1. /\ k \in Ordinals /\ svc'[k].port = me.port
          /\ svc' = [svc EXCEPT ![k] = svc'[k]] /\ k' = k + 1
        BY <1>5, ApplyEffect
    <2>2. \A i \in Ordinals \ {k} : svc'[i] = svc[i]
        BY <2>1 DEF TypeInv, TypeOK
    <2>3. pc = "services" /\ pc' = pc /\ UNCHANGED <<tbc, cTbc, me, configMap, template, pods>>
        BY <1>5 DEF ApplyService, cache
    <2>4. \A i \in Ordinals \ {k} : i < k' => i < k
        BY <2>1 DEF Ordinals
    <2> QED
        BY <2>1, <2>2, <2>3, <2>4
<1>6. CASE ServiceRejected \/ PatchStatus \/ ApiError
    <2>1. /\ UNCHANGED <<svc, configMap, template, pods, cTbc, me>>
          /\ tbc'.port = tbc.port /\ pc' = "idle"
        <3>1. RejectedStalls \in BOOLEAN
            BY DEF RejectedStalls, Repins
        <3> QED
            BY <1>6, <3>1, FinishPatches DEF ServiceRejected, PatchStatus, ApiError
    <2> QED
        BY <2>1
<1>7. CASE ApplyConfigMap
    <2>1. /\ configMap'.port = me.port /\ pc = "services" /\ k = N /\ pc' = "statefulSet"
          /\ UNCHANGED <<svc, tbc, cTbc, me, template, pods, k>>
        BY <1>7 DEF ApplyConfigMap, Addresses, cache
    <2>2. \A i \in Ordinals : i < k
        BY <2>1, NAssumption DEF Ordinals
    <2> QED
        BY <2>1, <2>2
<1>8. CASE ApplyStatefulSet
    <2>1. /\ template'.port = me.port /\ pc = "statefulSet" /\ pc' = "done"
          /\ UNCHANGED <<svc, tbc, cTbc, me, configMap, pods, k>>
        BY <1>8 DEF ApplyStatefulSet, Addresses, cache
    <2> QED
        BY <2>1
<1>9. CASE StatusPatchFails \/ Crash
    BY <1>9 DEF StatusPatchFails, Crash, live
<1>10. CASE SyncServices \/ SyncCluster
    BY <1>10 DEF SyncServices, SyncCluster, live, rec
<1>11. ASSUME NEW i \in Ordinals, StartReplica(i)
       PROVE CopiesInOrder' /\ Forwarded' /\ SwitchesInOrder'
    <2>1. /\ pods'[i].port = template.port /\ \A j \in Ordinals \ {i} : pods'[j] = pods[j]
          /\ UNCHANGED <<svc, tbc, cTbc, me, configMap, template, pc, k>>
        <3>1. LocalAddresses(template, i).port = template.port
            BY <1>11, LocalType DEF StartReplica, TypeInv, TypeOK
        <3> QED
            BY <1>11, <3>1 DEF StartReplica, TypeInv, cache, rec
    <2> QED
        BY <2>1
<1>12. ASSUME NEW i \in Ordinals, DeleteService(i)
       PROVE CopiesInOrder' /\ Forwarded' /\ SwitchesInOrder'
    <2>1. /\ svc'[i] = NoService /\ \A j \in Ordinals \ {i} : svc'[j] = svc[j]
          /\ UNCHANGED <<pods, tbc, cTbc, me, configMap, template, pc, k>>
        BY <1>12 DEF DeleteService, TypeInv, TypeOK, cache, rec
    <2> QED
        BY <2>1
<1>13. CASE EditSpec
    <2>1. tbc'.port = tbc.port + 1 /\ UNCHANGED <<svc, pods, cTbc, me, configMap, template, pc, k>>
        <3>1. tbc \in Clusters
            BY DEF TypeInv, TypeOK
        <3> QED
            BY <1>13, <3>1 DEF EditSpec, Clusters, cache, rec
    <2> QED
        BY <2>1
<1>14. ASSUME NEW ip \in IPs, TakeIP(ip) \/ ReleaseIP(ip)
       PROVE CopiesInOrder' /\ Forwarded' /\ SwitchesInOrder'
    BY <1>14 DEF TakeIP, ReleaseIP, cache, rec
<1>15. CASE UNCHANGED vars
    BY <1>15 DEF vars, live, cache, rec
<1> QED
    BY <1>4, <1>5, <1>6, <1>7, <1>8, <1>9, <1>10, <1>11, <1>12, <1>13, <1>14, <1>15
    DEF Next, Operator, Reconcile

\* A new port reaches Services, clients and replicas in this order, whatever
\* fails in between and however often a Service is made anew.
THEOREM PortSwitchesInOrder == Spec => []SwitchesInOrder
<1>1. OrderInv => SwitchesInOrder
    BY DEF OrderInv
<1> QED
    BY <1>1, OrderInit, OrderNext, PTL DEF Spec

-----------------------------------------------------------------------------
(* The addresses that are kept *)

\* What a step must not do: remember an IP that nothing remembered before,
\* take a Service away, or forget what the status recalls.
Remembers ==
    /\ \A i \in Ordinals : Records(i)' \subseteq Records(i)
    /\ \A i \in Ordinals : svc'[i] = NoService => svc[i] = NoService
    /\ tbc'.ips = tbc.ips \/ Complete(tbc'.ips)
    /\ cTbc' \in {cTbc, tbc}
    /\ pc' = "services" => (pc = "services" /\ me' = me) \/ me' = cTbc

\* Such a step keeps the IPs of the replicas known, each as the only one.
LEMMA RememberedStays ==
    ASSUME OneIP, Recalled, Remembers
    PROVE OneIP' /\ Recalled'
<1>1. OneIP'
    BY DEF OneIP, Remembers
<1>2. ASSUME NEW i \in Ordinals, svc'[i] = NoService, Records(i)' # {}
      PROVE /\ tbc'.ips[i] # None /\ cTbc'.ips[i] # None
            /\ pc' = "services" => me'.ips[i] # None
    <2>1. /\ tbc.ips[i] # None /\ cTbc.ips[i] # None
          /\ pc = "services" => me.ips[i] # None
        BY <1>2 DEF Recalled, Remembers
    <2> QED
        BY <2>1 DEF Remembers, Complete
<1> QED
    BY <1>1, <1>2 DEF Recalled

\* At first no IP has been given to anybody.
LEMMA RecallInit == Init => RecallInv
<1> SUFFICES ASSUME Init PROVE RecallInv
    OBVIOUS
<1>1. \A i \in Ordinals : Records(i) = {}
    BY DEF Init, Records, NoService, NoList, NewCluster, Unknown
<1> QED
    BY <1>1, TypeInit DEF RecallInv, OneIP, Recalled

\* A call applies a Service with the only IP on record, or with a free one if
\* there is none on record.
LEMMA ApplyRecalls ==
    ASSUME RecallInv, ApplyService
    PROVE OneIP' /\ Recalled'
<1> USE DEF RecallInv, TypeInv, TypeOK
<1>0. PICK r \in Ordinals : r = k
    BY ApplyEffect
<1>1. /\ k \in Ordinals /\ svc' = [svc EXCEPT ![k] = svc'[k]] /\ svc'[k] # NoService
      /\ svc[k] # NoService => svc'[k].ip = svc[k].ip
      /\ svc[k] = NoService /\ Pinned # None => svc'[k].ip = Pinned
      /\ ips' = [ips EXCEPT ![k] = svc'[k].ip]
    BY ApplyEffect
<1>2. /\ pc = "services" /\ pc' = pc
      /\ UNCHANGED <<tbc, cTbc, me, cSvc, configMap, template>>
    BY DEF ApplyService, cache
<1>3. \A i \in Ordinals \ {r} : svc'[i] = svc[i] /\ ips'[i] = ips[i]
    BY <1>0, <1>1 DEF IPLists
<1>4. ips'[r] = svc'[r].ip
    BY <1>0, <1>1 DEF IPLists
<1>5. \A i \in Ordinals \ {r} : Records(i)' = Records(i)
    BY <1>2, <1>3 DEF Records
<1>6. Records(r)' \subseteq Records(r) \union {svc'[r].ip}
    BY <1>2, <1>4 DEF Records
<1>7. CASE svc'[r].ip \in Records(r)
    <2>1. Remembers
        BY <1>0, <1>1, <1>2, <1>3, <1>5, <1>6, <1>7 DEF Remembers
    <2> QED
        BY <2>1, RememberedStays
<1>8. CASE svc'[r].ip \notin Records(r)
    <2>1. svc'[r].ip # None
        BY <1>0, <1>1, ApplyEffect, IPsAssumption DEF Services
    <2>2. svc[r] = NoService
        BY <1>0, <1>1, <1>8, <2>1 DEF Records
    <2>3. Pinned = None
        <3>1. Pinned \in {cSvc[r], me.ips[r]}
            BY <1>0 DEF Pinned
        <3> QED
            BY <1>0, <1>1, <1>8, <2>1, <2>2, <3>1 DEF Records
    <2>4. me.ips[r] = None
        BY <1>0, <2>3 DEF Pinned, Repins
    <2>5. Records(r) = {}
        BY <1>0, <1>1, <1>2, <2>2, <2>4 DEF Recalled
    <2>6. OneIP'
        BY <1>5, <1>6, <2>5 DEF OneIP
    <2>7. Recalled'
        BY <1>0, <1>1, <1>2, <1>3, <1>5 DEF Recalled
    <2> QED
        BY <2>6, <2>7
<1> QED
    BY <1>7, <1>8

\* RecallInv is inductive if Services are only deleted once the operator has
\* read their IPs in the status.
LEMMA RecallNext ==
    ASSUME "StatusSeen" \in Assumed
    PROVE RecallInv /\ [Next]_vars => RecallInv'
<1> SUFFICES ASSUME RecallInv, [Next]_vars PROVE OneIP' /\ Recalled'
    BY TypeNext DEF RecallInv
<1>0. TypeInv /\ OneIP /\ Recalled
    BY DEF RecallInv
<1>1. CASE BeginReconcile
    <2>1. /\ me' = cTbc /\ ips' = Unknown
          /\ UNCHANGED <<svc, cSvc, tbc, cTbc, configMap, template>>
        BY <1>1 DEF BeginReconcile, live
    <2>2. Remembers
        BY <2>1 DEF Remembers, Records, Unknown
    <2> QED
        BY <1>0, <2>2, RememberedStays
<1>2. CASE ApplyService
    BY <1>2, ApplyRecalls
<1>3. CASE ServiceRejected \/ PatchStatus \/ ApiError
    <2>1. /\ UNCHANGED <<svc, configMap, template, cSvc, cTbc, me, ips>> /\ pc' = "idle"
          /\ tbc'.ips = tbc.ips \/ (tbc'.ips = ips /\ Complete(ips))
        <3>1. RejectedStalls \in BOOLEAN
            BY DEF RejectedStalls, Repins
        <3> QED
            BY <1>0, <1>3, <3>1, FinishPatches DEF ServiceRejected, PatchStatus, ApiError
    <2>2. Remembers
        BY <2>1 DEF Remembers, Records
    <2> QED
        BY <1>0, <2>2, RememberedStays
<1>4. CASE ApplyConfigMap \/ ApplyStatefulSet
    <2>1. /\ UNCHANGED <<svc, cSvc, tbc, cTbc, me, ips>> /\ pc' # "services"
          /\ {configMap'.ips, template'.ips} \subseteq {configMap.ips, template.ips, ips}
        BY <1>4 DEF ApplyConfigMap, ApplyStatefulSet, Addresses, cache
    <2>2. Remembers
        BY <2>1 DEF Remembers, Records
    <2> QED
        BY <1>0, <2>2, RememberedStays
<1>5. CASE StatusPatchFails
    <2>1. /\ UNCHANGED <<svc, cSvc, tbc, cTbc, me, ips, configMap, template>> /\ pc' = "idle"
        BY <1>5 DEF StatusPatchFails, live
    <2>2. Remembers
        BY <2>1 DEF Remembers, Records
    <2> QED
        BY <1>0, <2>2, RememberedStays
<1>6. CASE Crash \/ SyncServices \/ SyncCluster
    <2>1. /\ UNCHANGED <<svc, tbc, me, ips, configMap, template>> /\ cTbc' \in {cTbc, tbc}
          /\ cSvc' \in {cSvc, LiveIPs} /\ (pc' = pc \/ pc' = "idle")
        BY <1>6 DEF Crash, SyncServices, SyncCluster, live, rec
    <2>2. \A i \in Ordinals : Records(i)' \subseteq Records(i)
        BY <2>1 DEF Records, LiveIPs
    <2>3. Remembers
        BY <2>1, <2>2 DEF Remembers
    <2> QED
        BY <1>0, <2>3, RememberedStays
<1>7. ASSUME NEW i \in Ordinals, StartReplica(i) PROVE OneIP' /\ Recalled'
    <2>1. Remembers
        BY <1>7 DEF StartReplica, Remembers, Records, cache, rec
    <2> QED
        BY <1>0, <2>1, RememberedStays
<1>8. ASSUME NEW i \in Ordinals, DeleteService(i) PROVE OneIP' /\ Recalled'
    <2>1. /\ svc'[i] = NoService /\ \A j \in Ordinals \ {i} : svc'[j] = svc[j]
          /\ UNCHANGED <<cSvc, tbc, cTbc, me, ips, configMap, template, pc>>
        BY <1>0, <1>8 DEF DeleteService, TypeInv, TypeOK, cache, rec
    <2>2. /\ tbc.ips[i] # None /\ cTbc.ips[i] # None
          /\ pc = "services" => me.ips[i] # None
        <3>1. svc[i].ip # None
            BY <1>0, <1>8, IPsAssumption DEF DeleteService, TypeInv, TypeOK, Services
        <3> QED
            BY <1>8, <3>1 DEF DeleteService
    <2>3. \A j \in Ordinals : Records(j)' \subseteq Records(j)
        BY <2>1 DEF Records, NoService
    <2>4. OneIP'
        BY <1>0, <2>3 DEF OneIP
    <2>5. Recalled'
        BY <1>0, <2>1, <2>2, <2>3 DEF Recalled
    <2> QED
        BY <2>4, <2>5
<1>9. CASE EditSpec
    <2>1. /\ tbc'.ips = tbc.ips
          /\ UNCHANGED <<svc, cSvc, cTbc, me, ips, configMap, template, pc>>
        <3>1. tbc \in Clusters
            BY <1>0 DEF TypeInv, TypeOK
        <3> QED
            BY <1>9, <3>1 DEF EditSpec, Clusters, cache, rec
    <2>2. Remembers
        BY <2>1 DEF Remembers, Records
    <2> QED
        BY <1>0, <2>2, RememberedStays
<1>10. ASSUME NEW ip \in IPs, TakeIP(ip) \/ ReleaseIP(ip) PROVE OneIP' /\ Recalled'
    <2>1. Remembers
        BY <1>10 DEF TakeIP, ReleaseIP, Remembers, Records, cache, rec
    <2> QED
        BY <1>0, <2>1, RememberedStays
<1>11. CASE UNCHANGED vars
    <2>1. Remembers
        BY <1>11 DEF vars, live, cache, rec, Remembers, Records
    <2> QED
        BY <1>0, <2>1, RememberedStays
<1> QED
    BY <1>1, <1>2, <1>3, <1>4, <1>5, <1>6, <1>7, <1>8, <1>9, <1>10, <1>11
    DEF Next, Operator, Reconcile

\* A list of addresses is published again with the IPs it had: those that the
\* call has collected are on record, and so are those of the list.
LEMMA ListKept ==
    ASSUME RecallInv, NEW list \in Lists, Complete(ips),
           \A i \in Ordinals : list.ips[i] # None => list.ips[i] \in Records(i)
    PROVE list.ips = ips
<1>1. list.ips \in IPLists /\ Complete(list.ips) /\ ips \in IPLists
    BY ListTypes DEF RecallInv, TypeInv, TypeOK
<1>2. ASSUME NEW i \in Ordinals PROVE list.ips[i] = ips[i]
    <2>1. list.ips[i] \in Records(i) /\ ips[i] \in Records(i)
        BY <1>1 DEF Complete, Records
    <2> QED
        BY <2>1 DEF RecallInv, OneIP
<1> QED
    BY <1>1, <1>2 DEF IPLists

\* No step publishes other IPs than those that clients and replicas have.
LEMMA PublishesTheSame ==
    ASSUME RecallInv, [Next]_vars
    PROVE /\ configMap # NoList => configMap'.ips = configMap.ips
          /\ template # NoList => template'.ips = template.ips
<1>1. CASE ApplyConfigMap
    <2>1. Complete(ips) /\ configMap'.ips = ips /\ template' = template
        BY <1>1 DEF ApplyConfigMap, RecallInv, TypeInv, Collected, Complete, Ordinals, Addresses,
            TypeOK
    <2>2. ASSUME configMap # NoList PROVE configMap.ips = ips
        BY <2>1, <2>2, ListKept DEF RecallInv, TypeInv, TypeOK, Records
    <2> QED
        BY <2>1, <2>2
<1>2. CASE ApplyStatefulSet
    <2>1. Complete(ips) /\ template'.ips = ips /\ configMap' = configMap
        BY <1>2 DEF ApplyStatefulSet, RecallInv, TypeInv, Collected, Complete, Ordinals, Addresses,
            TypeOK
    <2>2. ASSUME template # NoList PROVE template.ips = ips
        BY <2>1, <2>2, ListKept DEF RecallInv, TypeInv, TypeOK, Records
    <2> QED
        BY <2>1, <2>2
<1>3. CASE ~ApplyConfigMap /\ ~ApplyStatefulSet
    <2>1. UNCHANGED <<configMap, template>>
        BY <1>3 DEF Next, Operator, Reconcile, BeginReconcile, ApplyService, ServiceRejected,
            PatchStatus, ApiError, StatusPatchFails, Crash, SyncServices, SyncCluster, EditSpec,
            StartReplica, DeleteService, TakeIP, ReleaseIP, vars, live
    <2> QED
        BY <2>1
<1> QED
    BY <1>1, <1>2, <1>3

\* The IPs that clients and replicas are given never change, if Services are
\* only deleted once the operator has read their IPs in the status.
THEOREM AddressesAreKept ==
    ASSUME "StatusSeen" \in Assumed
    PROVE Spec => AddressesKept
<1>1. RecallInv /\ [Next]_vars =>
        [ /\ configMap # NoList => configMap'.ips = configMap.ips
          /\ template # NoList => template'.ips = template.ips ]_vars
    BY PublishesTheSame
<1> QED
    BY <1>1, RecallInit, RecallNext, PTL DEF Spec, AddressesKept
===============================================================================
