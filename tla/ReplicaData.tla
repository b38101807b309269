----------------------------- MODULE ReplicaData -----------------------------
(***************************************************************************)
(* What the operator promises about the data files of one TigerBeetle      *)
(* cluster, whatever the API server, the operator and its users do:        *)
(* a data file is made by formatting only for a replica that has never run *)
(* on the data that is still around.  A replica that has run may have      *)
(* acknowledged transfers; handing it an empty file would make it forget   *)
(* them and could break the quorum's durability.                           *)
(***************************************************************************)
CONSTANT Ordinals       \* the replicas this cluster runs in Kubernetes

VARIABLES
    file,               \* what each volume holds: no data file, one that was
                        \* formatted and never run on, or one with data
    ran                 \* the ordinals that may have run since the last time
                        \* no data file existed at all

vars == <<file, ran>>

Contents == {"none", "formatted", "data"}

Lost == \A i \in Ordinals : file[i] = "none"

TypeOK == file \in [Ordinals -> Contents] /\ ran \subseteq Ordinals

\* A cluster starts with nothing, or on volumes restored from an older one.
Init ==
    /\ file \in [Ordinals -> {"none", "data"}]
    /\ ran = IF Lost THEN {} ELSE Ordinals

\* `tigerbeetle format`: an empty replica.
Format(i) ==
    /\ file[i] = "none"
    /\ i \notin ran
    /\ file' = [file EXCEPT ![i] = "formatted"]
    /\ UNCHANGED ran

\* `tigerbeetle start`: only ever on an existing data file.
Start(i) ==
    /\ file[i] # "none"
    /\ file' = [file EXCEPT ![i] = "data"]
    /\ ran' = ran \union {i}

\* `tigerbeetle recover`: rebuild a lost file out of every other replica.
Recover(i) ==
    /\ file[i] = "none"
    /\ Ordinals # {i}
    /\ \A j \in Ordinals \ {i} : file[j] = "data" /\ j \in ran
    /\ file' = [file EXCEPT ![i] = "data"]
    /\ UNCHANGED ran

\* A volume or its PVC is lost.  With the last file the cluster is gone, and
\* whatever comes after starts afresh.
Lose(i) ==
    /\ file[i] # "none"
    /\ file' = [file EXCEPT ![i] = "none"]
    /\ ran' = IF Lost' THEN {} ELSE ran

\* A volume comes back from a backup: any replica may have run on that data.
Restore(i) ==
    /\ file[i] = "none"
    /\ file' = [file EXCEPT ![i] = "data"]
    /\ ran' = Ordinals

Next == \E i \in Ordinals :
    Format(i) \/ Start(i) \/ Recover(i) \/ Lose(i) \/ Restore(i)

Spec == Init /\ [][Next]_vars
=============================================================================
