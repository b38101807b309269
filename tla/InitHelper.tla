------------------------------ MODULE InitHelper ------------------------------
(***************************************************************************)
(* The init helper on one data volume (cmd/init): the format pods of a     *)
(* replica's bootstrap Job, and after it the replica's own pod, whose      *)
(* recover init container precedes `tigerbeetle start`.                    *)
(*                                                                         *)
(* The volume's directory has two entries: the data file and what          *)
(* runToFile writes before it renames it into place.  An entry is 0 when   *)
(* absent, else the number of the file it names: a command goes on writing *)
(* its file when the entry has been removed or renamed under it.  Of       *)
(* TigerBeetle this assumes that format and recover create their file      *)
(* anew, and have written it to disk when they succeed.                    *)
(*                                                                         *)
(* A format pod that fails is replaced by its Job until BackoffLimit is    *)
(* exceeded; then a user has to delete the Job, and the bootstrap makes    *)
(* another one (Bootstrap).                                                *)
(*                                                                         *)
(* A replica's container that ends is restarted in its pod, without the    *)
(* init container before it.  Left out: the wait for an approval (a delay  *)
(* here, see Recovery), and a volume that is lost while it is in use.      *)
(***************************************************************************)
EXTENDS Integers, FiniteSets

CONSTANTS
    Pods,           \* the pods that may run on the volume at a time
    ReplicaCount,   \* TB_REPLICA_COUNT
    MaxFiles,       \* bound: files created
    MaxFaults,      \* bound: faults of a behaviour
    Faults          \* which of them happen:
                    \* "fail"     a command fails
                    \* "sync"     a sync of the directory fails
                    \* "kill"     a pod is killed in the middle of anything
                    \* "stop"     a pod is told to stop (SIGTERM)
                    \* "power"    the node loses power, and with it what is
                    \*            not synced
                    \* "volume"   the volume is lost between two pods
                    \* "overlap"  a format pod is replaced while it is still
                    \*            terminating, and both run on the volume

ASSUME ReplicaCountAssumption == ReplicaCount \in Nat \ {0}
ASSUME BoundsAssumption == MaxFiles \in Nat /\ MaxFaults \in Nat
ASSUME FaultsAssumption ==
    Faults \subseteq {"fail", "sync", "kill", "stop", "power", "volume", "overlap"}

VARIABLES
    path, tmp,      \* the directory: the data file, and path + ".partial"
    disk,           \* the directory as it is on disk
    content,        \* what each file holds
    last,           \* the last file created
    pc, mode, out,  \* per pod: the next step, the subcommand, the file it writes
    told,           \* the pods that have been told to stop
    failures,       \* the format Job's failed pods
    bootstrapped,   \* some format pod has succeeded
    unsynced,       \* history: a pod has ended between its rename and its
                    \* sync, and nothing was synced since
    faults

vars == <<path, tmp, disk, content, last, pc, mode, out, told, failures, bootstrapped,
          unsynced, faults>>

Files == 1 .. MaxFiles
Stages == {"off", "exists", "remove", "run", "writing", "failed", "rename",
           "sync", "start", "child", "serving", "stopping", "lost"}
Contents == {"nothing", "partial", "whole", "data"}

BackoffLimit == 3

\* A file has one name at most.
TypeOK ==
    /\ path \in 0 .. last /\ tmp \in 0 .. last /\ (tmp = path => tmp = 0)
    /\ disk \in [path : {0} \union Files, tmp : {0} \union Files]
    /\ content \in [Files -> Contents] /\ last \in {0} \union Files
    /\ pc \in [Pods -> Stages] /\ mode \in [Pods -> {"format", "replica"}]
    /\ out \in [Pods -> {0} \union Files] /\ told \subseteq Pods
    /\ failures \in 0 .. BackoffLimit + 1
    /\ bootstrapped \in BOOLEAN /\ unsynced \in BOOLEAN /\ faults \in 0 .. MaxFaults

Init ==
    /\ path = 0 /\ tmp = 0 /\ disk = [path |-> 0, tmp |-> 0]
    /\ content = [f \in Files |-> "nothing"] /\ last = 0
    /\ pc = [p \in Pods |-> "off"] /\ mode = [p \in Pods |-> "format"]
    /\ out = [p \in Pods |-> 0] /\ told = {} /\ failures = 0
    /\ bootstrapped = FALSE /\ unsynced = FALSE /\ faults = 0

-----------------------------------------------------------------------------
(* Steps of a pod *)

Goto(p, stage) == pc' = [pc EXCEPT ![p] = stage]

Fault(kind) == kind \in Faults /\ faults < MaxFaults /\ faults' = faults + 1

\* Past its backoffLimit the Job makes no more pods.
JobFailed == ~bootstrapped /\ failures > BackoffLimit
Counted == IF failures > BackoffLimit THEN failures ELSE failures + 1

\* A pod ends without success; if it is the Job's, the Job counts it.
PodEnds(p) ==
    /\ Goto(p, "off")
    /\ failures' = IF mode[p] = "format" THEN Counted ELSE failures

RunFails_Once(p) ==             \* recover waits for ever after a failure
    \/ mode[p] = "format" /\ PodEnds(p)
    \/ mode[p] = "replica" /\ UNCHANGED <<pc, failures>>

\* runToFile returned an error: format exits with it, recoverReplica tries again.
RunFails(p) ==
    \/ mode[p] = "format" /\ PodEnds(p)
    \/ mode[p] = "replica" /\ Goto(p, "remove") /\ UNCHANGED failures

\* runToFile returned: format has succeeded, the replica's pod goes on.
Done(p) ==
    /\ Goto(p, IF mode[p] = "format" THEN "off" ELSE "start")
    /\ bootstrapped' = (bootstrapped \/ mode[p] = "format")

\* The Job controller keeps one format pod until one succeeds or too many have
\* failed, and may replace it while it is terminating; the StatefulSet controller
\* runs at most one replica pod, and only after the bootstrap.
Launch(p) ==
    /\ pc[p] = "off" /\ ~JobFailed
    /\ mode' = [mode EXCEPT ![p] = IF bootstrapped THEN "replica" ELSE "format"]
    /\ \A q \in Pods \ {p} :
         pc[q] = "off" \/ ("overlap" \in Faults /\ mode[q] = "format")
    /\ Goto(p, "exists") /\ told' = told \ {p}
    /\ UNCHANGED <<path, tmp, disk, content, last, out, failures, bootstrapped, unsynced, faults>>

CheckExists_Bug(p) ==           \* recover does not look for the data file
    /\ pc[p] = "exists"
    /\ IF mode[p] = "format" /\ path # 0 THEN Done(p)
       ELSE Goto(p, "remove") /\ UNCHANGED bootstrapped
    /\ UNCHANGED <<path, tmp, disk, content, last, mode, out, told,
                   failures, unsynced, faults>>

\* format skips an existing data file; recover leaves it alone, and the only
\* replica of a cluster has nobody to recover from.
CheckExists(p) ==
    /\ pc[p] = "exists"
    /\ \/ path # 0 /\ Done(p)
       \/ /\ path = 0 /\ UNCHANGED bootstrapped
          /\ Goto(p, IF mode[p] = "replica" /\ ReplicaCount = 1 THEN "lost" ELSE "remove")
    /\ UNCHANGED <<path, tmp, disk, content, last, mode, out, told,
                   failures, unsynced, faults>>

RemovePartial_Keeps(p) ==       \* what an earlier run left stays
    /\ pc[p] = "remove"
    /\ Goto(p, "run")
    /\ UNCHANGED <<path, tmp, disk, content, last, mode, out, told,
                   failures, bootstrapped, unsynced, faults>>

\* runToFile: what an earlier run left is removed.
RemovePartial(p) ==
    /\ pc[p] = "remove"
    /\ tmp' = 0
    /\ Goto(p, "run")
    /\ UNCHANGED <<path, disk, content, last, mode, out, told,
                   failures, bootstrapped, unsynced, faults>>

StartCommand(p) ==
    /\ pc[p] = "run"
    /\ \/ tmp # 0 /\ Goto(p, "failed") /\ UNCHANGED <<tmp, content, last, out>>
       \/ /\ tmp = 0 /\ last < MaxFiles
          /\ tmp' = last + 1 /\ last' = last + 1
          /\ content' = [content EXCEPT ![last + 1] = "partial"]
          /\ out' = [out EXCEPT ![p] = last + 1]
          /\ Goto(p, "writing")
    /\ UNCHANGED <<path, disk, mode, told, failures, bootstrapped, unsynced, faults>>

CommandSucceeds(p) ==
    /\ pc[p] = "writing"
    /\ content' = [content EXCEPT ![out[p]] = IF @ = "data" THEN @ ELSE "whole"]
    /\ Goto(p, "rename")
    /\ UNCHANGED <<path, tmp, disk, last, mode, out, told,
                   failures, bootstrapped, unsynced, faults>>

CommandFails_Bug(p) ==          \* the exit code of the command is ignored
    /\ pc[p] = "writing"
    /\ Goto(p, "rename")
    /\ Fault("fail")
    /\ UNCHANGED <<path, tmp, disk, content, last, mode, out, told,
                   failures, bootstrapped, unsynced>>

CommandFails(p) ==
    /\ pc[p] = "writing"
    /\ Goto(p, "failed")
    /\ Fault("fail")
    /\ UNCHANGED <<path, tmp, disk, content, last, mode, out, told,
                   failures, bootstrapped, unsynced>>

\* What the failed command left is removed.
CleanUp(p) ==
    /\ pc[p] = "failed"
    /\ tmp' = 0
    /\ RunFails(p)
    /\ UNCHANGED <<path, disk, content, last, mode, out, told,
                   bootstrapped, unsynced, faults>>

Rename_Bug(p) ==                \* linked into place, not renamed
    /\ pc[p] = "rename"
    /\ \/ tmp = 0 /\ RunFails(p) /\ UNCHANGED path
       \/ tmp # 0 /\ path' = tmp /\ Goto(p, "sync") /\ UNCHANGED failures
    /\ UNCHANGED <<tmp, disk, content, last, mode, out, told,
                   bootstrapped, unsynced, faults>>

\* Whatever the temporary entry names by now takes the place of the data file.
Rename(p) ==
    /\ pc[p] = "rename"
    /\ \/ tmp = 0 /\ RunFails(p) /\ UNCHANGED <<path, tmp>>
       \/ tmp # 0 /\ path' = tmp /\ tmp' = 0 /\ Goto(p, "sync") /\ UNCHANGED failures
    /\ UNCHANGED <<disk, content, last, mode, out, told,
                   bootstrapped, unsynced, faults>>

SyncDir_Bug(p) ==               \* the directory is not synced
    /\ pc[p] = "sync"
    /\ Done(p)
    /\ UNCHANGED <<path, tmp, disk, content, last, mode, out, told,
                   failures, unsynced, faults>>

SyncDir(p) ==
    /\ pc[p] = "sync"
    /\ disk' = [path |-> path, tmp |-> tmp] /\ unsynced' = FALSE
    /\ Done(p)
    /\ UNCHANGED <<path, tmp, content, last, mode, out, told, failures, faults>>

\* The error of the sync is the error of runToFile, the rename stays.
SyncFails(p) ==
    /\ pc[p] = "sync"
    /\ RunFails(p)
    /\ Fault("sync")
    /\ unsynced' = TRUE
    /\ UNCHANGED <<path, tmp, disk, content, last, mode, out, told, bootstrapped>>

\* `tigerbeetle start` on the data file, if there is one, as a child.
Start(p) ==
    /\ pc[p] = "start" /\ path # 0
    /\ content' = [content EXCEPT ![path] = "data"]
    /\ Goto(p, "child")
    /\ UNCHANGED <<path, tmp, disk, last, mode, out, told,
                   failures, bootstrapped, unsynced, faults>>

\* From here on signals are forwarded.
Notify(p) ==
    /\ pc[p] = "child"
    /\ Goto(p, "serving")
    /\ UNCHANGED <<path, tmp, disk, content, last, mode, out, told,
                   failures, bootstrapped, unsynced, faults>>

\* The child has got the signal and ends, and the helper ends with it.
Forward(p) ==
    /\ pc[p] = "stopping"
    /\ Goto(p, "off")
    /\ UNCHANGED <<path, tmp, disk, content, last, mode, out, told,
                   failures, bootstrapped, unsynced, faults>>

\* TigerBeetle ends by itself and the helper with it.  The kubelet restarts
\* the container, without the init container before it.
ChildEnds(p) ==
    /\ pc[p] \in {"child", "serving", "stopping"}
    /\ Goto(p, IF p \in told THEN "off" ELSE "start")
    /\ Fault("fail")
    /\ UNCHANGED <<path, tmp, disk, content, last, mode, out, told,
                   failures, bootstrapped, unsynced>>

Kill(p) ==
    /\ pc[p] # "off"
    /\ PodEnds(p)
    /\ Fault("kill")
    /\ unsynced' = (unsynced \/ pc[p] = "sync")
    /\ UNCHANGED <<path, tmp, disk, content, last, mode, out, told, bootstrapped>>

Stop_Bug(p) ==          \* a helper that has a child ignores what it does not forward
    /\ pc[p] # "off" /\ p \notin told
    /\ told' = told \union {p}
    /\ \/ pc[p] = "serving" /\ Goto(p, "stopping") /\ UNCHANGED failures
       \/ pc[p] = "child" /\ UNCHANGED <<pc, failures>>
       \/ pc[p] \notin {"serving", "child"} /\ PodEnds(p)
    /\ Fault("stop")
    /\ unsynced' = (unsynced \/ pc[p] = "sync")
    /\ UNCHANGED <<path, tmp, disk, content, last, mode, out, bootstrapped>>

\* A signal that is not forwarded ends the helper, and being the first process
\* of its container it takes the child with it.
Stop(p) ==
    /\ pc[p] # "off" /\ p \notin told
    /\ told' = told \union {p}
    /\ \/ pc[p] = "serving" /\ Goto(p, "stopping") /\ UNCHANGED failures
       \/ pc[p] # "serving" /\ PodEnds(p)
    /\ Fault("stop")
    /\ unsynced' = (unsynced \/ pc[p] = "sync")
    /\ UNCHANGED <<path, tmp, disk, content, last, mode, out, bootstrapped>>

\* Everything stops; the directory is as it was, or as it was last synced.
PowerLoss ==
    /\ \/ UNCHANGED <<path, tmp>>
       \/ path' = disk.path /\ tmp' = disk.tmp
    /\ disk' = [path |-> path', tmp |-> tmp']
    /\ pc' = [p \in Pods |-> "off"]
    /\ failures' = IF \E p \in Pods : pc[p] # "off" /\ mode[p] = "format"
                   THEN Counted ELSE failures
    /\ unsynced' = FALSE
    /\ Fault("power")
    /\ UNCHANGED <<content, last, mode, out, told, bootstrapped>>

VolumeLost ==
    /\ path # 0 /\ \A p \in Pods : pc[p] = "off"
    /\ path' = 0 /\ tmp' = 0 /\ disk' = [path |-> 0, tmp |-> 0]
    /\ Fault("volume")
    /\ UNCHANGED <<content, last, pc, mode, out, told,
                   failures, bootstrapped, unsynced>>

\* The user deletes the failed Job, as the Stalled condition asks, and bootstrap
\* makes another one.
DeleteJob ==
    /\ JobFailed
    /\ failures' = 0
    /\ UNCHANGED <<path, tmp, disk, content, last, pc, mode, out, told,
                   bootstrapped, unsynced, faults>>

Run(p) ==
    \/ CheckExists(p) \/ RemovePartial(p) \/ StartCommand(p)
    \/ CommandSucceeds(p) \/ CleanUp(p) \/ Rename(p) \/ SyncDir(p)
    \/ Start(p) \/ Notify(p) \/ Forward(p)

Next ==
    \/ \E p \in Pods :
         \/ Launch(p) \/ Run(p)
         \/ CommandFails(p) \/ SyncFails(p) \/ ChildEnds(p) \/ Kill(p) \/ Stop(p)
    \/ PowerLoss \/ VolumeLost \/ DeleteJob

Spec == Init /\ [][Next]_vars

\* Pods run, and the controllers make them as long as they may; a command that
\* does not fail ends.  Faults owe nothing, nor do users.
FairSpec == Spec /\ WF_vars(\E p \in Pods : Launch(p)) /\ \A p \in Pods : WF_vars(Run(p))

-----------------------------------------------------------------------------
(* Properties *)

\* An interrupted run never leaves something that looks like a real data file:
\* what has the data file's name was written to its end (runToFile).
NeverLooksReal == path # 0 => content[path] \in {"whole", "data"}

\* The data of a replica that has started is never replaced by another file,
\* neither by a format pod nor by recover.
NeverReplaced ==
    [][path # 0 /\ content[path] = "data" => path' \in {0, path}]_vars

\* Losing power cannot take a data file away that a run has reported to be in
\* place: its name is on disk by then (syncDir).  Not if a pod has ended
\* between its rename and its sync: the next one finds the data file and goes
\* on without a sync.
SurvivesPowerLoss ==
    path # 0 /\ ~unsynced => disk.path = path \/ \E p \in Pods : pc[p] = "sync"

\* A pod that is told to stop ends without being killed, whenever it is told:
\* also before start forwards signals, and when TigerBeetle ends just then
\* (start).
StopsWhenTold == \A p \in Pods : p \in told ~> pc[p] = "off"

\* A format pod fails only by a fault of its own, never on what an earlier one
\* has left on the volume: otherwise retries would use up the Job's backoffLimit
\* (runToFile, buildFormatJob).
OnlyFaultsFail == failures <= faults

\* Whatever was killed or failed, in the end the replica serves its data, or it
\* is the only one and has lost it; unless a failed Job is left alone for good.
EventuallyServes ==
    <>[](\E p \in Pods : pc[p] \in {"serving", "lost"}) \/ <>[]JobFailed
=============================================================================
