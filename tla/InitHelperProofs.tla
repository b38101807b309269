--------------------------- MODULE InitHelperProofs ---------------------------
(***************************************************************************)
(* Proofs about the init helper, for every set of pods, every number of    *)
(* replicas, files and faults.                                             *)
(*                                                                         *)
(* Two invariants hold for all Faults, also when two pods run on the       *)
(* volume: TypeOK, and SurvivesPowerLoss with its exemption.  The others   *)
(* need that pods do not overlap: what has the data file's name was        *)
(* written to its end (NeverLooksReal), the data of a replica that has     *)
(* started is never replaced by another file (NeverReplaced), and retries  *)
(* do not fail on what earlier tries left (OnlyFaultsFail).  They follow   *)
(* from FileInv: who is alone on the volume renames the file it has        *)
(* written itself, and only where nothing that was served or synced can be.*)
(***************************************************************************)
EXTENDS InitHelper, TLAPS

\* The directory on disk is as sound as the one in memory: its files exist,
\* and no file has two names.
DiskTyped ==
    /\ disk.path \in 0 .. last /\ disk.tmp \in 0 .. last
    /\ disk.path = disk.tmp => disk.tmp = 0

TypeInv == TypeOK /\ DiskTyped

\* The steps of runToFile.
Making == {"remove", "run", "writing", "failed", "rename", "sync"}

\* Pods do not overlap.
OneAtATime == \A p, q \in Pods : pc[p] # "off" /\ pc[q] # "off" => p = q

\* Whatever has, or may get back, the data file's name was written to its end.
NamesWhole ==
    /\ path # 0 => content[path] \in {"whole", "data"}
    /\ disk.path # 0 => content[disk.path] \in {"whole", "data"}

\* A power loss brings back the data file, or none.
DiskBehind == disk.path \in {0, path}

\* The temporary entry is the file of the pod that writes it.
OwnsPartial ==
    \A p \in Pods :
        /\ pc[p] = "writing" => tmp = out[p] /\ tmp # 0 /\ content[tmp] = "partial"
        /\ pc[p] = "rename" => tmp = out[p] /\ tmp # 0 /\ content[tmp] = "whole"

\* While runToFile runs, no data file is on disk, and one that an earlier try
\* has left without a sync has not been served.
NothingToLose ==
    \A p \in Pods : pc[p] \in Making =>
        /\ disk.path = 0
        /\ path # 0 => content[path] = "whole"

FileInv ==
    /\ TypeInv
    /\ OneAtATime /\ NamesWhole /\ DiskBehind /\ OwnsPartial /\ NothingToLose

\* The steps of one pod, and the two that happen to the volume.
PodStep(p) ==
    \/ Launch(p) \/ Run(p)
    \/ CommandFails(p) \/ SyncFails(p) \/ ChildEnds(p) \/ Kill(p) \/ Stop(p)

-----------------------------------------------------------------------------
(* Types, and power losses *)

\* At first the volume is empty.
LEMMA TypeInit == Init => TypeInv
<1> SUFFICES ASSUME Init PROVE TypeInv
    OBVIOUS
<1>1. DiskTyped /\ path \in 0 .. last /\ tmp \in 0 .. last /\ (tmp = path => tmp = 0)
    BY DEF Init, DiskTyped
<1>2. disk \in [path : {0} \union Files, tmp : {0} \union Files] /\ last \in {0} \union Files
    BY DEF Init
<1>3. /\ content \in [Files -> Contents]
      /\ pc \in [Pods -> Stages] /\ mode \in [Pods -> {"format", "replica"}]
      /\ out \in [Pods -> {0} \union Files] /\ told \subseteq Pods
    <2>1. content \in [Files -> Contents]
        BY DEF Init, Contents
    <2>2. pc \in [Pods -> Stages]
        BY DEF Init, Stages
    <2>3. mode \in [Pods -> {"format", "replica"}]
        BY DEF Init
    <2>4. out \in [Pods -> {0} \union Files] /\ told \subseteq Pods
        BY DEF Init
    <2> QED
        BY <2>1, <2>2, <2>3, <2>4
<1>4. faults \in 0 .. MaxFaults
    BY BoundsAssumption DEF Init
<1>6. failures \in 0 .. BackoffLimit + 1
    BY DEF Init, BackoffLimit
<1>5. bootstrapped \in BOOLEAN /\ unsynced \in BOOLEAN
    BY Zenon DEF Init
<1> QED
    BY <1>1, <1>2, <1>3, <1>4, <1>5, <1>6 DEF TypeInv, TypeOK

\* No step leaves the types, whoever takes it: files are created anew, so no
\* file gets a second name, neither in memory nor on disk.
LEMMA TypeNext == TypeInv /\ [Next]_vars => TypeInv'
<1> SUFFICES ASSUME TypeInv, [Next]_vars PROVE TypeInv'
    OBVIOUS
<1> USE BoundsAssumption DEF TypeInv, TypeOK, DiskTyped, Files, Stages, Contents, BackoffLimit
<1>0. Counted \in 0 .. BackoffLimit + 1
    BY DEF Counted
<1>1. ASSUME NEW p \in Pods, Launch(p) PROVE TypeInv'
    BY <1>1 DEF Launch, Goto
<1>2. ASSUME NEW p \in Pods, CheckExists(p) PROVE TypeInv'
    BY <1>2 DEF CheckExists, Done, Goto
<1>3. ASSUME NEW p \in Pods, RemovePartial(p) PROVE TypeInv'
    BY <1>3 DEF RemovePartial, Goto
<1>4. ASSUME NEW p \in Pods, StartCommand(p) PROVE TypeInv'
    <2>1. pc' \in [Pods -> Stages]
        BY <1>4 DEF StartCommand, Goto
    <2>2. CASE tmp # 0
        BY <1>4, <2>1, <2>2 DEF StartCommand
    <2>3. CASE tmp = 0
        <3>1. last + 1 \in Files /\ tmp' = last + 1 /\ last' = last + 1
            BY <1>4, <2>3 DEF StartCommand
        <3>2. content' \in [Files -> Contents] /\ out' \in [Pods -> {0} \union Files]
            BY <1>4, <2>3, <3>1 DEF StartCommand
        <3> QED
            BY <1>4, <2>1, <3>1, <3>2 DEF StartCommand
    <2> QED
        BY <2>2, <2>3
<1>5. ASSUME NEW p \in Pods, CommandSucceeds(p) PROVE TypeInv'
    BY <1>5 DEF CommandSucceeds, Goto
<1>6. ASSUME NEW p \in Pods, CleanUp(p) PROVE TypeInv'
    BY <1>0, <1>6 DEF CleanUp, RunFails, PodEnds, Goto
<1>7. ASSUME NEW p \in Pods, Rename(p) PROVE TypeInv'
    BY <1>0, <1>7 DEF Rename, RunFails, PodEnds, Goto
<1>8. ASSUME NEW p \in Pods, SyncDir(p) PROVE TypeInv'
    <2>1. disk' \in [path : {0} \union Files, tmp : {0} \union Files] /\ DiskTyped'
        BY <1>8 DEF SyncDir
    <2>2. pc' \in [Pods -> Stages] /\ bootstrapped' \in BOOLEAN /\ unsynced' \in BOOLEAN
        BY <1>8 DEF SyncDir, Done, Goto
    <2> QED
        BY <1>8, <2>1, <2>2 DEF SyncDir
<1>9. ASSUME NEW p \in Pods, Start(p) PROVE TypeInv'
    BY <1>9 DEF Start, Goto
<1>10. ASSUME NEW p \in Pods, Notify(p) \/ Forward(p) PROVE TypeInv'
    BY <1>10 DEF Notify, Forward, Goto
<1>11. ASSUME NEW p \in Pods, CommandFails(p) \/ SyncFails(p) \/ ChildEnds(p) PROVE TypeInv'
    <2>1. /\ UNCHANGED <<path, tmp, disk, content, last, mode, out, told, bootstrapped>>
          /\ unsynced' \in BOOLEAN
        BY <1>11 DEF CommandFails, SyncFails, ChildEnds
    <2>2. pc' \in [Pods -> Stages]
        BY <1>11 DEF CommandFails, SyncFails, ChildEnds, RunFails, PodEnds, Goto
    <2>3. faults' \in 0 .. MaxFaults
        BY <1>11 DEF CommandFails, SyncFails, ChildEnds, Fault
    <2>4. failures' \in 0 .. BackoffLimit + 1
        BY <1>0, <1>11 DEF CommandFails, SyncFails, ChildEnds, RunFails, PodEnds
    <2> QED
        BY <2>1, <2>2, <2>3, <2>4
<1>12. ASSUME NEW p \in Pods, Kill(p) \/ Stop(p) PROVE TypeInv'
    <2>1. /\ UNCHANGED <<path, tmp, disk, content, last, mode, out, bootstrapped>>
          /\ told' \subseteq Pods
        BY <1>12 DEF Kill, Stop
    <2>2. pc' \in [Pods -> Stages]
        BY <1>12 DEF Kill, Stop, PodEnds, Goto
    <2>5. failures' \in 0 .. BackoffLimit + 1
        BY <1>0, <1>12 DEF Kill, Stop, PodEnds
    <2>3. faults' \in 0 .. MaxFaults
        BY <1>12 DEF Kill, Stop, Fault
    <2>4. unsynced' \in BOOLEAN
        BY <1>12, Zenon DEF Kill, Stop
    <2> QED
        BY <2>1, <2>2, <2>3, <2>4, <2>5
<1>13. CASE PowerLoss
    <2>1. /\ UNCHANGED <<content, last, mode, out, told, bootstrapped>>
          /\ unsynced' = FALSE /\ pc' \in [Pods -> Stages] /\ faults' \in 0 .. MaxFaults
          /\ failures' \in 0 .. BackoffLimit + 1
        BY <1>0, <1>13 DEF PowerLoss, Fault
    <2>2. /\ path' \in 0 .. last /\ tmp' \in 0 .. last /\ (tmp' = path' => tmp' = 0)
        BY <1>13 DEF PowerLoss
    <2>3. disk' = [path |-> path', tmp |-> tmp']
        BY <1>13 DEF PowerLoss
    <2>4. disk' \in [path : {0} \union Files, tmp : {0} \union Files] /\ DiskTyped'
        BY <2>1, <2>2, <2>3
    <2> QED
        BY <2>1, <2>2, <2>4
<1>14. CASE VolumeLost
    BY <1>14 DEF VolumeLost, Fault
<1>16. CASE DeleteJob
    BY <1>16 DEF DeleteJob
<1>15. CASE UNCHANGED vars
    BY <1>15 DEF vars
<1> QED
    BY <1>1, <1>2, <1>3, <1>4, <1>5, <1>6, <1>7, <1>8, <1>9, <1>10, <1>11, <1>12,
       <1>13, <1>14, <1>15, <1>16 DEF Next, Run

\* The types of the volume, of its files and of the pods on it.
THEOREM HelperTyped == Spec => []TypeOK
<1>1. TypeInv => TypeOK
    BY DEF TypeInv
<1> QED
    BY <1>1, TypeInit, TypeNext, PTL DEF Spec

\* No step takes a data file from the disk, or the last one off its sync,
\* without noting that a pod has ended before it.
LEMMA PowerNext == TypeInv /\ SurvivesPowerLoss /\ [Next]_vars => SurvivesPowerLoss'
<1> SUFFICES ASSUME TypeInv, SurvivesPowerLoss, [Next]_vars PROVE SurvivesPowerLoss'
    OBVIOUS
<1> USE DEF TypeInv, TypeOK, SurvivesPowerLoss
<1>1. ASSUME NEW p \in Pods, Rename(p) PROVE SurvivesPowerLoss'
    BY <1>1 DEF Rename, RunFails, PodEnds, Goto
<1>2. ASSUME NEW p \in Pods, SyncDir(p) PROVE SurvivesPowerLoss'
    BY <1>2 DEF SyncDir
<1>3. ASSUME NEW p \in Pods, SyncFails(p) PROVE SurvivesPowerLoss'
    BY <1>3 DEF SyncFails
<1>4. ASSUME NEW p \in Pods, Kill(p) \/ Stop(p) PROVE SurvivesPowerLoss'
    BY <1>4 DEF Kill, Stop, PodEnds, Goto
<1>5. CASE PowerLoss
    BY <1>5 DEF PowerLoss
<1>6. CASE VolumeLost
    BY <1>6 DEF VolumeLost
<1>7. ASSUME NEW p \in Pods,
             Launch(p) \/ CheckExists(p) \/ RemovePartial(p) \/ StartCommand(p)
               \/ CommandSucceeds(p) \/ CleanUp(p) \/ Start(p) \/ Notify(p) \/ Forward(p)
               \/ CommandFails(p) \/ ChildEnds(p)
      PROVE SurvivesPowerLoss'
    <2>1. /\ UNCHANGED <<path, disk, unsynced>>
          /\ pc[p] # "sync" /\ \A q \in Pods \ {p} : pc'[q] = pc[q]
        BY <1>7 DEF Launch, CheckExists, Done, RemovePartial, StartCommand, CommandSucceeds,
            CleanUp, RunFails, PodEnds, Start, Notify, Forward, CommandFails, ChildEnds, Goto
    <2> QED
        BY <2>1
<1>8. CASE DeleteJob \/ UNCHANGED vars
    BY <1>8 DEF DeleteJob, vars
<1> QED
    BY <1>1, <1>2, <1>3, <1>4, <1>5, <1>6, <1>7, <1>8 DEF Next, Run

\* No fault that is left ends a pod between its rename and its sync, other than
\* a power loss, which settles what is on disk.
NoneCutShort == Faults \intersect {"sync", "kill", "stop"} = {}

\* The data file's name is on disk, or about to be.
NameOnDisk == path # 0 => disk.path = path \/ \E p \in Pods : pc[p] = "sync"

Synced == unsynced = FALSE

\* The exemption of SurvivesPowerLoss is for those faults only.
LEMMA SyncedNext ==
    ASSUME NoneCutShort
    PROVE Synced /\ [Next]_vars => Synced'
<1> SUFFICES ASSUME unsynced = FALSE, [Next]_vars PROVE unsynced' = FALSE
    BY DEF Synced
<1>1. ASSUME NEW p \in Pods, SyncFails(p) \/ Kill(p) \/ Stop(p) PROVE FALSE
    BY <1>1 DEF NoneCutShort, SyncFails, Kill, Stop, Fault
<1>2. ASSUME NEW p \in Pods, PodStep(p), ~(SyncFails(p) \/ Kill(p) \/ Stop(p))
      PROVE unsynced' = FALSE
    BY <1>2, Zenon DEF PodStep, Run, Launch, CheckExists, RemovePartial, StartCommand,
        CommandSucceeds, CleanUp, Rename, SyncDir, Start, Notify, Forward, CommandFails, ChildEnds
<1>3. CASE PowerLoss \/ VolumeLost \/ DeleteJob \/ UNCHANGED vars
    BY <1>3, Zenon DEF PowerLoss, VolumeLost, DeleteJob, vars
<1> QED
    BY <1>1, <1>2, <1>3 DEF Next, PodStep

\* Losing power cannot take a data file away, also when pods overlap on the
\* volume, but for the exemption: a pod has ended between its rename and its
\* sync, and nothing has synced the directory since, because the runs after it
\* find the data file and skip runToFile.
THEOREM PowerLossIsSurvived == Spec => []SurvivesPowerLoss
<1>1. Init => SurvivesPowerLoss
    BY DEF Init, SurvivesPowerLoss
<1> QED
    BY <1>1, TypeInit, TypeNext, PowerNext, PTL DEF Spec

\* The exemption is as small as that: without failing syncs and without pods that
\* are killed or told to stop, the data file's name is on disk whenever no pod
\* is just about to sync it, through any failing commands and power losses.
THEOREM NamesReachDisk ==
    ASSUME NoneCutShort
    PROVE Spec => []NameOnDisk
<1>1. Init => SurvivesPowerLoss /\ Synced
    BY DEF Init, SurvivesPowerLoss, Synced
<1>2. SurvivesPowerLoss /\ Synced => NameOnDisk
    BY DEF SurvivesPowerLoss, NameOnDisk, Synced
<1> QED
    BY <1>1, <1>2, TypeInit, TypeNext, PowerNext, SyncedNext, PTL DEF Spec

-----------------------------------------------------------------------------
(* Files that look like data files, when pods do not overlap *)

\* At first there is no file and no pod.
LEMMA FileInit == Init => FileInv
BY TypeInit DEF Init, FileInv, OneAtATime, NamesWhole, DiskBehind, OwnsPartial,
   NothingToLose, Making

\* Whoever takes a step is alone on the volume, and stays alone.
LEMMA AloneNext ==
    ASSUME "overlap" \notin Faults, TypeInv, OneAtATime, NEW p \in Pods, PodStep(p)
    PROVE /\ \A q \in Pods \ {p} : pc[q] = "off" /\ pc'[q] = "off"
          /\ OneAtATime'
<1>1. \A q \in Pods \ {p} : pc[q] = "off"
    <2>1. CASE Launch(p)
        BY <2>1 DEF Launch
    <2>2. CASE ~Launch(p)
        <3>1. pc[p] # "off"
            BY <2>2 DEF PodStep, Run, CheckExists, RemovePartial, StartCommand,
                CommandSucceeds, CleanUp, Rename, SyncDir, Start, Notify, Forward,
                CommandFails, SyncFails, ChildEnds, Kill, Stop
        <3> QED
            BY <3>1 DEF OneAtATime
    <2> QED
        BY <2>1, <2>2
<1>2. \A q \in Pods \ {p} : pc'[q] = pc[q]
    BY DEF TypeInv, TypeOK, PodStep, Run, Launch, CheckExists, RemovePartial, StartCommand,
        CommandSucceeds, CleanUp, Rename, SyncDir, Start, Notify, Forward, CommandFails,
        SyncFails, ChildEnds, Kill, Stop, Goto, RunFails, PodEnds, Done
<1> QED
    BY <1>1, <1>2 DEF OneAtATime

\* The names and contents of files stay right when a pod takes a step.
LEMMA FilePodStep ==
    ASSUME "overlap" \notin Faults, FileInv, NEW p \in Pods, PodStep(p)
    PROVE NamesWhole' /\ DiskBehind' /\ OwnsPartial' /\ NothingToLose'
<1>0. \A q \in Pods \ {p} : pc[q] = "off" /\ pc'[q] = "off"
    BY AloneNext DEF FileInv
<1> SUFFICES /\ NamesWhole' /\ DiskBehind'
             /\ pc'[p] = "writing" => tmp' = out'[p] /\ tmp' # 0 /\ content'[tmp'] = "partial"
             /\ pc'[p] = "rename" => tmp' = out'[p] /\ tmp' # 0 /\ content'[tmp'] = "whole"
             /\ pc'[p] \in Making => disk'.path = 0 /\ (path' # 0 => content'[path'] = "whole")
    BY <1>0, Zenon DEF OwnsPartial, NothingToLose, Making
<1> USE BoundsAssumption DEF FileInv, TypeInv, TypeOK, DiskTyped, Files, Contents, NamesWhole,
        DiskBehind, OwnsPartial, NothingToLose, Making
<1>1. CASE Launch(p)
    BY <1>1 DEF Launch, Goto
<1>2. CASE CheckExists(p)
    BY <1>2 DEF CheckExists, Done, Goto
<1>3. CASE RemovePartial(p)
    BY <1>3 DEF RemovePartial, Goto
<1>4. CASE StartCommand(p)
    BY <1>4 DEF StartCommand, Goto
<1>5. CASE CommandSucceeds(p)
    BY <1>5 DEF CommandSucceeds, Goto
<1>6. CASE CleanUp(p)
    BY <1>6 DEF CleanUp, RunFails, PodEnds, Goto
<1>7. CASE Rename(p)
    BY <1>7 DEF Rename, RunFails, PodEnds, Goto
<1>8. CASE SyncDir(p)
    BY <1>8 DEF SyncDir, Done, Goto
<1>9. CASE Start(p)
    BY <1>9 DEF Start, Goto
<1>10. CASE Notify(p) \/ Forward(p)
    BY <1>10 DEF Notify, Forward, Goto
<1>11. CASE CommandFails(p) \/ SyncFails(p) \/ ChildEnds(p)
    BY <1>11 DEF CommandFails, SyncFails, ChildEnds, RunFails, PodEnds, Goto
<1>12. CASE Kill(p) \/ Stop(p)
    BY <1>12 DEF Kill, Stop, PodEnds, Goto
<1> QED
    BY <1>1, <1>2, <1>3, <1>4, <1>5, <1>6, <1>7, <1>8, <1>9, <1>10, <1>11, <1>12
    DEF PodStep, Run

\* FileInv is inductive as long as pods do not overlap.
LEMMA FileNext ==
    ASSUME "overlap" \notin Faults
    PROVE FileInv /\ [Next]_vars => FileInv'
<1> SUFFICES ASSUME FileInv, [Next]_vars PROVE FileInv'
    OBVIOUS
<1>1. TypeInv'
    BY TypeNext DEF FileInv
<1>2. ASSUME NEW p \in Pods, PodStep(p) PROVE FileInv'
    BY <1>1, <1>2, AloneNext, FilePodStep DEF FileInv
<1>3. CASE PowerLoss
    <2>1. \A p \in Pods : pc'[p] = "off"
        BY <1>3 DEF PowerLoss
    <2>2. OneAtATime' /\ OwnsPartial' /\ NothingToLose'
        BY <2>1 DEF OneAtATime, OwnsPartial, NothingToLose, Making
    <2>3. NamesWhole' /\ DiskBehind'
        BY <1>3 DEF PowerLoss, FileInv, NamesWhole, DiskBehind
    <2> QED
        BY <1>1, <2>2, <2>3 DEF FileInv
<1>4. CASE VolumeLost
    <2>1. OneAtATime' /\ OwnsPartial' /\ NothingToLose'
        BY <1>4 DEF VolumeLost, OneAtATime, OwnsPartial, NothingToLose, Making
    <2>2. NamesWhole' /\ DiskBehind'
        BY <1>4 DEF VolumeLost, NamesWhole, DiskBehind
    <2> QED
        BY <1>1, <2>1, <2>2 DEF FileInv
<1>5. CASE UNCHANGED vars
    BY <1>5, <1>1 DEF vars, FileInv, OneAtATime, NamesWhole, DiskBehind, OwnsPartial, NothingToLose
<1>6. CASE DeleteJob
    BY <1>6, <1>1 DEF DeleteJob, FileInv, OneAtATime, NamesWhole, DiskBehind, OwnsPartial,
       NothingToLose
<1> QED
    BY <1>2, <1>3, <1>4, <1>5, <1>6 DEF Next, PodStep

\* An interrupted run never leaves something that looks like a real data
\* file, as long as format pods do not overlap.
THEOREM PartialFilesNeverLookReal ==
    ASSUME "overlap" \notin Faults
    PROVE Spec => []NeverLooksReal
<1>1. FileInv => NeverLooksReal
    BY DEF FileInv, NamesWhole, NeverLooksReal
<1> QED
    BY <1>1, FileInit, FileNext, PTL DEF Spec

\* Nothing but the loss of the volume or of power takes data away, and no
\* other file ever takes its place.
LEMMA DataKept ==
    ASSUME FileInv, [Next]_vars, path # 0, content[path] = "data"
    PROVE path' \in {0, path}
<1>1. ASSUME NEW p \in Pods, Rename(p) PROVE FALSE
    BY <1>1 DEF Rename, FileInv, NothingToLose, Making
<1>2. CASE PowerLoss
    BY <1>2 DEF PowerLoss, FileInv, DiskBehind
<1>3. CASE VolumeLost
    BY <1>3 DEF VolumeLost
<1>4. ASSUME NEW p \in Pods, PodStep(p), ~Rename(p) PROVE path' = path
    BY <1>4 DEF PodStep, Run, Launch, CheckExists, RemovePartial, StartCommand,
        CommandSucceeds, CleanUp, SyncDir, Start, Notify, Forward, CommandFails,
        SyncFails, ChildEnds, Kill, Stop
<1>5. CASE DeleteJob \/ UNCHANGED vars
    BY <1>5 DEF DeleteJob, vars
<1> QED
    BY <1>1, <1>2, <1>3, <1>4, <1>5 DEF Next, PodStep

\* The data of a replica that has started is never replaced by another file,
\* neither by a format pod nor by recover, as long as pods do not overlap.
THEOREM DataIsNeverReplaced ==
    ASSUME "overlap" \notin Faults
    PROVE Spec => NeverReplaced
<1>1. FileInv /\ [Next]_vars => [path # 0 /\ content[path] = "data" => path' \in {0, path}]_vars
    BY DataKept
<1> QED
    BY <1>1, FileInit, FileNext, PTL DEF Spec, NeverReplaced

-----------------------------------------------------------------------------
(* What makes format pods fail, when pods do not overlap *)

\* A command only runs where nothing has its file's name, and a fault has been
\* counted for every failed pod, also for the one that is about to fail.
FaultsCounted ==
    /\ OnlyFaultsFail
    /\ \A p \in Pods :
         /\ pc[p] = "run" => tmp = 0
         /\ pc[p] = "failed" /\ mode[p] = "format" => failures < faults

\* No step fails a format pod without a fault.
LEMMA CountedNext ==
    ASSUME "overlap" \notin Faults
    PROVE FileInv /\ FaultsCounted /\ [Next]_vars => FaultsCounted'
<1> SUFFICES ASSUME FileInv, FaultsCounted, [Next]_vars PROVE FaultsCounted'
    OBVIOUS
<1> USE DEF FaultsCounted, OnlyFaultsFail, FileInv, TypeInv, TypeOK, BackoffLimit
<1>1. ASSUME NEW p \in Pods, PodStep(p) PROVE FaultsCounted'
    <2>1. \A q \in Pods \ {p} : pc'[q] = "off"
        BY <1>1, AloneNext
    <2>2. /\ failures \in Int /\ faults \in Int /\ failures <= faults
          /\ Counted \in Int /\ Counted <= failures + 1
        BY BoundsAssumption DEF Counted
    <2> SUFFICES /\ failures' <= faults'
                 /\ pc'[p] = "run" => tmp' = 0
                 /\ pc'[p] = "failed" /\ mode'[p] = "format" => failures' < faults'
        BY <2>1
    <2>3. CASE Launch(p) \/ CheckExists(p) \/ RemovePartial(p)
        BY <2>3 DEF Launch, CheckExists, Done, RemovePartial, Goto
    <2>4. CASE StartCommand(p) \/ CommandSucceeds(p)
        BY <2>4 DEF StartCommand, CommandSucceeds, Goto
    <2>5. CASE CleanUp(p)
        <3>1. faults' = faults /\ pc'[p] \in {"off", "remove"}
            BY <2>5 DEF CleanUp, RunFails, PodEnds, Goto
        <3>2. failures' = failures \/ (failures' = Counted /\ failures < faults)
            BY <2>5 DEF CleanUp, RunFails, PodEnds
        <3> QED
            BY <2>2, <3>1, <3>2
    <2>6. CASE Rename(p)
        BY <2>6 DEF Rename, Goto, OwnsPartial
    <2>7. CASE SyncDir(p) \/ Start(p) \/ Notify(p) \/ Forward(p)
        BY <2>7 DEF SyncDir, Done, Start, Notify, Forward, Goto
    <2>8. CASE CommandFails(p) \/ ChildEnds(p)
        BY <2>8 DEF CommandFails, ChildEnds, Goto, Fault
    <2>9. CASE SyncFails(p)
        <3>1. faults' = faults + 1 /\ pc'[p] \in {"off", "remove"}
            BY <2>9 DEF SyncFails, RunFails, PodEnds, Goto, Fault
        <3>2. failures' \in {failures, Counted}
            BY <2>9 DEF SyncFails, RunFails, PodEnds
        <3> QED
            BY <2>2, <3>1, <3>2
    <2>10. CASE Kill(p) \/ Stop(p)
        <3>1. faults' = faults + 1 /\ pc'[p] \in {"off", "stopping"}
            BY <2>10 DEF Kill, Stop, PodEnds, Goto, Fault
        <3>2. failures' \in {failures, Counted}
            BY <2>10 DEF Kill, Stop, PodEnds
        <3> QED
            BY <2>2, <3>1, <3>2
    <2> QED
        BY <1>1, <2>3, <2>4, <2>5, <2>6, <2>7, <2>8, <2>9, <2>10 DEF PodStep, Run
<1>2. CASE PowerLoss
    BY <1>2 DEF PowerLoss, Counted, Fault
<1>3. CASE VolumeLost
    BY <1>3 DEF VolumeLost, Fault
<1>4. CASE DeleteJob
    BY <1>4 DEF DeleteJob, JobFailed
<1>5. CASE UNCHANGED vars
    BY <1>5 DEF vars
<1> QED
    BY <1>1, <1>2, <1>3, <1>4, <1>5 DEF Next, PodStep

\* A format pod fails only by a fault of its own, never on what an earlier one
\* has left, as long as format pods do not overlap.
THEOREM RetriesAreClean ==
    ASSUME "overlap" \notin Faults
    PROVE Spec => []OnlyFaultsFail
<1>1. Init => FaultsCounted
    BY DEF Init, FaultsCounted, OnlyFaultsFail
<1>2. FaultsCounted => OnlyFaultsFail
    BY DEF FaultsCounted
<1> QED
    BY <1>1, <1>2, FileInit, FileNext, CountedNext, PTL DEF Spec
===============================================================================
