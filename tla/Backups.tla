------------------------------ MODULE Backups ------------------------------
(***************************************************************************)
(* The archives of the world: the directory they lie in, the store that    *)
(* owns it and the index it derives from it (httpapi, state), and what the *)
(* controller's loop decides about them (fsm): which archive the next boot *)
(* restores, whether an operator chose it, and which ones are pruned.      *)
(*                                                                         *)
(* Store.mu covers the index, not the directory: a listing, the rename     *)
(* that ends an upload, the removals of a prune and the open of a download *)
(* interleave.  An archive is its time of modification and its contents;   *)
(* two archives have the same size only if they have the same contents.    *)
(***************************************************************************)
EXTENDS Naturals, FiniteSets

CONSTANTS
    Name,           \* archive names, numbered from the greatest down
    Content,        \* what an archive may hold
    Torn,           \* a body that is not what its sender declared
    NoFile,         \* no archive of that name
    NoName,         \* no restore target
    Policies,       \* what backups.restore_policy may be set to
    Count, Days,    \* backups.retention_count and _days; zero disables either
    Requests,       \* requests that may be in progress at once
    StoreFaults,    \* what goes wrong, see StoreFaultKinds
    MaxPuts,        \* bound: uploads in a behaviour
    MaxTime         \* bound: the clock, in days

StoreFaultKinds == {
    "scan",         \* the directory cannot be listed
    "remove",       \* an archive cannot be removed
    "volume"}       \* the controller comes back on an empty volume

ASSUME ArchivesAssumption == Name \subseteq Nat /\ NoName \notin Name
                             /\ Torn \notin Content
ASSUME PoliciesAssumption == "latest" \in Policies /\ Policies \subseteq {"latest", "pinned", "none"}
ASSUME RetentionAssumption == Count \in Nat /\ Days \in Nat
ASSUME StoreBoundsAssumption == MaxPuts \in Nat /\ MaxTime \in Nat /\ StoreFaults \subseteq StoreFaultKinds
                                /\ Requests \cap {"nobody", "loop"} = {}

VARIABLES
    disk,       \* backups.dir: what is there under each name
    idx,        \* Store.idx
    scan,       \* the rescan in progress, which holds Store.mu, and what it listed
    req,        \* the uploads and downloads in progress
    loop,       \* the controller's loop: idle, or at a step of a prune, what it is
                \* still to remove, and the index it decided that on; and, as history,
                \* whether the listing before had failed
    goal,       \* Controller.RestoreTarget and RestorePinned
    branch,     \* as published: the names backups.json stamps, and those two fields
    policy,     \* backups.restore_policy
    unlisted,   \* history: the last listing of the directory failed
    day, stored \* the clock, and the uploads so far

storeVars == <<disk, idx, scan>>
clientVars == <<req, stored>>
loopVars == <<loop, goal, branch, policy>>
backupsVars == <<storeVars, clientVars, loopVars, unlisted, day>>

Archive == [made : 0..MaxTime, sum : Content]
Unread == "unread"
Entry == [made : 0..MaxTime, sum : Content \cup {Unread}, taken : BOOLEAN]
ASSUME NoFileAssumption == NoFile \notin Archive \cup Entry
Nothing == [n \in Name |-> NoFile]
Present(f) == {n \in Name : f[n] # NoFile}
Taken(i) == {n \in Present(i) : i[n].taken}
NoGoal == [want |-> NoName, pinned |-> FALSE]
NoRequest == [pc |-> "none", name |-> NoName, file |-> NoFile]
Resting == [pc |-> "idle", doomed |-> {}, seen |-> Nothing, blind |-> FALSE]
Unlocked == [by |-> "nobody", listed |-> Nothing]
Free == scan.by = "nobody"

BackupsInit ==
    /\ disk = Nothing /\ idx = Nothing /\ scan = Unlocked
    /\ req = [c \in Requests |-> NoRequest] /\ stored = 0
    /\ loop = Resting /\ goal = NoGoal
    /\ branch = [taken |-> {}, goal |-> NoGoal] /\ policy = "latest"
    /\ unlisted = FALSE /\ day = 0

-----------------------------------------------------------------------------
(* The index.                                                              *)

\* What a rescan makes of a listing and of the index before it: the stamp of a
\* download goes with the name, a digest only with the size and the time, and
\* what cannot be carried over is read now.
Rescanned(old, listed) ==
    [n \in Name |->
        IF listed[n] = NoFile THEN NoFile
        ELSE [made  |-> listed[n].made,
              taken |-> old[n] # NoFile /\ old[n].taken,
              sum   |-> IF old[n] # NoFile /\ old[n].made = listed[n].made /\ old[n].sum = listed[n].sum
                        THEN old[n].sum
                        ELSE IF disk[n] # NoFile THEN disk[n].sum ELSE Unread]]

\* rescanLocked: the directory is listed under the lock, then hashed.
List(who) == Free /\ scan' = [by |-> who, listed |-> disk] /\ UNCHANGED <<disk, idx>>
Reindex(who) ==
    /\ scan.by = who /\ scan' = Unlocked
    /\ idx' = Rescanned(idx, scan.listed) /\ unlisted' = FALSE
    /\ UNCHANGED disk
ListFails == Free /\ "scan" \in StoreFaults /\ unlisted' = TRUE /\ UNCHANGED storeVars

\* Newest first; names break ties.
Newer(i, m, n) == i[m].made > i[n].made \/ (i[m].made = i[n].made /\ m < n)

\* Backups.Expired: what the retention policy gives up, the newest and the
\* protected one excepted.
Bug_ProtectsNothing(i, t, keep) ==
    {n \in Present(i) : LET newer == {m \in Present(i) : Newer(i, m, n)} IN
        /\ newer # {}
        /\ (Count > 0 /\ Cardinality(newer) >= Count) \/ (Days > 0 /\ t > i[n].made + Days)}
Expired(i, t, keep) ==
    {n \in Present(i) \ {keep} : LET newer == {m \in Present(i) : Newer(i, m, n)} IN
        /\ newer # {}
        /\ (Count > 0 /\ Cardinality(newer) >= Count) \/ (Days > 0 /\ t > i[n].made + Days)}

-----------------------------------------------------------------------------
(* Uploads: body, rename, rescan, answer.                                  *)

Advances(c, pc) == req' = [req EXCEPT ![c].pc = pc]
Ends(c) == req' = [req EXCEPT ![c] = NoRequest]

PutBegin(c, n) ==
    /\ req[c] = NoRequest /\ stored < MaxPuts
    /\ stored' = stored + 1
    /\ req' = [req EXCEPT ![c] = [pc |-> "body", name |-> n, file |-> NoFile]]
    /\ UNCHANGED <<storeVars, loopVars, unlisted, day>>

\* The body is in the temporary file, which dates it; a body that is too long, too
\* short, late, or not what its digest says goes no further.
Bug_KeepsWhatArrived == {[made |-> day, sum |-> c] : c \in Content \cup {Torn}}
Verified == {[made |-> day, sum |-> c] : c \in Content}
PutBody(c) ==
    /\ req[c].pc = "body"
    /\ \/ \E f \in Verified : req' = [req EXCEPT ![c].pc = "written", ![c].file = f]
       \/ Ends(c)
    /\ UNCHANGED <<storeVars, loopVars, stored, unlisted, day>>

PutRename(c) ==
    /\ req[c].pc = "written"
    /\ disk' = [disk EXCEPT ![req[c].name] = req[c].file]
    /\ req' = [req EXCEPT ![c].pc = "renamed", ![c].file = NoFile]
    /\ UNCHANGED <<idx, scan, loopVars, stored, unlisted, day>>

PutList(c) ==
    /\ req[c].pc = "renamed"
    /\ \/ List(c) /\ Advances(c, "listed") /\ UNCHANGED unlisted
       \/ ListFails /\ Ends(c)
    /\ UNCHANGED <<loopVars, stored, day>>
PutAnswer(c) ==
    /\ req[c].pc = "listed" /\ Reindex(c) /\ Ends(c)
    /\ UNCHANGED <<loopVars, stored, day>>

-----------------------------------------------------------------------------
(* Downloads: the entry under the lock, then the file.                     *)

GetLook(c, n) ==
    /\ req[c] = NoRequest /\ Free
    /\ req' = [req EXCEPT ![c] = [pc |-> IF idx[n] # NoFile THEN "found" ELSE "missing",
                                 name |-> n, file |-> NoFile]]
    /\ UNCHANGED <<storeVars, loopVars, stored, unlisted, day>>

\* No file is no such backup; a file without an entry is indexed first.
GetOpen(c) ==
    /\ req[c].pc \in {"found", "missing"}
    /\ IF disk[req[c].name] = NoFile THEN Ends(c)
       ELSE Advances(c, IF req[c].pc = "found" THEN "opened" ELSE "unindexed")
    /\ UNCHANGED <<storeVars, loopVars, stored, unlisted, day>>

GetList(c) ==
    /\ req[c].pc = "unindexed"
    /\ \/ List(c) /\ Advances(c, "relisted") /\ UNCHANGED unlisted
       \/ ListFails /\ Advances(c, "opened")
    /\ UNCHANGED <<loopVars, stored, day>>
GetIndexed(c) ==
    /\ req[c].pc = "relisted" /\ Reindex(c) /\ Advances(c, "opened")
    /\ UNCHANGED <<loopVars, stored, day>>

\* MarkDownloaded, before serving; a range or a HEAD leaves no stamp.
Stamped(n) == IF idx[n] = NoFile THEN idx ELSE [idx EXCEPT ![n].taken = TRUE]
GetServe(c) ==
    /\ req[c].pc = "opened" /\ Ends(c)
    /\ \/ Free /\ idx' = Stamped(req[c].name)
       \/ UNCHANGED idx
    /\ UNCHANGED <<disk, scan, loopVars, stored, unlisted, day>>

-----------------------------------------------------------------------------
(* The loop.  Every handler begins with the index as it is (refreshIndex)  *)
(* and without a target that is gone from it, and ends with a publish that *)
(* is done, put off or refused.                                            *)

KeptGoal(g, i) == IF g.want # NoName /\ i[g.want] = NoFile THEN NoGoal ELSE g
Current == KeptGoal(goal, idx)
Publication(i, g) == [taken |-> Taken(i), goal |-> g]
Handles(g) ==
    /\ loop.pc = "idle" /\ Free
    /\ goal' = g
    /\ branch' \in {branch, Publication(idx, g)}
    /\ UNCHANGED <<storeVars, loop, policy, unlisted, day>>

\* followLatest: the newest, pinned only where nothing follows anything.
Followed(i) ==
    IF Present(i) = {} THEN NoGoal
    ELSE [want   |-> CHOOSE n \in Present(i) : \A m \in Present(i) \ {n} : Newer(i, n, m),
          pinned |-> policy = "pinned"]

\* applyRestore: an archive by name, which pins it if the store has it.
Chosen(g, i, n) == IF i[n] = NoFile THEN g ELSE [want |-> n, pinned |-> TRUE]

\* recordBackup: an archive the store holds is followed, unless that is not the
\* machine's decision to make.
Bug_FollowsDespitePin(g, i, n) == IF policy # "latest" THEN g ELSE [g EXCEPT !.want = n]
Recorded(g, i, n) ==
    IF i[n] = NoFile \/ policy # "latest" \/ g.pinned THEN g ELSE [g EXCEPT !.want = n]

\* applyRestore: the body of the trigger is empty, "latest", or a name.
RestoreTrigger ==
    /\ \/ policy = "none" /\ Handles(Current)
       \/ policy # "none" /\ Handles(NoGoal)
       \/ policy # "none" /\ Handles(Followed(idx))
       \/ policy # "none" /\ \E n \in Name : Handles(Chosen(Current, idx, n))
    /\ UNCHANGED clientVars

\* The report comes when it comes: before the upload is indexed, or long after.
BackupReported ==
    /\ \E n \in Name : Handles(Recorded(Current, idx, n))
    /\ UNCHANGED clientVars

\* Any other event, and a tick with nothing to prune.
OtherEvent == Handles(Current) /\ UNCHANGED clientVars

\* pruneBackups: what is expired is decided under the lock ...
PruneBegin ==
    /\ loop.pc = "idle" /\ Free
    /\ goal' = Current
    /\ loop' = [pc |-> "removing", doomed |-> Expired(idx, day, Current.want), seen |-> idx,
                blind |-> unlisted]
    /\ loop'.doomed # {}
    /\ UNCHANGED <<storeVars, clientVars, branch, policy, unlisted, day>>

\* ... and removed without it, the oldest first ...
PruneRemove ==
    \E n \in loop.doomed :
        /\ loop.pc = "removing"
        /\ \A m \in loop.doomed \ {n} : Newer(loop.seen, m, n)
        /\ \/ disk' = [disk EXCEPT ![n] = NoFile]
           \/ "remove" \in StoreFaults /\ UNCHANGED disk
        /\ loop' = [loop EXCEPT !.doomed = @ \ {n}]
        /\ UNCHANGED <<idx, scan, clientVars, goal, branch, policy, unlisted, day>>

PruneList ==
    /\ loop.pc = "removing" /\ loop.doomed = {}
    /\ \/ List("loop") /\ loop' = [loop EXCEPT !.pc = "listed"] /\ UNCHANGED <<unlisted, branch>>
       \/ ListFails /\ loop' = Resting
          /\ branch' \in {branch, Publication(idx, goal)}
    /\ UNCHANGED <<clientVars, goal, policy, day>>

Bug_PruneTrustsItself ==
    /\ scan.by = "loop" /\ loop' = Resting /\ scan' = Unlocked
    /\ branch' \in {branch, Publication(idx, goal)}
    /\ UNCHANGED <<disk, idx, clientVars, goal, policy, unlisted, day>>
PruneEnd ==
    /\ Reindex("loop") /\ loop' = Resting
    /\ branch' \in {branch, Publication(idx', goal)}
    /\ UNCHANGED <<clientVars, goal, policy, day>>

-----------------------------------------------------------------------------
(* The process dies and is started, perhaps with another configuration or  *)
(* on an empty volume: NewStore lists the directory, the document and the  *)
(* index come from git, Seed reconciles the index with the directory, and  *)
(* a target that is gone is dropped.                                       *)

Seeded == branch.taken
Normal(g) == IF g.want = NoName THEN NoGoal ELSE g
Restart ==
    /\ \/ UNCHANGED disk
       \/ "volume" \in StoreFaults /\ disk' = Nothing
    /\ unlisted' \in (IF "scan" \in StoreFaults THEN BOOLEAN ELSE {FALSE})
    /\ idx' = [n \in Name |-> IF disk'[n] = NoFile THEN NoFile
               ELSE [made |-> disk'[n].made, sum |-> disk'[n].sum, taken |-> ~unlisted' /\ n \in Seeded]]
    /\ scan' = Unlocked
    /\ req' = [c \in Requests |-> NoRequest]
    /\ loop' = Resting /\ goal' = KeptGoal(Normal(branch.goal), idx')
    /\ policy' \in Policies
    /\ UNCHANGED <<branch, stored, day>>

DayPasses == day < MaxTime /\ day' = day + 1 /\ UNCHANGED <<storeVars, clientVars, loopVars, unlisted>>

UploadStep == \E c \in Requests : PutBody(c) \/ PutRename(c) \/ PutList(c) \/ PutAnswer(c)
DownloadStep == \E c \in Requests : GetOpen(c) \/ GetList(c) \/ GetIndexed(c) \/ GetServe(c)
PruneStep == PruneRemove \/ PruneList \/ PruneEnd

BackupsNext ==
    \/ \E c \in Requests, n \in Name : PutBegin(c, n) \/ GetLook(c, n)
    \/ UploadStep
    \/ DownloadStep
    \/ RestoreTrigger \/ BackupReported \/ OtherEvent \/ PruneBegin
    \/ PruneStep
    \/ Restart \/ DayPasses

BackupsSpec == BackupsInit /\ [][BackupsNext]_backupsVars

-----------------------------------------------------------------------------
(* Properties.                                                             *)

\* The shape of the state; that an archive on disk holds what its sender
\* declared is part of it: a body that is cut off or does not match its digest
\* is never seen under an archive's name (Put).
BackupsTypeOK ==
    /\ disk \in [Name -> Archive \cup {NoFile}]
    /\ idx \in [Name -> Entry \cup {NoFile}]
    /\ scan \in [by : {"nobody", "loop"} \cup Requests, listed : [Name -> Archive \cup {NoFile}]]
    /\ req \in [Requests -> [pc : {"none", "body", "written", "renamed", "listed",
                                  "found", "missing", "unindexed", "relisted", "opened"},
                            name : Name \cup {NoName}, file : Archive \cup {NoFile}]]
    /\ loop \in [pc : {"idle", "removing", "listed"}, doomed : SUBSET Name,
                 seen : [Name -> Entry \cup {NoFile}], blind : BOOLEAN]
    /\ goal \in [want : Name \cup {NoName}, pinned : BOOLEAN]
    /\ branch \in [taken : SUBSET Name, goal : [want : Name \cup {NoName}, pinned : BOOLEAN]]
    /\ policy \in Policies
    /\ unlisted \in BOOLEAN /\ day \in 0..MaxTime /\ stored \in 0..MaxPuts

\* backups.json is the directory (invariant I10): once no upload, prune or rescan
\* is under way, the index says of every name what the disk does, contents
\* included - whatever order their steps came in.
AtRest == Free /\ loop.pc = "idle" /\ \A c \in Requests : req[c].pc # "renamed"
IndexAgrees ==
    AtRest /\ ~unlisted =>
        \A n \in Name : IF disk[n] = NoFile THEN idx[n] = NoFile
                        ELSE idx[n] # NoFile /\ idx[n].made = disk[n].made /\ idx[n].sum = disk[n].sum

\* What is to be restored is there to be restored.  The archive the next boot is sent
\* to, as the next event will leave it, is on the disk: no prune, follow, pin, restart
\* or lost volume leaves a target that would answer 404 for ever
\* (dropMissingRestoreTarget, pruneBackups).  And a prune never takes the last archive,
\* uploads that race it or not (Expired) - unless a listing failed, and the index it
\* decided on is of a directory that is no longer so.
TargetOnDisk == Current.want # NoName => disk[Current.want] # NoFile
PruneLeavesOne == loop.pc = "removing" /\ ~loop.blind => Present(disk) \ loop.doomed # {}
Restorable == (~unlisted => TargetOnDisk) /\ PruneLeavesOne

\* An operator's choice by name stands until the operator changes it or the archive
\* is gone: the automatic follow of a new backup does not move it (recordBackup).
PinHolds ==
    [][goal.pinned /\ idx[goal.want] # NoFile /\ goal' # goal => RestoreTrigger \/ Restart]_backupsVars

\* The stamp that says a copy of an archive was taken off this disk is not lost while
\* its name is in the index: by no rescan, upload or prune and, once published, by no
\* restart that could list the directory (rescanLocked, Seed).
StampKept ==
    [][\A n \in Taken(idx) : idx'[n] # NoFile =>
         idx'[n].taken \/ (Restart /\ (n \notin branch.taken \/ unlisted'))]_backupsVars

=============================================================================
