---------------------------- MODULE BackupsProofs ----------------------------
(***************************************************************************)
(* The archives (Backups): proofs that what is to be restored can be, that *)
(* a prune leaves one archive, that the index is the directory when nobody *)
(* is at work on it, and that a pin and a stamp stay.                      *)
(***************************************************************************)
EXTENDS Backups, WellFoundedInduction, TLAPS

Shelf == [Name -> Archive \cup {NoFile}]
Index == [Name -> Entry \cup {NoFile}]
Goals == [want : Name \cup {NoName}, pinned : BOOLEAN]
RequestState == [pc : {"none", "body", "written", "renamed", "listed", "found", "missing",
                       "unindexed", "relisted", "opened"},
                 name : Name \cup {NoName}, file : Archive \cup {NoFile}]
LoopState == [pc : {"idle", "removing", "listed"}, doomed : SUBSET Name, seen : Index, blind : BOOLEAN]
ScanState == [by : {"nobody", "loop"} \cup Requests, listed : Shelf]

\* The values the state begins with.
LEMMA FirstValues ==
    /\ Nothing \in Shelf /\ Nothing \in Index /\ NoGoal \in Goals /\ NoRequest \in RequestState
    /\ Resting \in LoopState /\ Unlocked \in ScanState
    /\ Resting.pc = "idle" /\ Unlocked.by = "nobody" /\ NoRequest.pc = "none"
    /\ \A n \in Name : Nothing[n] = NoFile
BY DEF Nothing, Shelf, Index, NoGoal, Goals, NoRequest, RequestState, Resting, LoopState, Unlocked, ScanState

\* The shape, in the names of this module.
LEMMA Shapes ==
    BackupsTypeOK <=>
        /\ disk \in Shelf /\ idx \in Index /\ scan \in ScanState /\ req \in [Requests -> RequestState]
        /\ loop \in LoopState /\ goal \in Goals /\ branch \in [taken : SUBSET Name, goal : Goals]
        /\ policy \in Policies /\ unlisted \in BOOLEAN /\ day \in 0..MaxTime /\ stored \in 0..MaxPuts
BY DEF BackupsTypeOK, Shelf, Index, ScanState, RequestState, LoopState, Goals

-----------------------------------------------------------------------------
(* The operators.                                                          *)

\* A rescan gives an entry to what was listed, with the digest of what is there now,
\* and keeps the stamps.
LEMMA RescannedFacts ==
    ASSUME NEW old \in Index, NEW listed \in Shelf, disk \in Shelf
    PROVE  /\ Rescanned(old, listed) \in Index
           /\ \A n \in Name : Rescanned(old, listed)[n] # NoFile => listed[n] # NoFile
           /\ \A n \in Name : listed[n] # NoFile =>
                /\ Rescanned(old, listed)[n] # NoFile
                /\ Rescanned(old, listed)[n].made = listed[n].made
                /\ listed[n] = disk[n] => Rescanned(old, listed)[n].sum = disk[n].sum
                /\ old[n] # NoFile /\ old[n].taken => Rescanned(old, listed)[n].taken
<1> DEFINE R == Rescanned(old, listed)
           Sum(n) == IF old[n] # NoFile /\ old[n].made = listed[n].made /\ old[n].sum = listed[n].sum
                     THEN old[n].sum
                     ELSE IF disk[n] # NoFile THEN disk[n].sum ELSE Unread
           Taken0(n) == old[n] # NoFile /\ old[n].taken
           E(n) == [made |-> listed[n].made, taken |-> Taken0(n), sum |-> Sum(n)]
<1>1. R = [n \in Name |-> IF listed[n] = NoFile THEN NoFile ELSE E(n)]
    BY DEF Rescanned
<1>2. ASSUME NEW n \in Name, listed[n] # NoFile
      PROVE  /\ E(n) \in Entry /\ E(n) # NoFile /\ E(n).made = listed[n].made
             /\ listed[n] = disk[n] => E(n).sum = disk[n].sum
             /\ old[n] # NoFile /\ old[n].taken => E(n).taken
    <2>1. listed[n] \in Archive /\ (disk[n] # NoFile => disk[n] \in Archive) /\ (old[n] # NoFile => old[n] \in Entry)
        BY <1>2 DEF Shelf, Index
    <2>2. Sum(n) \in Content \cup {Unread}
        BY <2>1 DEF Archive, Entry
    <2>3. Taken0(n) \in BOOLEAN
        BY <2>1 DEF Entry
    <2>4. listed[n] = disk[n] => Sum(n) = disk[n].sum
        BY <1>2
    <2>5. old[n] # NoFile /\ old[n].taken => Taken0(n)
        OBVIOUS
    <2> HIDE DEF Sum, Taken0
    <2>6. E(n) \in Entry
        BY <2>1, <2>2, <2>3 DEF Archive, Entry
    <2> QED BY <2>4, <2>5, <2>6, NoFileAssumption
<1> HIDE DEF E
<1>3. R \in Index
    BY <1>1, <1>2 DEF Index
<1> QED BY <1>1, <1>2, <1>3

\* A target that is kept is in the index.
LEMMA KeptFacts ==
    ASSUME NEW g \in Goals, NEW i \in Index
    PROVE  /\ KeptGoal(g, i) \in Goals
           /\ KeptGoal(g, i).want # NoName => KeptGoal(g, i) = g /\ i[g.want] # NoFile
           /\ g.want # NoName /\ i[g.want] # NoFile => KeptGoal(g, i) = g
BY ArchivesAssumption DEF KeptGoal, Goals, NoGoal

\* Of some naturals one is the least.
LEMMA LeastNumber == ASSUME NEW S \in SUBSET Nat, S # {} PROVE \E x \in S : \A y \in S : x <= y
<1> DEFINE R == {ss \in Nat \X Nat : ss[1] < ss[2]}
<1>1. IsWellFoundedOn(R, Nat)
    BY NatLessThanWellFounded DEF OpToRel
<1>2. PICK x \in S : \A y \in S : ~(<<y, x>> \in R)
    <2> HIDE DEF R
    <2> QED BY <1>1, WFMin
<1>3. \A y \in S : x <= y
    <2> TAKE y \in S
    <2>1. ~(<<y, x>> \in R) /\ x \in Nat /\ y \in Nat
        BY <1>2
    <2>2. ~(y < x)
        BY <2>1, SMT
    <2> QED BY <2>1, <2>2
<1> QED BY <1>3

\* Some archive of an index that has any is the newest, and the policy spares it.
LEMMA NewestExists ==
    ASSUME NEW i \in Index, Present(i) # {}
    PROVE  \E n \in Present(i) : \A m \in Present(i) \ {n} : Newer(i, n, m)
<1> DEFINE Age == [n \in Present(i) |-> MaxTime - i[n].made]
           Ages == {Age[n] : n \in Present(i)}
<1>1. \A n \in Present(i) : n \in Nat /\ i[n].made \in 0..MaxTime /\ Age[n] \in Nat /\ Age[n] = MaxTime - i[n].made
    <2> TAKE n \in Present(i)
    <2>1. n \in Name /\ i[n] \in Entry
        BY DEF Present, Index
    <2>2. i[n].made \in 0..MaxTime
        BY <2>1 DEF Entry
    <2> QED BY <2>1, <2>2, ArchivesAssumption, StoreBoundsAssumption
<1> HIDE DEF Age
<1>2. PICK a \in Ages : \A b \in Ages : a <= b
    <2>1. Ages \in SUBSET Nat /\ Ages # {}
        BY <1>1
    <2> HIDE DEF Ages
    <2> QED BY <2>1, LeastNumber
<1> DEFINE Youngest == {n \in Present(i) : Age[n] = a}
<1>3. PICK n \in Youngest : \A m \in Youngest : n <= m
    <2>1. Youngest \in SUBSET Nat /\ Youngest # {}
        BY <1>1, <1>2
    <2> HIDE DEF Youngest
    <2> QED BY <2>1, LeastNumber
<1>4. ASSUME NEW m \in Present(i), m # n PROVE Newer(i, n, m)
    <2>1. Age[n] <= Age[m]
        BY <1>2
    <2>2. Age[n] = Age[m] => n <= m
        BY <1>3
    <2>3. n \in Present(i)
        OBVIOUS
    <2> QED BY <1>1, <1>4, <2>1, <2>2, <2>3, StoreBoundsAssumption DEF Newer
<1> QED BY <1>4

\* What is given up is in the index, is not what is to be restored, and is not all.
LEMMA ExpiredFacts ==
    ASSUME NEW i \in Index, NEW t, NEW keep, Expired(i, t, keep) # {}
    PROVE  /\ Expired(i, t, keep) \subseteq Present(i) \ {keep}
           /\ \E n \in Present(i) : n \notin Expired(i, t, keep)
<1>1. Expired(i, t, keep) \subseteq Present(i) \ {keep}
    BY DEF Expired
<1>2. PICK n \in Present(i) : \A m \in Present(i) \ {n} : Newer(i, n, m)
    BY <1>1, NewestExists
<1>3. ASSUME NEW m \in Present(i), Newer(i, m, n) PROVE FALSE
    <2>1. n \in Nat /\ m \in Nat /\ i[n].made \in Nat /\ i[m].made \in Nat
        <3>1. n \in Name /\ m \in Name /\ i[n] \in Entry /\ i[m] \in Entry
            BY DEF Present, Index
        <3> QED BY <3>1, ArchivesAssumption DEF Entry
    <2>2. m = n \/ Newer(i, n, m)
        BY <1>2
    <2> QED BY <1>3, <2>1, <2>2 DEF Newer
<1>4. n \notin Expired(i, t, keep)
    BY <1>3 DEF Expired
<1> QED BY <1>1, <1>4

\* What the loop may make of the target.
LEMMA GoalFacts ==
    ASSUME BackupsTypeOK
    PROVE  /\ Current \in Goals /\ Followed(idx) \in Goals /\ NoGoal \in Goals
           /\ \A n \in Name, g \in Goals : Chosen(g, idx, n) \in Goals /\ Recorded(g, idx, n) \in Goals
           /\ \A g \in Goals, i \in Index : Publication(i, g) \in [taken : SUBSET Name, goal : Goals]
<1>1. idx \in Index /\ goal \in Goals
    BY Shapes
<1>2. Current \in Goals
    BY <1>1, KeptFacts DEF Current
<1>3. Followed(idx) \in Goals
    <2>1. CASE Present(idx) = {}
        BY <2>1, FirstValues DEF Followed
    <2>2. CASE Present(idx) # {}
        <3> DEFINE best == CHOOSE n \in Present(idx) : \A m \in Present(idx) \ {n} : Newer(idx, n, m)
        <3>1. best \in Name
            BY <1>1, <2>2, NewestExists DEF Present
        <3>2. Followed(idx) = [want |-> best, pinned |-> policy = "pinned"]
            BY <2>2 DEF Followed
        <3> HIDE DEF best
        <3> QED BY <3>1, <3>2 DEF Goals
    <2> QED BY <2>1, <2>2
<1>4. \A n \in Name, g \in Goals : Chosen(g, idx, n) \in Goals
    BY DEF Chosen, Goals
<1>5. \A n \in Name, g \in Goals : Recorded(g, idx, n) \in Goals
    BY DEF Recorded, Goals
<1>6. \A g \in Goals, i \in Index : Publication(i, g) \in [taken : SUBSET Name, goal : Goals]
    BY DEF Publication, Taken, Present
<1> QED BY <1>2, <1>3, <1>4, <1>5, <1>6, FirstValues

\* What a handler does.
LEMMA HandlesFacts ==
    ASSUME BackupsTypeOK, RestoreTrigger \/ BackupReported \/ OtherEvent
    PROVE  /\ goal' \in Goals /\ branch' \in [taken : SUBSET Name, goal : Goals]
           /\ loop.pc = "idle" /\ UNCHANGED <<storeVars, clientVars, loop, policy, unlisted, day>>
<1>1. PICK g \in Goals : Handles(g) /\ UNCHANGED clientVars
    <2>1. CASE RestoreTrigger
        BY <2>1, GoalFacts DEF RestoreTrigger
    <2>2. CASE BackupReported
        BY <2>2, GoalFacts DEF BackupReported
    <2>3. CASE OtherEvent
        BY <2>3, GoalFacts DEF OtherEvent
    <2> QED BY <2>1, <2>2, <2>3
<1>2. idx \in Index /\ branch \in [taken : SUBSET Name, goal : Goals]
    BY Shapes
<1> QED BY <1>1, <1>2, GoalFacts DEF Handles

\* A stamp changes nothing else.
LEMMA StampedFacts ==
    ASSUME idx \in Index, NEW m \in Name
    PROVE  /\ Stamped(m) \in Index
           /\ \A n \in Name : /\ Stamped(m)[n] = NoFile <=> idx[n] = NoFile
                              /\ idx[n] # NoFile => Stamped(m)[n].made = idx[n].made /\ Stamped(m)[n].sum = idx[n].sum
                              /\ idx[n] # NoFile /\ idx[n].taken => Stamped(m)[n].taken
<1>1. CASE idx[m] = NoFile
    BY <1>1 DEF Stamped
<1>2. CASE idx[m] # NoFile
    <2> DEFINE e == [idx[m] EXCEPT !.taken = TRUE]
    <2>1. idx[m] \in Entry
        BY <1>2 DEF Index
    <2>2. e \in Entry /\ e.made = idx[m].made /\ e.sum = idx[m].sum /\ e.taken
        BY <2>1 DEF Entry
    <2>3. e # NoFile
        BY <2>2, NoFileAssumption
    <2>4. Stamped(m) = [idx EXCEPT ![m] = e]
        BY <1>2 DEF Stamped
    <2> HIDE DEF e
    <2> QED BY <1>2, <2>2, <2>3, <2>4 DEF Index
<1> QED BY <1>1, <1>2

\* One request goes a step further, and only the rename of an upload leaves it where
\* the directory has what the index has not.
RequestMoves(c) ==
    /\ \E r \in RequestState : req' = [req EXCEPT ![c] = r] /\ (PutRename(c) <=> r.pc = "renamed")
                               /\ (r.pc = "written" => r.file # NoFile)
    /\ stored' \in 0..MaxPuts
    /\ UNCHANGED <<loopVars, day>>

\* The requests' own steps, as what they do to the requests.
LEMMA RequestFacts ==
    ASSUME BackupsTypeOK, NEW c \in Requests,
           \/ \E n \in Name : PutBegin(c, n) \/ GetLook(c, n)
           \/ PutBody(c) \/ PutRename(c) \/ PutList(c) \/ PutAnswer(c)
           \/ GetOpen(c) \/ GetList(c) \/ GetIndexed(c) \/ GetServe(c)
    PROVE  RequestMoves(c)
<1>0. /\ req \in [Requests -> RequestState] /\ req[c] \in RequestState /\ stored \in 0..MaxPuts
      /\ day \in 0..MaxTime /\ StoreFaults \subseteq StoreFaultKinds
    BY Shapes, StoreBoundsAssumption
<1>1. NoRequest \in RequestState /\ NoRequest.pc = "none" /\ NoRequest.name = NoName
    BY FirstValues DEF NoRequest
<1>a. ASSUME NEW pc \in {"listed", "unindexed", "relisted", "opened"}, Advances(c, pc), ~PutRename(c),
             UNCHANGED <<stored, loopVars, day>>
      PROVE  RequestMoves(c)
    <2> DEFINE r == [req[c] EXCEPT !.pc = pc]
    <2>1. r \in RequestState /\ r.pc = pc
        BY <1>0 DEF RequestState
    <2>2. req' = [req EXCEPT ![c] = r]
        BY <1>a DEF Advances
    <2> HIDE DEF r
    <2> QED BY <1>0, <1>a, <2>1, <2>2 DEF RequestMoves
<1>b. ASSUME Ends(c), ~PutRename(c), UNCHANGED <<stored, loopVars, day>>
      PROVE  RequestMoves(c)
    BY <1>0, <1>1, <1>b DEF Ends, RequestMoves
<1>2. ASSUME NEW n \in Name, PutBegin(c, n) \/ GetLook(c, n)
      PROVE  RequestMoves(c)
    <2>1. req[c] = NoRequest /\ UNCHANGED <<loopVars, day>> /\ ~PutRename(c)
        BY <1>1, <1>2 DEF PutBegin, GetLook, PutRename
    <2>2. stored' \in 0..MaxPuts
        BY <1>0, <1>2, StoreBoundsAssumption DEF PutBegin, GetLook
    <2>3. PICK pc \in {"body", "found", "missing"} :
            req' = [req EXCEPT ![c] = [pc |-> pc, name |-> n, file |-> NoFile]]
        BY <1>2 DEF PutBegin, GetLook
    <2> DEFINE r == [pc |-> pc, name |-> n, file |-> NoFile]
    <2>4. r \in RequestState /\ r.pc = pc
        BY DEF RequestState
    <2> QED BY <2>1, <2>2, <2>3, <2>4 DEF RequestMoves
<1>3. CASE PutBody(c)
    <2>1. ~PutRename(c) /\ UNCHANGED <<stored, loopVars, day>>
        BY <1>3 DEF PutBody, PutRename
    <2>2. CASE Ends(c)
        BY <1>b, <2>1, <2>2
    <2>3. ASSUME NEW f \in Verified, req' = [req EXCEPT ![c].pc = "written", ![c].file = f]
          PROVE  RequestMoves(c)
        <3>1. f \in Archive
            BY <1>0 DEF Verified, Archive
        <3> DEFINE r == [req[c] EXCEPT !.pc = "written", !.file = f]
        <3>2. r \in RequestState /\ r.pc = "written" /\ r.file # NoFile
            BY <1>0, <3>1, NoFileAssumption DEF RequestState
        <3>3. req' = [req EXCEPT ![c] = r]
            BY <1>0, <2>3 DEF RequestState
        <3> HIDE DEF r
        <3> QED BY <1>0, <2>1, <3>2, <3>3 DEF RequestMoves
    <2> QED BY <1>3, <2>2, <2>3 DEF PutBody
<1>4. CASE PutRename(c)
    <2> DEFINE r == [req[c] EXCEPT !.pc = "renamed", !.file = NoFile]
    <2>1. r \in RequestState /\ r.pc = "renamed"
        BY <1>0 DEF RequestState
    <2>2. req' = [req EXCEPT ![c] = r] /\ UNCHANGED <<stored, loopVars, day>>
        BY <1>0, <1>4 DEF PutRename, RequestState
    <2> HIDE DEF r
    <2> QED BY <1>0, <1>4, <2>1, <2>2 DEF RequestMoves
<1>5. CASE PutList(c)
    <2>1. ~PutRename(c) /\ UNCHANGED <<stored, loopVars, day>> /\ (Advances(c, "listed") \/ Ends(c))
        BY <1>5 DEF PutList, PutRename
    <2> QED BY <1>a, <1>b, <2>1
<1>6. CASE PutAnswer(c)
    <2>1. ~PutRename(c) /\ UNCHANGED <<stored, loopVars, day>> /\ Ends(c)
        BY <1>6 DEF PutAnswer, PutRename
    <2> QED BY <1>b, <2>1
<1>7. CASE GetOpen(c)
    <2>1. ~PutRename(c) /\ UNCHANGED <<stored, loopVars, day>>
          /\ (Advances(c, "opened") \/ Advances(c, "unindexed") \/ Ends(c))
        BY <1>7 DEF GetOpen, PutRename
    <2> QED BY <1>a, <1>b, <2>1
<1>8. CASE GetList(c)
    <2>1. ~PutRename(c) /\ UNCHANGED <<stored, loopVars, day>> /\ (Advances(c, "relisted") \/ Advances(c, "opened"))
        BY <1>8 DEF GetList, PutRename
    <2> QED BY <1>a, <2>1
<1>9. CASE GetIndexed(c)
    <2>1. ~PutRename(c) /\ UNCHANGED <<stored, loopVars, day>> /\ Advances(c, "opened")
        BY <1>9 DEF GetIndexed, PutRename
    <2> QED BY <1>a, <2>1
<1>10. CASE GetServe(c)
    <2>1. ~PutRename(c) /\ UNCHANGED <<stored, loopVars, day>> /\ Ends(c)
        BY <1>10 DEF GetServe, PutRename
    <2> QED BY <1>b, <2>1
<1> QED BY <1>2, <1>3, <1>4, <1>5, <1>6, <1>7, <1>8, <1>9, <1>10

-----------------------------------------------------------------------------
(* Types.                                                                  *)

\* What the store does in any of these steps.
StoreMoves(who) ==
    \/ UNCHANGED <<storeVars, unlisted>>
    \/ List(who) /\ UNCHANGED unlisted
    \/ ListFails
    \/ Reindex(who)
    \/ disk' \in Shelf /\ UNCHANGED <<idx, scan, unlisted>>
    \/ \E m \in Name : idx' = Stamped(m) /\ UNCHANGED <<disk, scan, unlisted>>

\* It keeps its shape.
LEMMA StoreTyped ==
    ASSUME BackupsTypeOK, NEW who \in {"loop"} \cup Requests, StoreMoves(who)
    PROVE  disk' \in Shelf /\ idx' \in Index /\ scan' \in ScanState /\ unlisted' \in BOOLEAN
<1>1. disk \in Shelf /\ idx \in Index /\ scan \in ScanState /\ scan.listed \in Shelf /\ unlisted \in BOOLEAN
    BY Shapes DEF ScanState
<1>2. CASE UNCHANGED <<storeVars, unlisted>> \/ ListFails
    BY <1>1, <1>2 DEF storeVars, ListFails
<1>3. CASE List(who) /\ UNCHANGED unlisted
    BY <1>1, <1>3 DEF List, ScanState
<1>4. CASE Reindex(who)
    BY <1>1, <1>4, RescannedFacts, FirstValues DEF Reindex
<1>5. CASE disk' \in Shelf /\ UNCHANGED <<idx, scan, unlisted>>
    BY <1>1, <1>5
<1>6. CASE \E m \in Name : idx' = Stamped(m) /\ UNCHANGED <<disk, scan, unlisted>>
    BY <1>1, <1>6, StampedFacts
<1> QED BY <1>2, <1>3, <1>4, <1>5, <1>6 DEF StoreMoves

\* A request's step, as what it does to the store.
LEMMA RequestStore ==
    ASSUME BackupsTypeOK, NEW c \in Requests,
           \/ \E n \in Name : PutBegin(c, n) \/ GetLook(c, n)
           \/ PutBody(c) \/ PutRename(c) \/ PutList(c) \/ PutAnswer(c)
           \/ GetOpen(c) \/ GetList(c) \/ GetIndexed(c) \/ GetServe(c)
    PROVE  StoreMoves(c)
<1>0. /\ disk \in Shelf /\ idx \in Index /\ req[c] \in RequestState
    BY Shapes
<1>1. CASE (\E n \in Name : PutBegin(c, n) \/ GetLook(c, n)) \/ PutBody(c) \/ GetOpen(c)
    BY <1>1 DEF PutBegin, GetLook, PutBody, GetOpen, StoreMoves
<1>2. CASE PutRename(c)
    <2>1. disk' = [disk EXCEPT ![req[c].name] = req[c].file] /\ UNCHANGED <<idx, scan, unlisted>>
        BY <1>2 DEF PutRename
    <2>2. req[c].file \in Archive \cup {NoFile}
        BY <1>0 DEF RequestState
    <2>3. disk' \in Shelf
        BY <1>0, <2>1, <2>2 DEF Shelf
    <2> QED BY <2>1, <2>3 DEF StoreMoves
<1>3. CASE PutList(c) \/ GetList(c)
    BY <1>3 DEF PutList, GetList, StoreMoves
<1>4. CASE PutAnswer(c) \/ GetIndexed(c)
    BY <1>4 DEF PutAnswer, GetIndexed, StoreMoves
<1>5. CASE GetServe(c)
    <2>1. UNCHANGED <<disk, scan, unlisted>> /\ (idx' = idx \/ idx' = Stamped(req[c].name))
        BY <1>5 DEF GetServe
    <2>2. req[c].name \notin Name => Stamped(req[c].name) = idx
        BY <1>0 DEF Stamped, Index
    <2> QED BY <2>1, <2>2 DEF StoreMoves, storeVars
<1> QED BY <1>1, <1>2, <1>3, <1>4, <1>5

\* The loop's steps of a prune, as what they do to the store and to the loop.
LEMMA PruneFacts ==
    ASSUME BackupsTypeOK, PruneBegin \/ PruneStep
    PROVE  /\ StoreMoves("loop") /\ loop' \in LoopState /\ goal' \in Goals
           /\ branch' \in [taken : SUBSET Name, goal : Goals]
           /\ UNCHANGED <<clientVars, policy, day>>
<1>0. /\ disk \in Shelf /\ idx \in Index /\ scan \in ScanState /\ loop \in LoopState /\ goal \in Goals
      /\ branch \in [taken : SUBSET Name, goal : Goals] /\ unlisted \in BOOLEAN
    BY Shapes
<1>1. CASE PruneBegin
    <2>1. /\ UNCHANGED <<storeVars, clientVars, branch, policy, unlisted, day>> /\ goal' = Current
          /\ loop' = [pc |-> "removing", doomed |-> Expired(idx, day, Current.want), seen |-> idx, blind |-> unlisted]
        BY <1>1 DEF PruneBegin
    <2>2. Expired(idx, day, Current.want) \subseteq Name
        BY DEF Expired, Present
    <2>3. loop' \in LoopState
        BY <1>0, <2>1, <2>2 DEF LoopState
    <2> QED BY <1>0, <2>1, <2>3, GoalFacts DEF StoreMoves, clientVars
<1>2. CASE PruneRemove
    <2>1. PICK n \in loop.doomed : /\ disk' = [disk EXCEPT ![n] = NoFile] \/ UNCHANGED disk
                                   /\ loop' = [loop EXCEPT !.doomed = loop.doomed \ {n}]
        BY <1>0, <1>2 DEF PruneRemove, LoopState
    <2>2. UNCHANGED <<idx, scan, clientVars, goal, branch, policy, unlisted, day>>
        BY <1>2 DEF PruneRemove
    <2>3. loop' \in LoopState
        BY <1>0, <2>1 DEF LoopState
    <2>4. disk' \in Shelf
        BY <1>0, <2>1 DEF Shelf
    <2>5. StoreMoves("loop")
        BY <2>2, <2>4 DEF StoreMoves
    <2> QED BY <1>0, <2>2, <2>3, <2>5
<1>3. CASE PruneList
    <2>1. /\ UNCHANGED <<clientVars, goal, policy, day>>
          /\ \/ List("loop") /\ loop' = [loop EXCEPT !.pc = "listed"] /\ UNCHANGED <<unlisted, branch>>
             \/ ListFails /\ loop' = Resting /\ (branch' = branch \/ branch' = Publication(idx, goal))
        BY <1>3 DEF PruneList
    <2>2. loop' \in LoopState
        BY <1>0, <2>1, FirstValues DEF LoopState
    <2> QED BY <1>0, <2>1, <2>2, GoalFacts DEF StoreMoves
<1>4. CASE PruneEnd
    <2>1. /\ UNCHANGED <<clientVars, goal, policy, day>> /\ Reindex("loop") /\ loop' = Resting
          /\ (branch' = branch \/ branch' = Publication(idx', goal))
        BY <1>4 DEF PruneEnd
    <2>2. StoreMoves("loop")
        BY <2>1 DEF StoreMoves
    <2>3. branch' \in [taken : SUBSET Name, goal : Goals]
        BY <1>0, <2>1 DEF Publication, Taken, Present
    <2> QED BY <1>0, <2>1, <2>2, <2>3, FirstValues
<1> QED BY <1>1, <1>2, <1>3, <1>4 DEF PruneStep

\* A restart.
LEMMA RestartFacts ==
    ASSUME BackupsTypeOK, Restart
    PROVE  /\ disk' \in Shelf /\ idx' \in Index /\ unlisted' \in BOOLEAN /\ scan' = Unlocked /\ loop' = Resting
           /\ req' = [c \in Requests |-> NoRequest] /\ goal' \in Goals /\ policy' \in Policies
           /\ UNCHANGED <<branch, stored, day>>
           /\ \A n \in Name : IF disk'[n] = NoFile THEN idx'[n] = NoFile
                              ELSE /\ idx'[n] # NoFile /\ idx'[n].made = disk'[n].made /\ idx'[n].sum = disk'[n].sum
                                   /\ n \in branch.taken => idx'[n].taken \/ unlisted'
<1>0. disk \in Shelf /\ branch \in [taken : SUBSET Name, goal : Goals]
    BY Shapes
<1>1. disk' \in Shelf
    BY <1>0, FirstValues DEF Restart
<1>2. unlisted' \in BOOLEAN
    BY DEF Restart
<1> DEFINE e(n) == [made |-> disk'[n].made, sum |-> disk'[n].sum, taken |-> ~unlisted' /\ n \in Seeded]
<1>3. ASSUME NEW n \in Name, disk'[n] # NoFile
      PROVE  /\ e(n) \in Entry /\ e(n) # NoFile /\ e(n).made = disk'[n].made /\ e(n).sum = disk'[n].sum
             /\ n \in branch.taken => e(n).taken \/ unlisted'
    <2>1. disk'[n] \in Archive
        BY <1>1, <1>3 DEF Shelf
    <2>2. disk'[n].made \in 0..MaxTime /\ disk'[n].sum \in Content
        BY <2>1 DEF Archive
    <2>3. e(n) \in Entry
        BY <2>2 DEF Entry
    <2> QED BY <2>3, NoFileAssumption DEF Seeded
<1>4. idx' = [n \in Name |-> IF disk'[n] = NoFile THEN NoFile ELSE e(n)]
    BY DEF Restart
<1> HIDE DEF e
<1>5. idx' \in Index
    BY <1>3, <1>4 DEF Index
<1>6. goal' \in Goals
    <2>1. Normal(branch.goal) \in Goals
        BY <1>0, FirstValues DEF Normal
    <2>2. goal' = KeptGoal(Normal(branch.goal), idx')
        BY DEF Restart
    <2> QED BY <1>5, <2>1, <2>2, KeptFacts
<1>7. UNCHANGED <<branch, stored, day>> /\ scan' = Unlocked /\ loop' = Resting /\ policy' \in Policies
      /\ req' = [c \in Requests |-> NoRequest]
    BY DEF Restart
<1> QED BY <1>1, <1>2, <1>3, <1>4, <1>5, <1>6, <1>7

\* The state keeps its shape; an archive on disk holds what its sender declared.
LEMMA TypesNext == ASSUME BackupsTypeOK, [BackupsNext]_backupsVars PROVE BackupsTypeOK'
<1>0. /\ disk \in Shelf /\ idx \in Index /\ scan \in ScanState /\ req \in [Requests -> RequestState]
      /\ loop \in LoopState /\ goal \in Goals /\ branch \in [taken : SUBSET Name, goal : Goals]
      /\ policy \in Policies /\ unlisted \in BOOLEAN /\ day \in 0..MaxTime /\ stored \in 0..MaxPuts
    BY Shapes
<1>s. SUFFICES /\ disk' \in Shelf /\ idx' \in Index /\ scan' \in ScanState /\ req' \in [Requests -> RequestState]
               /\ loop' \in LoopState /\ goal' \in Goals /\ branch' \in [taken : SUBSET Name, goal : Goals]
               /\ policy' \in Policies /\ unlisted' \in BOOLEAN /\ day' \in 0..MaxTime /\ stored' \in 0..MaxPuts
    BY DEF BackupsTypeOK, Shelf, Index, ScanState, RequestState, LoopState, Goals
<1>1. ASSUME NEW c \in Requests,
             \/ \E n \in Name : PutBegin(c, n) \/ GetLook(c, n)
             \/ PutBody(c) \/ PutRename(c) \/ PutList(c) \/ PutAnswer(c)
             \/ GetOpen(c) \/ GetList(c) \/ GetIndexed(c) \/ GetServe(c)
      PROVE  /\ disk' \in Shelf /\ idx' \in Index /\ scan' \in ScanState /\ req' \in [Requests -> RequestState]
             /\ loop' \in LoopState /\ goal' \in Goals /\ branch' \in [taken : SUBSET Name, goal : Goals]
             /\ policy' \in Policies /\ unlisted' \in BOOLEAN /\ day' \in 0..MaxTime /\ stored' \in 0..MaxPuts
    <2>1. StoreMoves(c) /\ RequestMoves(c)
        BY <1>1, RequestStore, RequestFacts
    <2>2. disk' \in Shelf /\ idx' \in Index /\ scan' \in ScanState /\ unlisted' \in BOOLEAN
        BY <2>1, StoreTyped
    <2> QED BY <1>0, <2>1, <2>2 DEF RequestMoves, loopVars
<1>2. CASE RestoreTrigger \/ BackupReported \/ OtherEvent
    BY <1>0, <1>2, HandlesFacts DEF storeVars, clientVars
<1>3. CASE PruneBegin \/ PruneStep
    <2>1. disk' \in Shelf /\ idx' \in Index /\ scan' \in ScanState /\ unlisted' \in BOOLEAN
        BY <1>3, PruneFacts, StoreTyped
    <2> QED BY <1>0, <1>3, <2>1, PruneFacts DEF clientVars
<1>4. CASE Restart
    BY <1>0, <1>4, RestartFacts, FirstValues
<1>5. CASE DayPasses
    BY <1>0, <1>5, StoreBoundsAssumption DEF DayPasses, storeVars, clientVars, loopVars
<1>6. CASE UNCHANGED backupsVars
    BY <1>0, <1>6 DEF backupsVars, storeVars, clientVars, loopVars
<1> QED BY <1>1, <1>2, <1>3, <1>4, <1>5, <1>6 DEF BackupsNext, UploadStep, DownloadStep

-----------------------------------------------------------------------------
(* The invariant.                                                          *)

\* Nothing is on its way to or from the directory that no listing has seen.
Quiet == loop.pc # "removing" /\ \A c \in Requests : req[c].pc # "renamed"
Agree(n) == IF disk[n] = NoFile THEN idx[n] = NoFile
            ELSE idx[n] # NoFile /\ idx[n].made = disk[n].made /\ idx[n].sum = disk[n].sum

\* A body that is ready to be renamed is there; the loop lists when it has removed.
Arrived == \A c \in Requests : req[c].pc = "written" => req[c].file # NoFile
Owner == scan.by = "loop" => loop.pc = "listed"
\* When it is quiet, a listing under way is of the directory as it is, and the index is it.
ListFresh == Quiet /\ scan.by # "nobody" => scan.listed = disk
IndexFresh == Quiet /\ scan.by = "nobody" /\ unlisted = FALSE => \A n \in Name : Agree(n)
\* What a listing or the index still has and the directory has not, a prune that is not
\* over has removed; it is not what is to be restored.
ListGhosts ==
    scan.by # "nobody" =>
        \A n \in Name : scan.listed[n] # NoFile /\ disk[n] = NoFile => loop.pc = "removing" /\ n # goal.want
Ghosts ==
    unlisted = FALSE =>
        \A n \in Name : idx[n] # NoFile /\ disk[n] = NoFile => loop.pc # "idle" /\ n # goal.want
\* A prune spares the target and one archive at least.
Spared == loop.pc = "removing" => goal.want \notin loop.doomed
LeavesOne == loop.pc = "removing" /\ loop.blind = FALSE => \E n \in Name : disk[n] # NoFile /\ n \notin loop.doomed

StoreInv == ListFresh /\ IndexFresh /\ ListGhosts /\ Ghosts /\ Spared /\ LeavesOne
BackupsInv == BackupsTypeOK /\ Arrived /\ Owner /\ StoreInv

\* Nothing moves but a stamp.
LEMMA StoreStays ==
    ASSUME BackupsTypeOK, StoreInv, UNCHANGED <<disk, scan, loop, goal, unlisted>>, Quiet' => Quiet,
           idx' = idx \/ \E m \in Name : idx' = Stamped(m)
    PROVE  StoreInv'
<1>1. idx \in Index
    BY Shapes
<1>2. \A n \in Name : /\ idx'[n] = NoFile <=> idx[n] = NoFile
                      /\ idx[n] # NoFile => idx'[n].made = idx[n].made /\ idx'[n].sum = idx[n].sum
    BY <1>1, StampedFacts
<1>3. ASSUME NEW n \in Name, Agree(n) PROVE Agree(n)'
    BY <1>2, <1>3 DEF Agree
<1>4. IndexFresh'
    BY <1>3 DEF StoreInv, IndexFresh
<1>5. Ghosts'
    BY <1>2 DEF StoreInv, Ghosts
<1> QED BY <1>4, <1>5 DEF StoreInv, ListFresh, ListGhosts, Spared, LeavesOne

\* An upload gets its name.
LEMMA RenameKeeps ==
    ASSUME BackupsTypeOK, StoreInv, UNCHANGED <<idx, scan, loop, goal, unlisted>>, ~Quiet',
           \A n \in Name : disk[n] # NoFile => disk'[n] # NoFile
    PROVE  StoreInv'
BY DEF StoreInv, ListFresh, IndexFresh, ListGhosts, Ghosts, Spared, LeavesOne

\* The directory is listed, by a request or at the end of a prune.
LEMMA ListKeeps ==
    ASSUME BackupsTypeOK, StoreInv, NEW who \in {"loop"} \cup Requests, List(who), UNCHANGED <<goal, unlisted>>,
           loop' = loop \/ (loop.pc = "removing" /\ loop'.pc = "listed")
    PROVE  StoreInv'
<1>1. scan' = [by |-> who, listed |-> disk] /\ UNCHANGED <<disk, idx>> /\ who # "nobody"
    BY StoreBoundsAssumption DEF List
<1>2. scan'.by # "nobody" /\ scan'.listed = disk'
    BY <1>1
<1> QED BY <1>1, <1>2 DEF StoreInv, ListFresh, IndexFresh, ListGhosts, Ghosts, Spared, LeavesOne

\* It cannot be listed.
LEMMA ListFailsKeeps ==
    ASSUME BackupsTypeOK, StoreInv, ListFails, UNCHANGED goal, loop' = loop \/ loop'.pc = "idle"
    PROVE  StoreInv'
<1>1. UNCHANGED <<disk, idx, scan>> /\ scan.by = "nobody" /\ unlisted' = TRUE
    BY DEF ListFails, storeVars, Free
<1> QED BY <1>1 DEF StoreInv, ListFresh, IndexFresh, ListGhosts, Ghosts, Spared, LeavesOne

\* The listing becomes the index.
LEMMA ReindexKeeps ==
    ASSUME BackupsTypeOK, StoreInv, NEW who \in {"loop"} \cup Requests, Reindex(who), UNCHANGED goal, Quiet' => Quiet,
           loop' = loop \/ (loop.pc = "listed" /\ loop'.pc = "idle")
    PROVE  StoreInv'
<1>1. /\ scan.by # "nobody" /\ scan' = Unlocked /\ disk' = disk /\ unlisted' = FALSE
      /\ idx' = Rescanned(idx, scan.listed)
    BY StoreBoundsAssumption DEF Reindex
<1>2. disk \in Shelf /\ idx \in Index /\ scan.listed \in Shelf
    BY Shapes DEF ScanState
<1>3. scan'.by = "nobody"
    BY <1>1, FirstValues
<1>4. IndexFresh'
    <2> SUFFICES ASSUME Quiet', NEW n \in Name PROVE Agree(n)'
        BY DEF IndexFresh
    <2>1. scan.listed = disk
        BY <1>1 DEF StoreInv, ListFresh
    <2> QED BY <1>1, <1>2, <2>1, RescannedFacts DEF Agree
<1>5. Ghosts'
    <2> SUFFICES ASSUME NEW n \in Name, idx'[n] # NoFile, disk'[n] = NoFile
                 PROVE  loop'.pc # "idle" /\ n # goal'.want
        BY DEF Ghosts
    <2>1. scan.listed[n] # NoFile
        BY <1>1, <1>2, RescannedFacts
    <2>2. loop.pc = "removing" /\ n # goal.want
        BY <1>1, <2>1 DEF StoreInv, ListGhosts
    <2> QED BY <2>2
<1>6. ListFresh' /\ ListGhosts'
    BY <1>3 DEF ListFresh, ListGhosts
<1>7. Spared' /\ LeavesOne'
    BY <1>1 DEF StoreInv, Spared, LeavesOne
<1> QED BY <1>4, <1>5, <1>6, <1>7 DEF StoreInv

\* The loop, at rest, sets another target.
LEMMA GoalKeeps ==
    ASSUME BackupsTypeOK, StoreInv, loop.pc = "idle", UNCHANGED <<disk, idx, scan, loop, unlisted>>, Quiet' => Quiet
    PROVE  StoreInv'
<1>1. \A n \in Name : Agree(n) => Agree(n)'
    BY DEF Agree
<1> QED BY <1>1 DEF StoreInv, ListFresh, IndexFresh, ListGhosts, Ghosts, Spared, LeavesOne

\* A prune decides ...
LEMMA PruneBeginKeeps == ASSUME BackupsTypeOK, StoreInv, PruneBegin PROVE StoreInv'
<1> DEFINE doomed == Expired(idx, day, Current.want)
<1>1. /\ loop.pc = "idle" /\ scan.by = "nobody" /\ UNCHANGED <<disk, idx, scan, unlisted>>
      /\ goal' = Current /\ loop' = [pc |-> "removing", doomed |-> doomed, seen |-> idx, blind |-> unlisted]
      /\ doomed # {}
    BY DEF PruneBegin, storeVars, Free
<1>2. idx \in Index
    BY Shapes
<1>3. goal'.want \notin doomed /\ \E n \in Present(idx) : n \notin doomed
    BY <1>1, <1>2, ExpiredFacts
<1> HIDE DEF doomed
<1>4. loop'.pc = "removing" /\ loop'.doomed = doomed /\ loop'.blind = unlisted
    BY <1>1
<1>5. LeavesOne'
    <2> SUFFICES ASSUME unlisted = FALSE PROVE \E n \in Name : disk'[n] # NoFile /\ n \notin loop'.doomed
        BY <1>4 DEF LeavesOne
    <2>1. PICK n \in Present(idx) : n \notin doomed
        BY <1>3
    <2>2. n \in Name /\ idx[n] # NoFile
        BY DEF Present
    <2> QED BY <1>1, <1>4, <2>1, <2>2 DEF StoreInv, Ghosts
<1>6. Ghosts'
    BY <1>1 DEF StoreInv, Ghosts
<1> QED BY <1>1, <1>3, <1>4, <1>5, <1>6 DEF StoreInv, ListFresh, IndexFresh, ListGhosts, Spared, Quiet

\* ... and removes.
LEMMA PruneRemoveKeeps == ASSUME BackupsTypeOK, StoreInv, PruneRemove PROVE StoreInv'
<1>0. loop \in LoopState /\ disk \in Shelf
    BY Shapes
<1>1. PICK n \in loop.doomed : /\ disk' = [disk EXCEPT ![n] = NoFile] \/ UNCHANGED disk
                               /\ loop' = [loop EXCEPT !.doomed = loop.doomed \ {n}]
    BY <1>0 DEF PruneRemove, LoopState
<1>2. loop.pc = "removing" /\ UNCHANGED <<idx, scan, goal, unlisted>>
    BY DEF PruneRemove
<1>3. loop'.pc = "removing" /\ loop'.doomed = loop.doomed \ {n} /\ loop'.blind = loop.blind /\ n \in Name
    BY <1>0, <1>1, <1>2 DEF LoopState
<1>4. \A m \in Name : m # n => disk'[m] = disk[m]
    BY <1>0, <1>1 DEF Shelf
<1>5. n # goal.want
    BY <1>1, <1>2 DEF StoreInv, Spared
<1>6. Spared'
    BY <1>2, <1>3 DEF StoreInv, Spared
<1>7. LeavesOne'
    BY <1>1, <1>2, <1>3, <1>4 DEF StoreInv, LeavesOne
<1>8. Ghosts'
    BY <1>2, <1>3, <1>4, <1>5 DEF StoreInv, Ghosts
<1>9. ListGhosts'
    BY <1>2, <1>3, <1>4, <1>5 DEF StoreInv, ListGhosts
<1> QED BY <1>3, <1>6, <1>7, <1>8, <1>9 DEF StoreInv, ListFresh, IndexFresh, Quiet

\* A new process.
LEMMA RestartKeeps == ASSUME BackupsTypeOK, Restart PROVE StoreInv'
<1>1. scan'.by = "nobody" /\ loop'.pc = "idle"
    BY RestartFacts, FirstValues
<1>2. \A n \in Name : Agree(n)'
    BY RestartFacts DEF Agree
<1> QED BY <1>1, <1>2 DEF StoreInv, ListFresh, IndexFresh, ListGhosts, Ghosts, Spared, LeavesOne, Agree

\* The requests' steps.
LEMMA RequestKeeps ==
    ASSUME BackupsInv, NEW c \in Requests,
           \/ \E n \in Name : PutBegin(c, n) \/ GetLook(c, n)
           \/ PutBody(c) \/ PutRename(c) \/ PutList(c) \/ PutAnswer(c)
           \/ GetOpen(c) \/ GetList(c) \/ GetIndexed(c) \/ GetServe(c)
    PROVE  Arrived' /\ Owner' /\ StoreInv'
<1>0. BackupsTypeOK /\ StoreInv /\ req \in [Requests -> RequestState] /\ req[c] \in RequestState /\ idx \in Index
    BY Shapes DEF BackupsInv
<1>1. PICK r \in RequestState : /\ req' = [req EXCEPT ![c] = r] /\ (PutRename(c) <=> r.pc = "renamed")
                                /\ (r.pc = "written" => r.file # NoFile)
    BY <1>0, RequestFacts DEF RequestMoves
<1>2. UNCHANGED <<loop, goal>>
    BY <1>0, RequestFacts DEF RequestMoves, loopVars
<1>3. Arrived'
    BY <1>0, <1>1 DEF BackupsInv, Arrived
<1>4. Owner'
    <2>1. StoreMoves(c) /\ c # "loop" /\ c # "nobody"
        BY <1>0, RequestStore, StoreBoundsAssumption
    <2>2. scan' = scan \/ scan'.by = c \/ scan'.by = "nobody"
        BY <2>1, FirstValues DEF StoreMoves, List, ListFails, Reindex, storeVars
    <2> QED BY <1>2, <2>1, <2>2 DEF BackupsInv, Owner
<1>5. ASSUME req[c].pc # "renamed", Quiet' PROVE Quiet
    BY <1>0, <1>1, <1>2, <1>5 DEF Quiet
<1>6. CASE (\E n \in Name : PutBegin(c, n) \/ GetLook(c, n)) \/ PutBody(c) \/ GetOpen(c)
    <2>1. req[c].pc # "renamed"
        BY <1>6, FirstValues DEF PutBegin, GetLook, PutBody, GetOpen
    <2>2. UNCHANGED <<storeVars, unlisted>>
        BY <1>6 DEF PutBegin, GetLook, PutBody, GetOpen
    <2> QED BY <1>0, <1>3, <1>4, <1>2, <1>5, <2>1, <2>2, StoreStays DEF storeVars
<1>7. CASE GetServe(c)
    <2>1. req[c].pc # "renamed" /\ UNCHANGED <<disk, scan, unlisted>> /\ (idx' = idx \/ idx' = Stamped(req[c].name))
        BY <1>7 DEF GetServe
    <2>2. req[c].name \notin Name => Stamped(req[c].name) = idx
        BY <1>0 DEF Stamped, Index
    <2> QED BY <1>0, <1>3, <1>4, <1>2, <1>5, <2>1, <2>2, StoreStays
<1>8. CASE PutRename(c)
    <2>1. disk' = [disk EXCEPT ![req[c].name] = req[c].file] /\ UNCHANGED <<idx, scan, unlisted>>
          /\ req[c].pc = "written"
        BY <1>8 DEF PutRename
    <2>2. req[c].file # NoFile
        BY <2>1 DEF BackupsInv, Arrived
    <2>3. \A n \in Name : disk[n] # NoFile => disk'[n] # NoFile
        BY <1>0, <2>1, <2>2, Shapes DEF Shelf
    <2>4. ~Quiet'
        BY <1>0, <1>1, <1>8 DEF Quiet
    <2> QED BY <1>0, <1>3, <1>4, <1>2, <2>1, <2>3, <2>4, RenameKeeps
<1>9. CASE PutList(c) \/ GetList(c)
    <2>1. (List(c) /\ UNCHANGED unlisted) \/ ListFails
        BY <1>9 DEF PutList, GetList
    <2> QED BY <1>0, <1>3, <1>4, <1>2, <2>1, ListKeeps, ListFailsKeeps
<1>10. CASE PutAnswer(c) \/ GetIndexed(c)
    <2>1. Reindex(c) /\ req[c].pc # "renamed"
        BY <1>10 DEF PutAnswer, GetIndexed
    <2> QED BY <1>0, <1>3, <1>4, <1>2, <1>5, <2>1, ReindexKeeps
<1> QED BY <1>6, <1>7, <1>8, <1>9, <1>10

\* The loop's steps of a prune.
LEMMA PruneKeeps == ASSUME BackupsInv, PruneBegin \/ PruneStep PROVE Arrived' /\ Owner' /\ StoreInv'
<1>0. BackupsTypeOK /\ StoreInv /\ loop \in LoopState /\ UNCHANGED req
    BY PruneFacts, Shapes DEF BackupsInv, clientVars
<1>1. Arrived'
    BY <1>0 DEF BackupsInv, Arrived
<1>2. CASE PruneBegin
    <2>1. scan' = scan /\ scan.by = "nobody"
        BY <1>2 DEF PruneBegin, storeVars, Free
    <2> QED BY <1>0, <1>1, <1>2, <2>1, PruneBeginKeeps DEF Owner
<1>3. CASE PruneRemove
    <2>1. scan' = scan /\ loop.pc = "removing"
        BY <1>3 DEF PruneRemove
    <2> QED BY <1>0, <1>1, <1>3, <2>1, PruneRemoveKeeps DEF BackupsInv, Owner
<1>4. CASE PruneList
    <2>1. /\ UNCHANGED goal /\ loop.pc = "removing"
          /\ \/ List("loop") /\ loop' = [loop EXCEPT !.pc = "listed"] /\ UNCHANGED unlisted
             \/ ListFails /\ loop' = Resting
        BY <1>4 DEF PruneList
    <2>2. CASE ListFails /\ loop' = Resting
        <3>1. scan' = scan /\ scan.by = "nobody"
            BY <2>2 DEF ListFails, storeVars, Free
        <3> QED BY <1>0, <1>1, <2>1, <2>2, <3>1, ListFailsKeeps, FirstValues DEF Owner
    <2>3. CASE List("loop") /\ loop' = [loop EXCEPT !.pc = "listed"] /\ UNCHANGED unlisted
        <3>1. loop'.pc = "listed"
            BY <1>0, <2>3 DEF LoopState
        <3> QED BY <1>0, <1>1, <2>1, <2>3, <3>1, ListKeeps DEF Owner
    <2> QED BY <2>1, <2>2, <2>3
<1>5. CASE PruneEnd
    <2>1. UNCHANGED goal /\ Reindex("loop") /\ loop' = Resting
        BY <1>5 DEF PruneEnd
    <2>2. loop.pc = "listed" /\ loop'.pc = "idle"
        BY <2>1, FirstValues DEF Reindex, BackupsInv, Owner
    <2>3. Quiet' => Quiet
        BY <1>0, <2>2 DEF Quiet
    <2>4. Owner'
        BY <2>1, FirstValues DEF Reindex, Owner
    <2> QED BY <1>0, <1>1, <2>1, <2>2, <2>3, <2>4, ReindexKeeps
<1> QED BY <1>2, <1>3, <1>4, <1>5 DEF PruneStep

\* The invariant is inductive.
LEMMA BackupsInvNext == ASSUME BackupsInv, [BackupsNext]_backupsVars PROVE BackupsInv'
<1>0. BackupsTypeOK /\ StoreInv /\ BackupsTypeOK'
    BY TypesNext DEF BackupsInv
<1>1. ASSUME NEW c \in Requests,
             \/ \E n \in Name : PutBegin(c, n) \/ GetLook(c, n)
             \/ PutBody(c) \/ PutRename(c) \/ PutList(c) \/ PutAnswer(c)
             \/ GetOpen(c) \/ GetList(c) \/ GetIndexed(c) \/ GetServe(c)
      PROVE  BackupsInv'
    BY <1>0, <1>1, RequestKeeps DEF BackupsInv
<1>2. CASE RestoreTrigger \/ BackupReported \/ OtherEvent
    <2>1. loop.pc = "idle" /\ UNCHANGED <<disk, idx, scan, req, loop, unlisted>>
        BY <1>0, <1>2, HandlesFacts DEF storeVars, clientVars
    <2>2. Quiet' => Quiet
        BY <2>1 DEF Quiet
    <2> QED BY <1>0, <2>1, <2>2, GoalKeeps DEF BackupsInv, Arrived, Owner
<1>3. CASE PruneBegin \/ PruneStep
    BY <1>0, <1>3, PruneKeeps DEF BackupsInv
<1>4. CASE Restart
    <2>1. Arrived' /\ Owner'
        BY <1>0, <1>4, RestartFacts, FirstValues DEF Arrived, Owner
    <2> QED BY <1>0, <1>4, <2>1, RestartKeeps DEF BackupsInv
<1>5. CASE DayPasses \/ UNCHANGED backupsVars
    <2>1. UNCHANGED <<disk, idx, scan, req, loop, goal, unlisted>>
        BY <1>5 DEF DayPasses, backupsVars, storeVars, clientVars, loopVars
    <2>2. Quiet' => Quiet
        BY <2>1 DEF Quiet
    <2> QED BY <1>0, <2>1, <2>2, StoreStays DEF BackupsInv, Arrived, Owner
<1> QED BY <1>1, <1>2, <1>3, <1>4, <1>5 DEF BackupsNext, UploadStep, DownloadStep

\* It holds of an empty directory.
LEMMA BackupsInvInit == BackupsInit => BackupsInv
<1> SUFFICES ASSUME BackupsInit PROVE BackupsInv
    OBVIOUS
<1>1. BackupsTypeOK
    <2>1. /\ disk \in Shelf /\ idx \in Index /\ scan \in ScanState /\ req \in [Requests -> RequestState]
          /\ loop \in LoopState /\ goal \in Goals /\ branch \in [taken : SUBSET Name, goal : Goals]
          /\ policy \in Policies /\ unlisted \in BOOLEAN /\ day \in 0..MaxTime /\ stored \in 0..MaxPuts
        <3>1. branch \in [taken : SUBSET Name, goal : Goals]
            BY FirstValues DEF BackupsInit
        <3>2. req \in [Requests -> RequestState]
            BY FirstValues DEF BackupsInit
        <3>3. disk \in Shelf /\ idx \in Index /\ scan \in ScanState /\ loop \in LoopState /\ goal \in Goals
            BY FirstValues DEF BackupsInit
        <3>4. policy \in Policies /\ unlisted \in BOOLEAN
            BY PoliciesAssumption DEF BackupsInit
        <3>5. day \in 0..MaxTime /\ stored \in 0..MaxPuts
            BY StoreBoundsAssumption DEF BackupsInit
        <3> QED BY <3>1, <3>2, <3>3, <3>4, <3>5
    <2> QED BY <2>1, Shapes
<1>2. Arrived /\ Owner
    BY FirstValues DEF BackupsInit, Arrived, Owner
<1>3. StoreInv
    BY FirstValues DEF BackupsInit, StoreInv, ListFresh, IndexFresh, ListGhosts, Ghosts, Spared, LeavesOne, Agree
<1> QED BY <1>1, <1>2, <1>3 DEF BackupsInv

-----------------------------------------------------------------------------
\* The target the next boot is sent to is on the disk, and a prune leaves one archive, in
\* any order of uploads, listings, prunes, follows, pins and restarts, unless a listing
\* failed (dropMissingRestoreTarget, pruneBackups, Expired).
THEOREM ArchivesAreThere == BackupsSpec => []Restorable
<1>1. BackupsInv => Restorable
    <2> SUFFICES ASSUME BackupsInv PROVE Restorable
        OBVIOUS
    <2>0. goal \in Goals /\ idx \in Index /\ loop \in LoopState /\ unlisted \in BOOLEAN
        BY Shapes DEF BackupsInv
    <2>1. ASSUME ~unlisted, Current.want # NoName PROVE disk[Current.want] # NoFile
        <3>1. Current = goal /\ idx[goal.want] # NoFile /\ goal.want \in Name
            BY <2>0, <2>1, KeptFacts DEF Current, Goals
        <3> QED BY <2>0, <2>1, <3>1 DEF BackupsInv, StoreInv, Ghosts
    <2>2. ASSUME loop.pc = "removing", ~loop.blind PROVE Present(disk) \ loop.doomed # {}
        <3>1. loop.blind = FALSE
            BY <2>0, <2>2 DEF LoopState
        <3> QED BY <2>2, <3>1 DEF BackupsInv, StoreInv, LeavesOne, Present
    <2> QED BY <2>1, <2>2 DEF Restorable, TargetOnDisk, PruneLeavesOne
<1>2. QED
    BY <1>1, BackupsInvInit, BackupsInvNext, PTL DEF BackupsSpec

\* Once no upload, prune or listing is under way the index says of every name what the
\* directory does (invariant I10: rescanLocked, Put, Prune).
THEOREM IndexIsTheDirectory == BackupsSpec => []IndexAgrees
<1>1. BackupsInv => IndexAgrees
    <2> SUFFICES ASSUME BackupsInv, AtRest, ~unlisted PROVE \A n \in Name : Agree(n)
        BY DEF IndexAgrees, Agree
    <2>1. unlisted = FALSE
        BY Shapes DEF BackupsInv
    <2> QED BY <2>1 DEF BackupsInv, StoreInv, IndexFresh, AtRest, Quiet, Free
<1>2. QED
    BY <1>1, BackupsInvInit, BackupsInvNext, PTL DEF BackupsSpec

\* An operator's choice by name stands until the operator changes it or the archive is
\* gone (recordBackup).
THEOREM PinsHold == BackupsSpec => PinHolds
<1>1. ASSUME BackupsInv, [BackupsNext]_backupsVars
      PROVE  [goal.pinned /\ idx[goal.want] # NoFile /\ goal' # goal => RestoreTrigger \/ Restart]_backupsVars
    <2> SUFFICES ASSUME BackupsNext, goal.pinned, idx[goal.want] # NoFile, goal' # goal
                 PROVE  RestoreTrigger \/ Restart
        BY <1>1
    <2>0. BackupsTypeOK /\ goal \in Goals /\ idx \in Index
        BY <1>1, Shapes DEF BackupsInv
    <2>1. Current = goal
        BY DEF Current, KeptGoal, NoGoal
    <2>2. ASSUME NEW c \in Requests,
                 \/ \E n \in Name : PutBegin(c, n) \/ GetLook(c, n)
                 \/ PutBody(c) \/ PutRename(c) \/ PutList(c) \/ PutAnswer(c)
                 \/ GetOpen(c) \/ GetList(c) \/ GetIndexed(c) \/ GetServe(c)
          PROVE  FALSE
        BY <2>0, <2>2, RequestFacts DEF RequestMoves, loopVars
    <2>3. ~BackupReported /\ ~OtherEvent
        BY <2>1 DEF BackupReported, OtherEvent, Handles, Recorded
    <2>4. ~PruneBegin /\ ~PruneStep
        BY <2>1 DEF PruneBegin, PruneStep, PruneRemove, PruneList, PruneEnd
    <2>5. ~DayPasses
        BY DEF DayPasses, loopVars
    <2> QED BY <2>2, <2>3, <2>4, <2>5 DEF BackupsNext, UploadStep, DownloadStep
<1>2. QED
    BY <1>1, BackupsInvInit, BackupsInvNext, PTL DEF BackupsSpec, PinHolds

\* That a copy was taken off the disk is not forgotten while the name is in the index: by
\* no rescan, upload or prune and, once published, by no restart that could list the
\* directory (rescanLocked, Seed).
THEOREM StampsAreKept == BackupsSpec => StampKept
<1>1. ASSUME BackupsInv, [BackupsNext]_backupsVars
      PROVE  [\A n \in Taken(idx) : idx'[n] # NoFile =>
                idx'[n].taken \/ (Restart /\ (n \notin branch.taken \/ unlisted'))]_backupsVars
    <2> SUFFICES ASSUME BackupsNext, NEW n \in Taken(idx), idx'[n] # NoFile
                 PROVE  idx'[n].taken \/ (Restart /\ (n \notin branch.taken \/ unlisted'))
        BY <1>1
    <2>0. BackupsTypeOK /\ idx \in Index /\ disk \in Shelf /\ scan \in ScanState
        BY <1>1, Shapes DEF BackupsInv
    <2>1. n \in Name /\ idx[n] # NoFile /\ idx[n].taken
        BY DEF Taken, Present
    <2>2. ASSUME NEW who \in {"loop"} \cup Requests, StoreMoves(who) PROVE idx'[n].taken
        <3>1. scan.listed \in Shelf
            BY <2>0 DEF ScanState
        <3>2. CASE Reindex(who)
            <4>1. idx' = Rescanned(idx, scan.listed)
                BY <3>2 DEF Reindex
            <4> QED BY <2>0, <2>1, <3>1, <4>1, RescannedFacts
        <3>3. CASE \E m \in Name : idx' = Stamped(m) /\ UNCHANGED <<disk, scan, unlisted>>
            BY <2>0, <2>1, <3>3, StampedFacts
        <3>4. CASE idx' = idx
            BY <2>1, <3>4
        <3> QED BY <2>2, <3>2, <3>3, <3>4 DEF StoreMoves, List, ListFails, storeVars
    <2>3. ASSUME NEW c \in Requests,
                 \/ \E m \in Name : PutBegin(c, m) \/ GetLook(c, m)
                 \/ PutBody(c) \/ PutRename(c) \/ PutList(c) \/ PutAnswer(c)
                 \/ GetOpen(c) \/ GetList(c) \/ GetIndexed(c) \/ GetServe(c)
          PROVE  idx'[n].taken
        BY <2>0, <2>2, <2>3, RequestStore
    <2>4. CASE RestoreTrigger \/ BackupReported \/ OtherEvent
        BY <2>0, <2>1, <2>4, HandlesFacts DEF storeVars
    <2>5. CASE PruneBegin \/ PruneStep
        BY <2>0, <2>2, <2>5, PruneFacts
    <2>6. CASE Restart
        BY <2>0, <2>1, <2>6, RestartFacts
    <2>7. CASE DayPasses
        BY <2>1, <2>7 DEF DayPasses, storeVars
    <2> QED BY <2>3, <2>4, <2>5, <2>6, <2>7 DEF BackupsNext, UploadStep, DownloadStep
<1>2. QED
    BY <1>1, BackupsInvInit, BackupsInvNext, PTL DEF BackupsSpec, StampKept

\* The disk, the index and the loop's lists have the shapes the code gives them, in any
\* order of requests, scans, prunes and restarts.
THEOREM BackupsTypeCorrect == BackupsSpec => []BackupsTypeOK
<1>1. BackupsInv => BackupsTypeOK
    BY DEF BackupsInv
<1> QED BY <1>1, BackupsInvInit, BackupsInvNext, PTL DEF BackupsSpec
=============================================================================
