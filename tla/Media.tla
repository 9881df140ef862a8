------------------------------- MODULE Media --------------------------------
(***************************************************************************)
(* The archive of the creative studio: one work of several pictures and one *)
(* video, their rows, and the files in the local directory and on a WebDAV  *)
(* server.  Rows are written by transactions, files by requests that can    *)
(* break off, and nothing but the order of the two keeps them together.     *)
(*                                                                         *)
(* A request archives the pictures it generated; whoever opens a picture    *)
(* that has no file of the right size archives the work again, under a      *)
(* lock; the poller archives the video under a fixed name; works are        *)
(* deleted; an administrator changes the store; two commands work on the    *)
(* same files from outside.  Of a file it matters whether it is whole or    *)
(* cut short, and sizes are always reported.                                *)
(***************************************************************************)
EXTENDS Naturals, Sequences, FiniteSets, TLC

CONSTANTS
    Readers,        \* requests that open a file
    Pictures,       \* 1..n, the pictures of the work
    Tokens,         \* 1..k, attempts to archive it: each makes names of its own
    MaxRequests,    \* bound: works opened or deleted, commands run
    MaxTrouble      \* bound: things that go wrong

ASSUME MediaAssumption ==
    /\ IsFiniteSet(Pictures) /\ Pictures = 1..Cardinality(Pictures) /\ Pictures # {}
    /\ IsFiniteSet(Tokens) /\ Tokens = 1..Cardinality(Tokens) /\ Tokens # {}
    /\ Readers \cap {"maker", "poller", "deleter", "migrator", "recoverer", "free"} = {}
    /\ MaxRequests \in Nat /\ MaxTrouble \in Nat

VARIABLES
    media,      \* the store in use: "local", "webdav", or "both" with local as fallback
    files,      \* what the two stores hold
    image,      \* the row of the work, with the token of its image rows, 0 for none
    video,      \* the row of the video
    linked,     \* the provider still serves the pictures
    lock,       \* mediaMu: the reader that archives, or "free"
    activity,
    requests,
    trouble,
    damaged,    \* history: names of files cut short or lost from outside
    leftovers   \* history: something made it impossible to remove every file

rowVars == <<image, video>>
envVars == <<linked, requests>>
troubleVars == <<trouble, damaged, leftovers>>
mediaVars == <<media, files, rowVars, envVars, lock, activity, troubleVars>>

Stores == {"local", "webdav"}
Picture(t, i) == <<"image", t, i>>
VideoName == <<"video", 0, 0>>
PicturesOf(t) == {Picture(t, i) : i \in Pictures}
FilesOf(t) == IF t = 0 THEN {} ELSE PicturesOf(t)
Names == (UNION {PicturesOf(t) : t \in Tokens}) \cup {VideoName}

Server == Readers \cup {"maker", "poller", "deleter"}
Commands == {"migrator", "recoverer"}
NoTask == [at |-> "idle"]

MayStart == requests < MaxRequests /\ requests' = requests + 1
Trouble == trouble < MaxTrouble /\ trouble' = trouble + 1
Leftovers == leftovers' = TRUE

Doing(a, at) == activity[a].at = at
Become(a, task) == activity' = [activity EXCEPT ![a] = task]
Goto(a, at) == activity' = [activity EXCEPT ![a].at = at]

-----------------------------------------------------------------------------
(***************************************************************************)
(* The stores.  Local files are renamed into place; an upload may leave     *)
(* anything behind when it fails.                                           *)
(***************************************************************************)
Stack == CASE media = "local" -> <<"local">>
           [] media = "webdav" -> <<"webdav">>
           [] media = "both" -> <<"webdav", "local">>

Primary == Stack[1]
Reach == {Stack[n] : n \in DOMAIN Stack}

\* Of one store; a server that refuses to tell is asked for the first byte.
Stat(s, name) == files[s][name]

\* Open and Stat of the fallback store: only what is not found falls through.
Found(name) ==
    LET holders == {n \in DOMAIN Stack : Stat(Stack[n], name) # "none"}
    IN IF holders = {} THEN "none"
       ELSE Stat(Stack[CHOOSE n \in holders : \A k \in holders : n <= k], name)

PutAt(s, name) == files' = [files EXCEPT ![s][name] = "whole"]

BrokenPut(s) == IF s = "local" THEN {"none"} ELSE {"none", "short", "whole"}

PutBreaks(s, name) ==
    \E left \in BrokenPut(s) :
        files' = IF left = "none" THEN files ELSE [files EXCEPT ![s][name] = left]

\* Mutant: only the store in use is cleaned, not the one it falls back to.
WithoutInPrimary(S) == [files EXCEPT ![Primary] = [n \in Names |-> IF n \in S THEN "none" ELSE @[n]]]

Without(S) == [s \in Stores |-> [n \in Names |-> IF s \in Reach /\ n \in S THEN "none" ELSE files[s][n]]]

\* A loop of Deletes whose errors are counted or ignored.
Removed(S) ==
    \/ files' = Without(S) /\ UNCHANGED troubleVars
    \/ /\ Trouble
       /\ \E done \in SUBSET S : files' = Without(done)
       /\ Leftovers
       /\ UNCHANGED damaged

-----------------------------------------------------------------------------
(***************************************************************************)
(* archiveImages, for the request that generated the pictures ("maker") and *)
(* for readers.                                                             *)
(***************************************************************************)
Task(at, kind, i) ==
    [at |-> at, kind |-> kind, i |-> i, token |-> 0, next |-> 1, old |-> 0, again |-> FALSE, since |-> trouble]

Archivers == Readers \cup {"maker"}

\* Names are random: a token that a file, a row, a task or the history still
\* mentions is not drawn again.
Used == {t \in Tokens : \/ \E name \in PicturesOf(t), s \in Stores : files[s][name] # "none"
                        \/ PicturesOf(t) \cap damaged # {}
                        \/ image.token = t
                        \/ \E a \in Archivers : activity[a] # NoTask /\ activity[a].token = t
                        \/ activity["migrator"] # NoTask /\ PicturesOf(t) \cap activity["migrator"].all # {}}

PutSoFar(a) == {Picture(activity[a].token, i) : i \in 1..(activity[a].next - 1)}

Make ==
    /\ activity["maker"] = NoTask
    /\ image.status = "processing"
    /\ \E t \in Tokens \ Used : Become("maker", [Task("put", "image", 1) EXCEPT !.token = t])
    /\ UNCHANGED <<media, files, rowVars, envVars, lock, troubleVars>>

PutPicture(a) ==
    /\ Doing(a, "put") /\ activity[a].next \in Pictures
    /\ a = "maker" \/ linked
    /\ PutAt(Primary, Picture(activity[a].token, activity[a].next))
    /\ activity' = [activity EXCEPT ![a].next = @ + 1]
    /\ UNCHANGED <<media, rowVars, envVars, lock, troubleVars>>

\* Download or upload fails.  What was put before is removed, this one is not.
PutFails(a) ==
    /\ Doing(a, "put") /\ activity[a].next \in Pictures
    /\ \/ a # "maker" /\ ~linked /\ UNCHANGED <<files, troubleVars>>
       \/ /\ Trouble
          /\ PutBreaks(Primary, Picture(activity[a].token, activity[a].next))
          /\ leftovers' = (leftovers \/ files' # files)
          /\ UNCHANGED damaged
    /\ Goto(a, "clean")
    /\ UNCHANGED <<media, rowVars, envVars, lock>>

\* CompleteCreativeImageJob: the work and all of its image rows at once.
Complete(a) ==
    /\ Doing(a, "put") /\ activity[a].next \notin Pictures
    /\ \/ /\ image' = [image EXCEPT !.status = "completed", !.token = activity[a].token]
          /\ Goto(a, "drop")
          /\ leftovers' = (leftovers \/ image.deleted)
          /\ UNCHANGED <<trouble, damaged>>
       \/ /\ Trouble
          /\ Goto(a, "clean")
          /\ UNCHANGED <<image, damaged, leftovers>>
    /\ UNCHANGED <<media, files, video, envVars, lock>>

\* A reader serves what it can; the request fails and refunds.
Clean(a) ==
    /\ Doing(a, "clean")
    /\ Removed(PutSoFar(a))
    /\ IF a = "maker"
       THEN image' = [image EXCEPT !.status = "failed"] /\ Become(a, NoTask) /\ UNCHANGED lock
       ELSE Goto(a, "remote") /\ lock' = "free" /\ UNCHANGED image
    /\ UNCHANGED <<media, video, envVars>>

\* Mutant: the files that were replaced are found by the row, which is new now.
ExistingNow(a) == FilesOf(image.token)

Existing(a) == FilesOf(activity[a].old)

\* The files of the rows that were replaced go last.
Drop(a) ==
    /\ Doing(a, "drop")
    /\ Removed(Existing(a))
    /\ IF a = "maker"
       THEN Become(a, NoTask) /\ UNCHANGED lock
       ELSE activity' = [activity EXCEPT ![a].at = "row", ![a].again = TRUE] /\ lock' = "free"
    /\ UNCHANGED <<media, rowVars, envVars>>

-----------------------------------------------------------------------------
(***************************************************************************)
(* OpenJobContent.  Users open works that are not deleted, administrators   *)
(* any work.                                                                *)
(***************************************************************************)
Read(r) ==
    /\ activity[r] = NoTask
    /\ MayStart
    /\ \/ image.status = "completed" /\ \E i \in Pictures : Become(r, Task("row", "image", i))
       \/ video.status = "completed" /\ Become(r, Task("row", "video", 1))
    /\ UNCHANGED <<media, files, rowVars, linked, lock, troubleVars>>

\* GetCreativeJobImage; a video has the name in the copy of its job.
LookUp(r) ==
    /\ Doing(r, "row")
    /\ LET known == IF activity[r].kind = "image" THEN image.token # 0 ELSE video.file
       IN activity' = [activity EXCEPT ![r].token = image.token,
                                 ![r].at = IF known THEN "open" ELSE "gone"]
    /\ UNCHANGED <<media, files, rowVars, envVars, lock, troubleVars>>

NameFor(r) == IF activity[r].kind = "image" THEN Picture(activity[r].token, activity[r].i) ELSE VideoName

\* A picture of the wrong size counts as not found.  Videos are not measured,
\* nor is anything of which only a range is asked for.
Usable(r, found, ranged) == found = "whole" \/ (found = "short" /\ (ranged \/ activity[r].kind = "video"))

Open(r) ==
    /\ Doing(r, "open")
    /\ \/ /\ \E ranged \in BOOLEAN :
                IF Usable(r, Found(NameFor(r)), ranged) THEN Become(r, NoTask) ELSE Goto(r, "gone")
          /\ UNCHANGED trouble
       \/ Trouble /\ Goto(r, "refused")
    /\ UNCHANGED <<media, files, rowVars, envVars, lock, damaged, leftovers>>

\* storedImagesAvailable, of the rows as they are under the lock.
Stored == image.token # 0 /\ \A i \in Pictures : Found(Picture(image.token, i)) = "whole"

\* Mutant: whoever finds the pictures archived by another does not look again.
NoSecondLook(r) ==
    /\ Doing(r, "gone")
    /\ activity[r].kind = "image" /\ ~activity[r].again
    /\ lock = "free"
    /\ Stored
    /\ Goto(r, "remote")
    /\ UNCHANGED <<media, files, rowVars, envVars, lock, troubleVars>>

\* archiveExistingImages: another request did it meanwhile, ...
LookAgain(r) ==
    /\ Doing(r, "gone")
    /\ activity[r].kind = "image" /\ ~activity[r].again
    /\ lock = "free"
    /\ Stored
    /\ activity' = [activity EXCEPT ![r].at = "row", ![r].again = TRUE]
    /\ UNCHANGED <<media, files, rowVars, envVars, lock, troubleVars>>

\* ... or the work is archived again, if only because a store did not tell.
Restore(r) ==
    /\ Doing(r, "gone")
    /\ activity[r].kind = "image" /\ ~activity[r].again
    /\ lock = "free"
    /\ (~Stored /\ UNCHANGED trouble) \/ (Stored /\ Trouble)
    /\ lock' = r
    /\ \E t \in Tokens \ Used :
          activity' = [activity EXCEPT ![r].at = "put", ![r].token = t, ![r].next = 1, ![r].old = image.token]
    /\ UNCHANGED <<media, files, rowVars, envVars, damaged, leftovers>>

GiveUp(r) ==
    /\ Doing(r, "gone")
    /\ activity[r].kind = "video" \/ activity[r].again
    /\ Goto(r, "remote")
    /\ UNCHANGED <<media, files, rowVars, envVars, lock, troubleVars>>

\* The provider is asked for what is not archived.
Remote(r) ==
    /\ Doing(r, "remote")
    /\ \/ (IF linked THEN Become(r, NoTask) ELSE Goto(r, "refused")) /\ UNCHANGED trouble
       \/ Trouble /\ Goto(r, "refused")
    /\ UNCHANGED <<media, files, rowVars, envVars, lock, damaged, leftovers>>

Refuse(r) ==
    /\ Doing(r, "refused")
    /\ Become(r, NoTask)
    /\ UNCHANGED <<media, files, rowVars, envVars, lock, troubleVars>>

-----------------------------------------------------------------------------
(***************************************************************************)
(* archiveVideo, called by the poller until it succeeds or the work fails.  *)
(***************************************************************************)
Poll ==
    /\ activity["poller"] = NoTask
    /\ video.status = "processing"
    /\ \/ Found(VideoName) # "none" /\ Become("poller", [at |-> "save"]) /\ UNCHANGED trouble
       \/ Found(VideoName) = "none" /\ Become("poller", [at |-> "put"]) /\ UNCHANGED trouble
       \/ Trouble /\ Become("poller", [at |-> "put"])
    /\ UNCHANGED <<media, files, rowVars, envVars, lock, damaged, leftovers>>

PutVideo ==
    /\ Doing("poller", "put")
    /\ \/ PutAt(Primary, VideoName) /\ Goto("poller", "save") /\ UNCHANGED <<video, troubleVars>>
       \/ /\ Trouble
          /\ PutBreaks(Primary, VideoName)
          /\ damaged' = damaged \cup {VideoName}
          /\ Leftovers
          /\ video' \in {video, [video EXCEPT !.status = "failed"]}
          /\ Become("poller", NoTask)
    /\ UNCHANGED <<media, image, envVars, lock>>

\* The error of the update is ignored: the next round finds the file.
SaveVideo ==
    /\ Doing("poller", "save")
    /\ \/ video' = [video EXCEPT !.status = "completed", !.file = TRUE] /\ UNCHANGED trouble
       \/ Trouble /\ UNCHANGED video
    /\ Become("poller", NoTask)
    /\ UNCHANGED <<media, files, image, envVars, lock, damaged, leftovers>>

-----------------------------------------------------------------------------
(***************************************************************************)
(* DeleteJob and DeleteJobAsAdmin: the row is hidden, then the files go.    *)
(***************************************************************************)
Row(kind) == IF kind = "image" THEN image ELSE video

Delete(kind) ==
    /\ activity["deleter"] = NoTask
    /\ MayStart
    /\ Row(kind).status \in {"completed", "failed"} /\ ~Row(kind).deleted
    /\ Become("deleter", [at |-> "hide", kind |-> kind, file |-> video.file])
    /\ UNCHANGED <<media, files, rowVars, linked, lock, troubleVars>>

Hide ==
    /\ Doing("deleter", "hide")
    /\ \/ /\ IF activity["deleter"].kind = "image"
             THEN image' = [image EXCEPT !.deleted = TRUE] /\ UNCHANGED video
             ELSE video' = [video EXCEPT !.deleted = TRUE] /\ UNCHANGED image
          /\ Goto("deleter", "remove")
          /\ UNCHANGED trouble
       \/ Trouble /\ Become("deleter", NoTask) /\ UNCHANGED rowVars
    /\ UNCHANGED <<media, files, envVars, lock, damaged, leftovers>>

\* removeLocalMedia: the image rows go only if every file has gone, and stay
\* as well if that last statement fails.
RemovePictures ==
    /\ Doing("deleter", "remove") /\ activity["deleter"].kind = "image"
    /\ lock = "free"
    /\ Removed(FilesOf(image.token))
    /\ image' = IF trouble' = trouble THEN [image EXCEPT !.token = 0] ELSE image
    /\ Become("deleter", NoTask)
    /\ UNCHANGED <<media, video, envVars, lock>>

RemoveVideo ==
    /\ Doing("deleter", "remove") /\ activity["deleter"].kind = "video"
    /\ Removed(IF activity["deleter"].file THEN {VideoName} ELSE {})
    /\ Become("deleter", NoTask)
    /\ UNCHANGED <<media, rowVars, envVars, lock>>

-----------------------------------------------------------------------------
(***************************************************************************)
(* The command migrate-creative-media uploads what the rows name, and       *)
(* recover-creative-videos fetches the files of videos from the provider's  *)
(* disk.  Both run beside the server.                                       *)
(***************************************************************************)
VideoFile == IF video.file /\ ~video.deleted THEN {VideoName} ELSE {}
Listed == FilesOf(image.token) \cup VideoFile

Migrate ==
    /\ activity["migrator"] = NoTask
    /\ MayStart
    /\ Become("migrator", [at |-> "next", name |-> VideoName, todo |-> Listed, all |-> Listed, complete |-> TRUE])
    /\ UNCHANGED <<media, files, rowVars, linked, lock, troubleVars>>

\* Mutant: whatever is found on the server is taken for the file.
SkipAny(name) == Stat("webdav", name) # "none"

\* Skipped: nothing to upload from, or the same size on the server.
Skippable(name) == Stat("local", name) \in {"none", Stat("webdav", name)}

MigrateNext ==
    /\ Doing("migrator", "next")
    /\ \E name \in activity["migrator"].todo :
          activity' = [activity EXCEPT
              !["migrator"].todo = @ \ {name},
              !["migrator"].complete = @ /\ \E s \in Stores : Stat(s, name) # "none",
              !["migrator"].name = name,
              !["migrator"].at = IF Skippable(name) THEN "next" ELSE "upload"]
    /\ UNCHANGED <<media, files, rowVars, envVars, lock, troubleVars>>

\* An upload, and the check of what arrived.
Upload ==
    /\ Doing("migrator", "upload")
    /\ LET name == activity["migrator"].name
           size == files["local"][name]
       IN \/ /\ files' = [files EXCEPT !["webdav"][name] = IF size = "none" THEN "whole" ELSE size]
             /\ Goto("migrator", "next")
             /\ UNCHANGED trouble
          \/ /\ Trouble
             /\ PutBreaks("webdav", name)
             /\ activity' = [activity EXCEPT !["migrator"].at = "next", !["migrator"].complete = FALSE]
    /\ Leftovers
    /\ UNCHANGED <<media, rowVars, envVars, lock, damaged>>

Migrated ==
    /\ Doing("migrator", "next")
    /\ activity["migrator"].todo = {}
    /\ Become("migrator", NoTask)
    /\ UNCHANGED <<media, files, rowVars, envVars, lock, troubleVars>>

\* Deleted works are candidates too; a file of the right size stays.
Recover ==
    /\ activity["recoverer"] = NoTask
    /\ MayStart
    /\ video.status = "completed"
    /\ PutAt("local", VideoName)
    /\ Become("recoverer", [at |-> "update"])
    /\ Leftovers
    /\ UNCHANGED <<media, rowVars, linked, lock, trouble, damaged>>

RecoverRow ==
    /\ Doing("recoverer", "update")
    /\ video' = [video EXCEPT !.file = TRUE]
    /\ Become("recoverer", NoTask)
    /\ UNCHANGED <<media, files, image, envVars, lock, troubleVars>>

-----------------------------------------------------------------------------
(***************************************************************************)
(* What happens around them.                                                *)
(***************************************************************************)
\* A new store is probed, saved and put in place; files stay where they are.
SwitchMedia ==
    /\ Trouble
    /\ media' \in {"local", "webdav", "both"} \ {media}
    /\ Leftovers
    /\ UNCHANGED <<files, rowVars, envVars, lock, activity, damaged>>

LinksExpire ==
    /\ linked
    /\ linked' = FALSE
    /\ UNCHANGED <<media, files, rowVars, requests, lock, activity, troubleVars>>

Damage ==
    /\ Trouble
    /\ \E s \in Stores, name \in Names, left \in {"none", "short"} :
          /\ files[s][name] = "whole"
          /\ files' = [files EXCEPT ![s][name] = left]
          /\ damaged' = damaged \cup {name}
    /\ UNCHANGED <<media, rowVars, envVars, lock, activity, leftovers>>

ServerDies ==
    /\ Trouble
    /\ \E a \in Server : activity[a] # NoTask
    /\ activity' = [a \in Server \cup Commands |-> IF a \in Server THEN NoTask ELSE activity[a]]
    /\ lock' = "free"
    /\ Leftovers
    /\ UNCHANGED <<media, files, rowVars, envVars, damaged>>

\* One of the two works is there; it is new, or it was completed before, with
\* its files in a store within reach, or without any.
MediaInit ==
    /\ media \in {"local", "webdav", "both"}
    /\ linked = TRUE
    /\ \E kind \in {"image", "video"}, status \in {"processing", "completed"}, s \in Reach, archived \in BOOLEAN :
          LET old == IF ~archived THEN {} ELSE IF kind = "image" THEN PicturesOf(1) ELSE {VideoName}
          IN /\ archived => status = "completed"
             /\ image = [status |-> IF kind = "image" THEN status ELSE "none", deleted |-> FALSE,
                         token |-> IF archived /\ kind = "image" THEN 1 ELSE 0]
             /\ video = [status |-> IF kind = "video" THEN status ELSE "none", deleted |-> FALSE,
                         file |-> archived /\ kind = "video"]
             /\ files = [t \in Stores |-> [n \in Names |-> IF t = s /\ n \in old THEN "whole" ELSE "none"]]
    /\ lock = "free"
    /\ activity = [a \in Server \cup Commands |-> NoTask]
    /\ requests = 0
    /\ trouble = 0
    /\ damaged = {}
    /\ leftovers = FALSE

ArchiveStep(a) == PutPicture(a) \/ PutFails(a) \/ Complete(a) \/ Clean(a) \/ Drop(a)
ReadStep(r) ==
    \/ Read(r) \/ LookUp(r) \/ Open(r) \/ LookAgain(r) \/ Restore(r)
    \/ GiveUp(r) \/ Remote(r) \/ Refuse(r)

MediaNext ==
    \/ Make
    \/ \E a \in Archivers : ArchiveStep(a)
    \/ \E r \in Readers : ReadStep(r)
    \/ Poll \/ PutVideo \/ SaveVideo
    \/ Hide \/ RemovePictures \/ RemoveVideo
    \/ \E kind \in {"image", "video"} : Delete(kind)
    \/ Migrate \/ MigrateNext \/ Upload \/ Migrated
    \/ Recover \/ RecoverRow
    \/ SwitchMedia \/ LinksExpire \/ Damage \/ ServerDies

MediaSpec == MediaInit /\ [][MediaNext]_mediaVars

-----------------------------------------------------------------------------
\* The files that the rows of visible works name.
Visible == VideoFile \cup IF image.deleted THEN {} ELSE FilesOf(image.token)

\* Whatever is archived again, replaced or cleaned up: every file that the rows
\* of a visible work name is whole in one of the stores, if nobody else broke it.
KeptFilesExist ==
    \A name \in Visible \ damaged : \E s \in Stores : files[s][name] = "whole"

\* A reader is sent away only if there is nothing left to show: not when its
\* pictures were archived anew while it looked for them.  (A store that was
\* changed or a migration may bring files back a moment too late.)
ReadersAreServed ==
    \A r \in Readers :
        Doing(r, "refused") /\ activity[r].kind = "image" /\ activity[r].since = trouble /\ ~leftovers => ~Stored

\* Once everybody is done with a deleted work no file of it is left in either
\* store, unless a step of the removal failed, the store was changed, or a
\* command or an administrator brought the files back.
DeletedWorksAreRemoved ==
    (\A a \in Server \cup Commands : activity[a] = NoTask) /\ ~leftovers =>
        \A s \in Stores, name \in Names :
            files[s][name] # "none" => ~(IF name = VideoName THEN video ELSE image).deleted

\* After a migration without failures and missing files the local directory is
\* not needed any more for what was listed and is still named by a visible row.
MigrationIsComplete ==
    Doing("migrator", "next") /\ activity["migrator"].todo = {} /\ activity["migrator"].complete =>
        \A name \in (activity["migrator"].all \cap Visible) \ damaged : files["webdav"][name] = "whole"

=============================================================================
