--------------------------- MODULE Creative_proofs ---------------------------
(***************************************************************************)
(* For any number of requests, jobs and keys, whatever copies of a job are *)
(* about. The studio gives back no charge that was not taken: a row or a   *)
(* copy says charged only after the charge has gone through, a refund is   *)
(* called only for what says charged, and what upstream took stays taken.  *)
(* A completed work that was billed is paid for, and a failed one whose    *)
(* money was taken stays due for refund: what a copy may differ in from    *)
(* its row follows from who has it.                                        *)
(*                                                                         *)
(* Of its archive, for any readers and any tokens: the files that the row  *)
(* of a visible work names are there, whatever requests, migrations,       *)
(* deletions and deaths of the server come between; a migration that ended *)
(* complete has left nothing behind; no file of a deleted work stays; and  *)
(* a reader nothing disturbed is served what is there.                     *)
(***************************************************************************)
EXTENDS Creative, Media, FiniteSetTheorems, TLAPS

-----------------------------------------------------------------------------
(***************************************************************************)
(* The archive.                                                             *)
(***************************************************************************)
Statuses == {"none", "processing", "completed", "failed"}
Sizes == {"none", "short", "whole"}

Writes(a) == Doing(a, "put") \/ Doing(a, "clean")
Archives(a) == Writes(a) \/ Doing(a, "drop")

ArchiveTasks ==
    [at : {"put", "clean", "drop", "row", "open", "gone", "remote", "refused"}, kind : {"image", "video"},
     i : Pictures, token : Tokens \cup {0}, next : Nat \ {0}, old : Tokens \cup {0}, again : BOOLEAN, since : Nat]

RowsTyped ==
    /\ media \in {"local", "webdav", "both"}
    /\ files \in [Stores -> [Names -> Sizes]]
    /\ image \in [status : Statuses, deleted : BOOLEAN, token : Tokens \cup {0}]
    /\ video \in [status : Statuses, deleted : BOOLEAN, file : BOOLEAN]
    /\ linked \in BOOLEAN /\ leftovers \in BOOLEAN
    /\ requests \in Nat /\ trouble \in Nat
    /\ damaged \subseteq Names

ActivityTyped ==
    /\ DOMAIN activity = Server \cup Commands
    /\ activity = [a \in Server \cup Commands |-> activity[a]]
    /\ \A a \in Archivers : activity[a] \in ArchiveTasks \cup {NoTask}
    /\ \A a \in Archivers : Writes(a) => activity[a].token \in Tokens
    /\ activity["poller"] \in [at : {"idle", "save", "put"}]
    /\ activity["deleter"] \in [at : {"hide", "remove"}, kind : {"image", "video"}, file : BOOLEAN] \cup {NoTask}
    /\ activity["migrator"] \in
          [at : {"next", "upload"}, name : Names, todo : SUBSET Names, all : SUBSET Names, complete : BOOLEAN]
              \cup {NoTask}
    /\ activity["recoverer"] \in [at : {"idle", "update"}]
    /\ lock \in Readers \cup {"free"}

MediaTyped == RowsTyped /\ ActivityTyped

\* Who archives is alone: a reader holds the lock and its work is completed, the
\* request's work is still in progress.
OneArchives ==
    /\ \A r \in Readers : Archives(r) => lock = r /\ activity[r].kind = "image" /\ ~activity[r].again
    /\ \A r \in Readers : ~Doing(r, "idle") /\ activity[r].kind = "image" => image.status = "completed"
    /\ ~Doing("maker", "idle") => Archives("maker") /\ activity["maker"].kind = "image" /\ activity["maker"].old = 0
    /\ Writes("maker") => image.status = "processing"
    /\ image.status = "processing" => image.token = 0

\* A token that is written under is in use nowhere else; the one to drop is not
\* the one in the row.
TokensFresh ==
    \A a \in Archivers :
        /\ Writes(a) => /\ activity[a].token # image.token
                        /\ activity[a].old = image.token
                        /\ ~Doing("migrator", "idle") => PicturesOf(activity[a].token) \cap activity["migrator"].all = {}
        /\ Doing(a, "drop") => activity[a].old = 0 \/ activity[a].old # image.token

DeletionOrder ==
    /\ ~Doing("deleter", "idle") => Row(activity["deleter"].kind).status \in {"completed", "failed"}
    /\ Doing("deleter", "remove") => Row(activity["deleter"].kind).deleted
    /\ image.deleted => image.status \in {"completed", "failed"}
    /\ video.deleted => video.status \in {"completed", "failed"}

VideoOrder ==
    /\ ~Doing("poller", "idle") => video.status = "processing"
    /\ ~Doing("recoverer", "idle") => video.status = "completed"
    /\ video.status = "processing" => ~video.file

MigrationOrder ==
    ~Doing("migrator", "idle") =>
        /\ activity["migrator"].todo \subseteq activity["migrator"].all
        /\ Doing("migrator", "upload") => activity["migrator"].name \in activity["migrator"].all \ activity["migrator"].todo
        /\ VideoName \in activity["migrator"].all => video.file

Order == OneArchives /\ TokensFresh /\ DeletionOrder /\ VideoOrder /\ MigrationOrder

WholeSomewhere(name) == \E s \in Stores : files[s][name] = "whole"
Counted(name) == name \in Visible \ damaged

PutSoFarKept ==
    \A a \in Archivers : Doing(a, "put") =>
        \A i \in Pictures :
            i < activity[a].next /\ Picture(activity[a].token, i) \notin damaged =>
                WholeSomewhere(Picture(activity[a].token, i))

VideoKept ==
    VideoName \notin damaged =>
        /\ Doing("poller", "save") => WholeSomewhere(VideoName)
        /\ Doing("recoverer", "update") /\ ~video.deleted => WholeSomewhere(VideoName)
        /\ video.status = "processing" => \A s \in Stores : files[s][VideoName] # "short"

LocalWhole == \A name \in Names : files["local"][name] = "short" => name \in damaged

UploadKept ==
    Doing("migrator", "upload") /\ Counted(activity["migrator"].name) =>
        files["local"][activity["migrator"].name] = "whole"

Kept == KeptFilesExist /\ PutSoFarKept /\ VideoKept /\ LocalWhole /\ UploadKept

MigratedSoFar ==
    ~Doing("migrator", "idle") /\ activity["migrator"].complete =>
        \A name \in activity["migrator"].all \ activity["migrator"].todo :
            Counted(name) /\ ~(Doing("migrator", "upload") /\ name = activity["migrator"].name) =>
                files["webdav"][name] = "whole"

FilesInReach == \A s \in Stores \ Reach, name \in Names : files[s][name] = "none"

OwnedBy(a, t, i) ==
    \/ Writes(a) /\ t = activity[a].token /\ i < activity[a].next
    \/ Doing(a, "drop") /\ t = activity[a].old

PicturesOwned ==
    \A s \in Stores, t \in Tokens, i \in Pictures :
        files[s][Picture(t, i)] # "none" => t = image.token \/ \E a \in Archivers : OwnedBy(a, t, i)

ImageDeletion == image.deleted => image.token = 0 \/ (Doing("deleter", "remove") /\ activity["deleter"].kind = "image")

VideoDeletion ==
    \A s \in Stores : files[s][VideoName] # "none" =>
        /\ video.status = "processing" \/ video.file
        /\ ~Doing("deleter", "idle") /\ activity["deleter"].kind = "video" => activity["deleter"].file
        /\ video.deleted => Doing("deleter", "remove") /\ activity["deleter"].kind = "video"

Tidy == ~leftovers => FilesInReach /\ PicturesOwned /\ ImageDeletion /\ VideoDeletion

\* A reader of a picture since whose request nothing went wrong.
Undisturbed(r) == ~Doing(r, "idle") /\ activity[r].kind = "image" /\ activity[r].since = trouble /\ ~leftovers

Erased == image.deleted /\ image.token = 0

SinceOK == \A r \in Readers : ~Doing(r, "idle") => activity[r].since <= trouble

\* What it finds, from where it stands: who archives does so because the pictures
\* are not there; who is sent away found neither them nor the provider; who looks
\* again finds them, or the work is gone.
Shown(r) ==
    /\ Writes(r) => ~Stored
    /\ Doing(r, "put") => \A i \in Pictures :
                             i < activity[r].next => files[Primary][Picture(activity[r].token, i)] = "whole"
    /\ Doing(r, "clean") => ~linked
    /\ Doing(r, "drop") => Stored
    /\ ~activity[r].again /\ (Doing(r, "remote") \/ Doing(r, "refused")) =>
          ~Stored /\ ~linked /\ \A b \in Readers : Doing(b, "put") => activity[b].next = 1
    /\ activity[r].again /\ (Doing(r, "row") \/ Doing(r, "open")) =>
          Erased \/ (Stored /\ \A b \in Readers : ~Doing(b, "put"))
    /\ activity[r].again /\ Doing(r, "open") => Erased \/ activity[r].token = image.token
    /\ activity[r].again /\ (Doing(r, "gone") \/ Doing(r, "remote") \/ Doing(r, "refused")) => Erased

Served == SinceOK /\ \A r \in Readers : Undisturbed(r) => Shown(r)

-----------------------------------------------------------------------------
(***************************************************************************)
(* Names, stores and what a request to a store does to them.                *)
(***************************************************************************)
LEMMA MediaConstants ==
    /\ \A i \in Pictures : i \in Nat /\ i >= 1
    /\ \A t \in Tokens : t \in Nat /\ t # 0
    /\ 1 \in Pictures /\ 1 \in Tokens
    /\ \A k \in Nat \ {0} : k \notin Pictures => \A i \in Pictures : i < k
    /\ "maker" \notin Readers /\ "poller" \notin Readers /\ "deleter" \notin Readers
    /\ "migrator" \notin Readers /\ "recoverer" \notin Readers /\ "free" \notin Readers
<1>1. PICK n \in Nat : n = Cardinality(Pictures)
  BY MediaAssumption, FS_CardinalityType
<1>2. PICK k \in Nat : k = Cardinality(Tokens)
  BY MediaAssumption, FS_CardinalityType
<1>3. Pictures = 1..n /\ Tokens = 1..k /\ Pictures # {} /\ Tokens # {}
  BY <1>1, <1>2, MediaAssumption
<1>4. "maker" \notin Readers /\ "poller" \notin Readers /\ "deleter" \notin Readers
      /\ "migrator" \notin Readers /\ "recoverer" \notin Readers /\ "free" \notin Readers
  BY MediaAssumption
<1> QED
  BY <1>3, <1>4

LEMMA FileNames ==
    /\ VideoName \in Names
    /\ \A t \in Tokens, i \in Pictures : Picture(t, i) \in Names
    /\ \A n \in Names : n = VideoName \/ \E t \in Tokens, i \in Pictures : n = Picture(t, i)
    /\ \A t, i : Picture(t, i) # VideoName
    /\ \A t, i, u, j : Picture(t, i) = Picture(u, j) => t = u /\ i = j
<1>1. VideoName \in Names
  BY DEF Names
<1>2. \A t \in Tokens, i \in Pictures : Picture(t, i) \in Names
  BY DEF Names, PicturesOf
<1>3. \A n \in Names : n = VideoName \/ \E t \in Tokens, i \in Pictures : n = Picture(t, i)
  BY DEF Names, PicturesOf
<1>4. \A t, i : Picture(t, i) # VideoName
  BY DEF Picture, VideoName
<1>5. \A t, i, u, j : Picture(t, i) = Picture(u, j) => t = u /\ i = j
  BY DEF Picture
<1> QED
  BY <1>1, <1>2, <1>3, <1>4, <1>5

ReachOf(m) == IF m = "both" THEN Stores ELSE {m}
PrimaryOf(m) == IF m = "local" THEN "local" ELSE "webdav"
Sees(m, fs, name) ==
    IF m = "both" /\ fs["webdav"][name] = "none" THEN fs["local"][name] ELSE fs[PrimaryOf(m)][name]

LEMMA StackIs ==
  ASSUME media \in {"local", "webdav", "both"}
  PROVE  /\ Reach = ReachOf(media) /\ Primary = PrimaryOf(media)
         /\ \A name : Found(name) = Sees(media, files, name)
<1>1. CASE media = "local"
  BY <1>1 DEF Stack, Primary, PrimaryOf, Reach, ReachOf, Found, Stat, Sees
<1>2. CASE media = "webdav"
  BY <1>2 DEF Stack, Primary, PrimaryOf, Reach, ReachOf, Found, Stat, Sees
<1>3. CASE media = "both"
  BY <1>3 DEF Stack, Primary, PrimaryOf, Reach, ReachOf, Found, Stat, Sees, Stores
<1> QED
  BY <1>1, <1>2, <1>3

LEMMA StackIsNext ==
  ASSUME media' \in {"local", "webdav", "both"}
  PROVE  /\ Reach' = ReachOf(media') /\ Primary' = PrimaryOf(media')
         /\ \A name : Found(name)' = Sees(media', files', name)
<1>1. CASE media' = "local"
  BY <1>1 DEF Stack, Primary, PrimaryOf, Reach, ReachOf, Found, Stat, Sees
<1>2. CASE media' = "webdav"
  BY <1>2 DEF Stack, Primary, PrimaryOf, Reach, ReachOf, Found, Stat, Sees
<1>3. CASE media' = "both"
  BY <1>3 DEF Stack, Primary, PrimaryOf, Reach, ReachOf, Found, Stat, Sees, Stores
<1> QED
  BY <1>1, <1>2, <1>3

LEMMA PrimaryInReach ==
  ASSUME media \in {"local", "webdav", "both"}
  PROVE  Primary \in Stores /\ Primary \in Reach /\ Reach \subseteq Stores
BY StackIs DEF PrimaryOf, ReachOf, Stores

FilesTyped == files \in [Stores -> [Names -> Sizes]]

\* Nothing but file n of store s may change.
OnlyAt(s, n) == \A u \in Stores, m \in Names : files'[u][m] = files[u][m] \/ (u = s /\ m = n)

LEMMA PutEffect ==
  ASSUME FilesTyped, NEW s \in Stores, NEW n \in Names, PutAt(s, n)
  PROVE  FilesTyped' /\ OnlyAt(s, n) /\ files'[s][n] = "whole"
BY DEF FilesTyped, OnlyAt, PutAt, Sizes

LEMMA PutBreaksEffect ==
  ASSUME FilesTyped, NEW s \in Stores, NEW n \in Names, PutBreaks(s, n)
  PROVE  /\ FilesTyped' /\ OnlyAt(s, n)
         /\ files' = files \/ s # "local"
<1>1. PICK left \in BrokenPut(s) : files' = IF left = "none" THEN files ELSE [files EXCEPT ![s][n] = left]
  BY DEF PutBreaks
<1>2. left \in Sizes /\ (s = "local" => left = "none")
  BY DEF BrokenPut, Sizes
<1> QED
  BY <1>1, <1>2 DEF FilesTyped, OnlyAt

\* Only files named in S may go, and nothing else changes.
OnlyGone(S) ==
    \A u \in Stores, m \in Names : files'[u][m] = files[u][m] \/ (m \in S /\ files'[u][m] = "none")

AllGone(S) == \A u \in Reach, m \in Names : m \in S => files'[u][m] = "none"

LEMMA RemovedEffect ==
  ASSUME RowsTyped, NEW S, Removed(S)
  PROVE  /\ FilesTyped' /\ OnlyGone(S)
         /\ damaged' = damaged
         /\ \/ trouble' = trouble /\ leftovers' = leftovers /\ AllGone(S)
            \/ trouble' = trouble + 1 /\ leftovers' = TRUE
<1> USE DEF RowsTyped
<1>1. ASSUME NEW D, D \subseteq S, files' = Without(D)
      PROVE  FilesTyped' /\ OnlyGone(S) /\ (D = S => AllGone(S))
  <2>1. Reach \subseteq Stores
    BY PrimaryInReach
  <2>2. files' = [u \in Stores |-> [m \in Names |-> IF u \in Reach /\ m \in D THEN "none" ELSE files[u][m]]]
    BY <1>1 DEF Without
  <2>3. FilesTyped'
    BY <2>2 DEF FilesTyped, Sizes
  <2>4. OnlyGone(S)
    BY <2>2, <1>1 DEF OnlyGone
  <2>5. D = S => AllGone(S)
    BY <2>1, <2>2 DEF AllGone
  <2> QED
    BY <2>3, <2>4, <2>5
<1>2. CASE files' = Without(S) /\ UNCHANGED troubleVars
  BY <1>1, <1>2 DEF troubleVars
<1>3. CASE Trouble /\ (\E done \in SUBSET S : files' = Without(done)) /\ Leftovers /\ UNCHANGED damaged
  BY <1>1, <1>3 DEF Trouble, Leftovers
<1> QED
  BY <1>2, <1>3 DEF Removed

-----------------------------------------------------------------------------
(***************************************************************************)
(* Types.                                                                   *)
(***************************************************************************)
LEMMA Distinct ==
    /\ \A a \in Archivers : a \in Server \cup Commands /\ a \notin {"poller", "deleter", "migrator", "recoverer"}
    /\ \A r \in Readers : r \in Archivers /\ r # "maker"
    /\ {"maker", "poller", "deleter", "migrator", "recoverer"} \subseteq Server \cup Commands
    /\ "maker" \in Archivers
BY MediaConstants DEF Archivers, Server, Commands

LEMMA ArchiverBecomes ==
  ASSUME ActivityTyped, NEW a \in Archivers, NEW t \in ArchiveTasks \cup {NoTask},
         t.at \in {"put", "clean"} => t.token \in Tokens,
         activity' = [activity EXCEPT ![a] = t], lock' \in Readers \cup {"free"}
  PROVE  ActivityTyped'
BY Distinct DEF ActivityTyped, Writes, Doing

LEMMA OtherBecomes ==
  ASSUME ActivityTyped, NEW t, lock' = lock,
         \/ activity' = [activity EXCEPT !["poller"] = t] /\ t \in [at : {"idle", "save", "put"}]
         \/ /\ activity' = [activity EXCEPT !["deleter"] = t]
            /\ t \in [at : {"hide", "remove"}, kind : {"image", "video"}, file : BOOLEAN] \cup {NoTask}
         \/ /\ activity' = [activity EXCEPT !["migrator"] = t]
            /\ t \in [at : {"next", "upload"}, name : Names, todo : SUBSET Names, all : SUBSET Names,
                      complete : BOOLEAN] \cup {NoTask}
         \/ activity' = [activity EXCEPT !["recoverer"] = t] /\ t \in [at : {"idle", "update"}]
  PROVE  ActivityTyped'
<1> USE Distinct DEF ActivityTyped, Writes, Doing
<1>1. CASE activity' = [activity EXCEPT !["poller"] = t] /\ t \in [at : {"idle", "save", "put"}]
  BY <1>1
<1>2. CASE /\ activity' = [activity EXCEPT !["deleter"] = t]
           /\ t \in [at : {"hide", "remove"}, kind : {"image", "video"}, file : BOOLEAN] \cup {NoTask}
  BY <1>2
<1>3. CASE /\ activity' = [activity EXCEPT !["migrator"] = t]
           /\ t \in [at : {"next", "upload"}, name : Names, todo : SUBSET Names, all : SUBSET Names,
                     complete : BOOLEAN] \cup {NoTask}
  BY <1>3
<1>4. CASE activity' = [activity EXCEPT !["recoverer"] = t] /\ t \in [at : {"idle", "update"}]
  BY <1>4
<1> QED
  BY <1>1, <1>2, <1>3, <1>4

LEMMA ArchiverIs ==
  ASSUME ActivityTyped, NEW a \in Archivers, activity[a].at # "idle"
  PROVE  /\ activity[a] \in ArchiveTasks
         /\ activity[a].at \in {"put", "clean", "drop", "row", "open", "gone", "remote", "refused"}
         /\ activity[a].kind \in {"image", "video"} /\ activity[a].i \in Pictures
         /\ activity[a].token \in Tokens \cup {0} /\ activity[a].next \in Nat \ {0}
         /\ activity[a].old \in Tokens \cup {0} /\ activity[a].again \in BOOLEAN
         /\ activity[a].since \in Nat
BY DEF ActivityTyped, ArchiveTasks, NoTask

LEMMA ArchiverGoes ==
  ASSUME ActivityTyped, NEW a \in Archivers, activity[a].at # "idle", NEW at, Goto(a, at),
         at \in {"put", "clean", "drop", "row", "open", "gone", "remote", "refused"},
         at \in {"put", "clean"} => activity[a].token \in Tokens,
         lock' \in Readers \cup {"free"}
  PROVE  ActivityTyped'
<1>1. PICK t : t = [activity[a] EXCEPT !.at = at]
  OBVIOUS
<1>2. t \in ArchiveTasks /\ t.at = at /\ t.token = activity[a].token
  BY <1>1, ArchiverIs DEF ArchiveTasks
<1>3. activity' = [activity EXCEPT ![a] = t]
  BY <1>1 DEF Goto
<1> QED
  BY <1>2, <1>3, ArchiverBecomes

LEMMA ArchiverRests ==
  ASSUME ActivityTyped, NEW a \in Archivers, Become(a, NoTask), lock' \in Readers \cup {"free"}
  PROVE  ActivityTyped'
<1>1. NoTask \in ArchiveTasks \cup {NoTask} /\ NoTask.at \notin {"put", "clean"}
  BY DEF NoTask
<1> QED
  BY <1>1, ArchiverBecomes DEF Become

LEMMA RemovedTyped ==
  ASSUME RowsTyped, NEW S, Removed(S)
  PROVE  FilesTyped' /\ damaged' \subseteq Names /\ trouble' \in Nat /\ leftovers' \in BOOLEAN
<1>1. damaged \subseteq Names /\ trouble \in Nat /\ leftovers \in BOOLEAN
  BY DEF RowsTyped
<1>2. /\ FilesTyped' /\ damaged' = damaged
      /\ trouble' = trouble \/ trouble' = trouble + 1
      /\ leftovers' = leftovers \/ leftovers' = TRUE
  BY RemovedEffect
<1>3. trouble' \in Nat
  BY <1>1, <1>2
<1>4. leftovers' \in BOOLEAN
  BY <1>1, <1>2
<1> QED
  BY <1>1, <1>2, <1>3, <1>4

LEMMA MakeTyped == MediaTyped /\ Make => MediaTyped'
<1> SUFFICES ASSUME MediaTyped, Make PROVE MediaTyped'
  OBVIOUS
<1>1. PICK t \in Tokens \ Used : Become("maker", [Task("put", "image", 1) EXCEPT !.token = t])
  BY DEF Make
<1>2. PICK k : k = [Task("put", "image", 1) EXCEPT !.token = t]
  OBVIOUS
<1>3. k \in ArchiveTasks /\ k.token \in Tokens
  BY <1>2, MediaConstants DEF Task, ArchiveTasks, MediaTyped, RowsTyped
<1>4. ActivityTyped'
  BY <1>1, <1>2, <1>3, ArchiverBecomes, Distinct DEF Become, Make, MediaTyped, ActivityTyped
<1> QED
  BY <1>4 DEF Make, MediaTyped, RowsTyped, rowVars, envVars, troubleVars

LEMMA PutPictureTyped == ASSUME MediaTyped, NEW a \in Archivers, PutPicture(a) PROVE MediaTyped'
<1> USE DEF MediaTyped
<1>1. PICK k : k = [activity[a] EXCEPT !.next = activity[a].next + 1]
  OBVIOUS
<1>2. activity[a] \in ArchiveTasks /\ activity[a].token \in Tokens /\ activity[a].next \in Pictures
  BY ArchiverIs DEF PutPicture, Doing, ActivityTyped, Writes
<1>3. k \in ArchiveTasks /\ k.token \in Tokens
  BY <1>1, <1>2 DEF ArchiveTasks
<1>4. activity' = [activity EXCEPT ![a] = k]
  BY <1>1 DEF PutPicture
<1>5. ActivityTyped'
  BY <1>3, <1>4, ArchiverBecomes DEF PutPicture, ActivityTyped
<1>6. FilesTyped'
  BY <1>2, PutEffect, PrimaryInReach, FileNames DEF PutPicture, RowsTyped, FilesTyped
<1> QED
  BY <1>5, <1>6 DEF PutPicture, RowsTyped, FilesTyped, rowVars, envVars, troubleVars

LEMMA PutFailsTyped == ASSUME MediaTyped, NEW a \in Archivers, PutFails(a) PROVE MediaTyped'
<1> USE DEF MediaTyped
<1>1. activity[a] \in ArchiveTasks /\ activity[a].token \in Tokens /\ activity[a].next \in Pictures
  BY ArchiverIs DEF PutFails, Doing, ActivityTyped, Writes
<1>2. ActivityTyped'
  BY <1>1, ArchiverGoes DEF PutFails, ActivityTyped, Doing
<1>3. FilesTyped'
  BY <1>1, PutBreaksEffect, PrimaryInReach, FileNames DEF PutFails, RowsTyped, FilesTyped, troubleVars
<1>4. trouble' \in Nat /\ damaged' = damaged
  BY DEF PutFails, RowsTyped, Trouble, troubleVars
<1>5. leftovers' \in BOOLEAN
  BY DEF PutFails, RowsTyped, troubleVars
<1> QED
  BY <1>2, <1>3, <1>4, <1>5 DEF PutFails, RowsTyped, FilesTyped, rowVars, envVars

LEMMA CompleteTyped == ASSUME MediaTyped, NEW a \in Archivers, Complete(a) PROVE MediaTyped'
<1> USE DEF MediaTyped
<1>1. activity[a] \in ArchiveTasks /\ activity[a].token \in Tokens
  BY ArchiverIs DEF Complete, Doing, ActivityTyped, Writes
<1>2. ActivityTyped'
  BY <1>1, ArchiverGoes DEF Complete, ActivityTyped, Doing
<1>3. image' \in [status : Statuses, deleted : BOOLEAN, token : Tokens \cup {0}]
  BY <1>1 DEF Complete, RowsTyped, Statuses
<1>4. trouble' \in Nat /\ damaged' = damaged
  BY DEF Complete, RowsTyped, Trouble
<1>5. leftovers' \in BOOLEAN
  BY DEF Complete, RowsTyped
<1> QED
  BY <1>2, <1>3, <1>4, <1>5 DEF Complete, RowsTyped, rowVars, envVars

LEMMA CleanTyped == ASSUME MediaTyped, NEW a \in Archivers, Clean(a) PROVE MediaTyped'
<1> USE DEF MediaTyped
<1>1. ActivityTyped'
  BY ArchiverGoes, ArchiverRests DEF Clean, ActivityTyped, Doing
<1>2. FilesTyped' /\ damaged' \subseteq Names /\ trouble' \in Nat /\ leftovers' \in BOOLEAN
  BY RemovedTyped DEF Clean
<1> QED
  BY <1>1, <1>2 DEF Clean, RowsTyped, FilesTyped, rowVars, envVars, Statuses

LEMMA DropTyped == ASSUME MediaTyped, NEW a \in Archivers, Drop(a) PROVE MediaTyped'
<1> USE DEF MediaTyped
<1>1. PICK k : k = [activity[a] EXCEPT !.at = "row", !.again = TRUE]
  OBVIOUS
<1>2. k \in ArchiveTasks /\ k.at = "row"
  BY <1>1, ArchiverIs DEF Drop, Doing, ArchiveTasks
<1>3. activity' = [activity EXCEPT ![a].at = "row", ![a].again = TRUE] => activity' = [activity EXCEPT ![a] = k]
  BY <1>1 DEF ActivityTyped
<1>4. ActivityTyped'
  BY <1>2, <1>3, ArchiverRests, ArchiverBecomes DEF Drop, ActivityTyped
<1>5. FilesTyped' /\ damaged' \subseteq Names /\ trouble' \in Nat /\ leftovers' \in BOOLEAN
  BY RemovedTyped DEF Drop
<1> QED
  BY <1>4, <1>5 DEF Drop, RowsTyped, FilesTyped, rowVars, envVars

LEMMA ReadTyped == ASSUME MediaTyped, NEW r \in Readers, Read(r) PROVE MediaTyped'
<1> USE DEF MediaTyped
<1>1. PICK kind \in {"image", "video"}, i \in Pictures : Become(r, Task("row", kind, i))
  BY MediaConstants DEF Read
<1>2. PICK k : k = Task("row", kind, i)
  OBVIOUS
<1>3. k \in ArchiveTasks /\ k.at = "row"
  BY <1>2 DEF Task, ArchiveTasks, RowsTyped
<1>4. ActivityTyped'
  BY <1>1, <1>2, <1>3, ArchiverBecomes, Distinct DEF Become, Read, ActivityTyped
<1> QED
  BY <1>4 DEF Read, RowsTyped, rowVars, troubleVars, MayStart

LEMMA LookUpTyped == ASSUME MediaTyped, NEW r \in Readers, LookUp(r) PROVE MediaTyped'
<1> USE DEF MediaTyped
<1>1. PICK at \in {"open", "gone"} : activity' = [activity EXCEPT ![r].token = image.token, ![r].at = at]
  BY DEF LookUp
<1>2. PICK k : k = [activity[r] EXCEPT !.token = image.token, !.at = at]
  OBVIOUS
<1>3. k \in ArchiveTasks /\ k.at = at
  <2>1. activity[r] \in ArchiveTasks
    BY ArchiverIs, Distinct DEF LookUp, Doing
  <2>2. image.token \in Tokens \cup {0}
    BY DEF RowsTyped
  <2> QED
    BY <1>2, <2>1, <2>2 DEF ArchiveTasks
<1>4. activity' = [activity EXCEPT ![r] = k]
  BY <1>1, <1>2, Distinct DEF ActivityTyped
<1>5. lock' \in Readers \cup {"free"} /\ r \in Archivers
  BY Distinct DEF LookUp, ActivityTyped
<1>6. ActivityTyped'
  BY <1>3, <1>4, <1>5, ArchiverBecomes
<1> QED
  BY <1>6 DEF LookUp, RowsTyped, rowVars, envVars, troubleVars

LEMMA LookAgainTyped == ASSUME MediaTyped, NEW r \in Readers, LookAgain(r) PROVE MediaTyped'
<1> USE DEF MediaTyped
<1>1. PICK k : k = [activity[r] EXCEPT !.at = "row", !.again = TRUE]
  OBVIOUS
<1>2. k \in ArchiveTasks /\ k.at = "row"
  BY <1>1, ArchiverIs, Distinct DEF LookAgain, Doing, ArchiveTasks
<1>3. activity' = [activity EXCEPT ![r] = k]
  BY <1>1, Distinct DEF ActivityTyped, LookAgain
<1>4. lock' \in Readers \cup {"free"} /\ r \in Archivers
  BY Distinct DEF LookAgain, ActivityTyped
<1>5. ActivityTyped'
  BY <1>2, <1>3, <1>4, ArchiverBecomes
<1> QED
  BY <1>5 DEF LookAgain, RowsTyped, rowVars, envVars, troubleVars

LEMMA RestoreTyped == ASSUME MediaTyped, NEW r \in Readers, Restore(r) PROVE MediaTyped'
<1> USE DEF MediaTyped
<1>1. PICK t \in Tokens \ Used :
         activity' = [activity EXCEPT ![r].at = "put", ![r].token = t, ![r].next = 1, ![r].old = image.token]
  BY DEF Restore
<1>2. PICK k : k = [activity[r] EXCEPT !.at = "put", !.token = t, !.next = 1, !.old = image.token]
  OBVIOUS
<1>3. k \in ArchiveTasks /\ k.token \in Tokens
  <2>1. activity[r] \in ArchiveTasks
    BY ArchiverIs, Distinct DEF Restore, Doing
  <2>2. PICK old \in Tokens \cup {0}, one \in Nat \ {0} : old = image.token /\ one = 1
    BY DEF RowsTyped
  <2>3. k = [activity[r] EXCEPT !.at = "put", !.token = t, !.next = one, !.old = old]
    BY <1>2, <2>2
  <2> QED
    BY <1>1, <2>1, <2>2, <2>3 DEF ArchiveTasks
<1>4. activity' = [activity EXCEPT ![r] = k]
  BY <1>1, <1>2, Distinct DEF ActivityTyped
<1>5. lock' \in Readers \cup {"free"} /\ r \in Archivers
  BY Distinct DEF Restore, ActivityTyped
<1>6. ActivityTyped'
  BY <1>3, <1>4, <1>5, ArchiverBecomes
<1> QED
  BY <1>6 DEF Restore, RowsTyped, Trouble, rowVars, envVars

LEMMA ReaderMovesTyped ==
  ASSUME MediaTyped, NEW r \in Readers, Open(r) \/ GiveUp(r) \/ Remote(r) \/ Refuse(r)
  PROVE  MediaTyped'
<1> USE DEF MediaTyped
<1>1. activity[r].at # "idle" /\ lock' \in Readers \cup {"free"} /\ r \in Archivers
  BY Distinct DEF Open, GiveUp, Remote, Refuse, Doing, ActivityTyped
<1>2. Become(r, NoTask) \/ Goto(r, "gone") \/ Goto(r, "remote") \/ Goto(r, "refused")
  BY DEF Open, GiveUp, Remote, Refuse
<1>3. ActivityTyped'
  BY <1>1, <1>2, ArchiverGoes, ArchiverRests
<1>4. trouble' \in Nat
  BY DEF Open, GiveUp, Remote, Refuse, RowsTyped, Trouble, troubleVars
<1> QED
  BY <1>3, <1>4 DEF Open, GiveUp, Remote, Refuse, RowsTyped, rowVars, envVars, troubleVars

LEMMA PollerTyped == ASSUME MediaTyped, Poll \/ PutVideo \/ SaveVideo PROVE MediaTyped'
<1> USE DEF MediaTyped
<1>1. CASE Poll
  <2>1. ActivityTyped'
    BY <1>1, OtherBecomes DEF Poll, Become
  <2> QED
    BY <1>1, <2>1 DEF Poll, RowsTyped, rowVars, envVars, Trouble
<1>2. CASE PutVideo
  <2>1. activity["poller"] \in [at : {"idle", "save", "put"}]
    BY DEF ActivityTyped
  <2>2. Goto("poller", "save") => activity' = [activity EXCEPT !["poller"] = [at |-> "save"]]
    BY <2>1 DEF Goto
  <2>3. ActivityTyped'
    <3>1. PICK t \in [at : {"idle", "save", "put"}] : activity' = [activity EXCEPT !["poller"] = t]
      BY <1>2, <2>2 DEF PutVideo, Become, NoTask
    <3> QED
      BY <1>2, <3>1, OtherBecomes DEF PutVideo
  <2>4. FilesTyped'
    BY <1>2, PutEffect, PutBreaksEffect, PrimaryInReach, FileNames DEF PutVideo, RowsTyped, FilesTyped
  <2>5. video' \in [status : Statuses, deleted : BOOLEAN, file : BOOLEAN]
    BY <1>2 DEF PutVideo, RowsTyped, Statuses
  <2>6. damaged' \subseteq Names /\ trouble' \in Nat
    BY <1>2, FileNames DEF PutVideo, RowsTyped, troubleVars, Trouble
  <2>7. leftovers' \in BOOLEAN
    BY <1>2 DEF PutVideo, RowsTyped, troubleVars, Leftovers
  <2> QED
    BY <1>2, <2>3, <2>4, <2>5, <2>6, <2>7 DEF PutVideo, RowsTyped, FilesTyped, envVars
<1>3. CASE SaveVideo
  <2>1. ActivityTyped'
    BY <1>3, OtherBecomes DEF SaveVideo, Become, NoTask
  <2>2. video' \in [status : Statuses, deleted : BOOLEAN, file : BOOLEAN]
    BY <1>3 DEF SaveVideo, RowsTyped, Statuses
  <2>3. trouble' \in Nat
    BY <1>3 DEF SaveVideo, RowsTyped, Trouble
  <2> QED
    BY <1>3, <2>1, <2>2, <2>3 DEF SaveVideo, RowsTyped, envVars
<1> QED
  BY <1>1, <1>2, <1>3

LEMMA DeleterTyped ==
  ASSUME MediaTyped, (\E kind \in {"image", "video"} : Delete(kind)) \/ Hide \/ RemovePictures \/ RemoveVideo
  PROVE  MediaTyped'
<1> USE DEF MediaTyped
<1>1. ASSUME NEW kind \in {"image", "video"}, Delete(kind) PROVE MediaTyped'
  <2>1. PICK t : t = [at |-> "hide", kind |-> kind, file |-> video.file]
    OBVIOUS
  <2>2. t \in [at : {"hide", "remove"}, kind : {"image", "video"}, file : BOOLEAN] \cup {NoTask}
    BY <2>1 DEF RowsTyped
  <2>3. ActivityTyped'
    BY <1>1, <2>1, <2>2, OtherBecomes DEF Delete, Become
  <2> QED
    BY <1>1, <2>3 DEF Delete, RowsTyped, rowVars, troubleVars, MayStart
<1>2. CASE Hide
  <2>1. PICK t : t = [activity["deleter"] EXCEPT !.at = "remove"]
    OBVIOUS
  <2>2. t \in [at : {"hide", "remove"}, kind : {"image", "video"}, file : BOOLEAN] \cup {NoTask}
    BY <1>2, <2>1 DEF ActivityTyped, Hide, Doing, NoTask
  <2>3. Goto("deleter", "remove") => activity' = [activity EXCEPT !["deleter"] = t]
    BY <2>1 DEF Goto
  <2>4. ActivityTyped'
    BY <1>2, <2>2, <2>3, OtherBecomes DEF Hide, Become
  <2>5. image' \in [status : Statuses, deleted : BOOLEAN, token : Tokens \cup {0}]
    BY <1>2 DEF Hide, RowsTyped, rowVars
  <2>7. trouble' \in Nat
    BY <1>2 DEF Hide, RowsTyped, Trouble
  <2>6. video' \in [status : Statuses, deleted : BOOLEAN, file : BOOLEAN]
    BY <1>2 DEF Hide, RowsTyped, rowVars
  <2> QED
    BY <1>2, <2>4, <2>5, <2>6, <2>7 DEF Hide, RowsTyped, envVars
<1>3. CASE RemovePictures
  <2>1. ActivityTyped'
    BY <1>3, OtherBecomes DEF RemovePictures, Become
  <2>2. FilesTyped' /\ damaged' \subseteq Names /\ trouble' \in Nat /\ leftovers' \in BOOLEAN
    BY <1>3, RemovedTyped DEF RemovePictures
  <2> QED
    BY <1>3, <2>1, <2>2 DEF RemovePictures, RowsTyped, FilesTyped, envVars
<1>4. CASE RemoveVideo
  <2>1. ActivityTyped'
    BY <1>4, OtherBecomes DEF RemoveVideo, Become
  <2>2. FilesTyped' /\ damaged' \subseteq Names /\ trouble' \in Nat /\ leftovers' \in BOOLEAN
    BY <1>4, RemovedTyped DEF RemoveVideo
  <2> QED
    BY <1>4, <2>1, <2>2 DEF RemoveVideo, RowsTyped, FilesTyped, rowVars, envVars
<1> QED
  BY <1>1, <1>2, <1>3, <1>4

LEMMA CommandsTyped ==
  ASSUME MediaTyped, Migrate \/ MigrateNext \/ Upload \/ Migrated \/ Recover \/ RecoverRow
  PROVE  MediaTyped'
<1> USE DEF MediaTyped
<1> DEFINE Migration == [at : {"next", "upload"}, name : Names, todo : SUBSET Names, all : SUBSET Names,
                         complete : BOOLEAN]
<1>1. CASE Migrate
  <2>1. Listed \subseteq Names
    BY FileNames DEF Listed, FilesOf, PicturesOf, VideoFile, RowsTyped
  <2>2. PICK t : t = [at |-> "next", name |-> VideoName, todo |-> Listed, all |-> Listed, complete |-> TRUE]
    OBVIOUS
  <2>3. t \in Migration
    BY <2>1, <2>2, FileNames
  <2>4. ActivityTyped'
    BY <1>1, <2>2, <2>3, OtherBecomes DEF Migrate, Become
  <2> QED
    BY <1>1, <2>4 DEF Migrate, RowsTyped, rowVars, troubleVars, MayStart
<1>2. CASE MigrateNext
  <2>1. PICK name \in activity["migrator"].todo : activity' = [activity EXCEPT
              !["migrator"].todo = @ \ {name},
              !["migrator"].complete = @ /\ \E s \in Stores : Stat(s, name) # "none",
              !["migrator"].name = name,
              !["migrator"].at = IF Skippable(name) THEN "next" ELSE "upload"]
    BY <1>2 DEF MigrateNext
  <2>2. PICK there \in BOOLEAN : there = \E s \in Stores : Stat(s, name) # "none"
    OBVIOUS
  <2>3. PICK at \in {"next", "upload"} : at = IF Skippable(name) THEN "next" ELSE "upload"
    OBVIOUS
  <2>4. activity["migrator"] \in Migration
    <3>1. activity["migrator"].at = "next"
      BY <1>2 DEF MigrateNext, Doing
    <3> QED
      BY <3>1 DEF ActivityTyped, NoTask
  <2>5. PICK t : t = [activity["migrator"] EXCEPT !.todo = activity["migrator"].todo \ {name},
                         !.complete = activity["migrator"].complete /\ there, !.name = name, !.at = at]
    OBVIOUS
  <2>6. t \in Migration
    BY <2>1, <2>4, <2>5
  <2>7. activity' = [activity EXCEPT !["migrator"] = t]
    BY <2>1, <2>2, <2>3, <2>5, Distinct DEF ActivityTyped
  <2>8. ActivityTyped'
    BY <1>2, <2>6, <2>7, OtherBecomes DEF MigrateNext
  <2> QED
    BY <1>2, <2>8 DEF MigrateNext, RowsTyped, rowVars, envVars, troubleVars
<1>3. CASE Upload
  <2>1. activity["migrator"] \in Migration
    BY <1>3 DEF Upload, Doing, ActivityTyped, NoTask
  <2>2. PICK t \in Migration : activity' = [activity EXCEPT !["migrator"] = t]
    <3>1. PICK t : t = [activity["migrator"] EXCEPT !.at = "next"]
      OBVIOUS
    <3>2. PICK u : u = [activity["migrator"] EXCEPT !.at = "next", !.complete = FALSE]
      OBVIOUS
    <3>3. t \in Migration /\ u \in Migration
      BY <2>1, <3>1, <3>2
    <3>4. activity' = [activity EXCEPT !["migrator"] = t] \/ activity' = [activity EXCEPT !["migrator"] = u]
      BY <1>3, <3>1, <3>2, Distinct DEF Upload, Goto, ActivityTyped
    <3> QED
      BY <3>3, <3>4
  <2>3. ActivityTyped'
    BY <1>3, <2>2, OtherBecomes DEF Upload
  <2>4. activity["migrator"].name \in Names
    BY <2>1
  <2>5. FilesTyped'
    BY <1>3, <2>4, PutBreaksEffect DEF Upload, RowsTyped, FilesTyped, Stores, Sizes
  <2>6. trouble' \in Nat /\ leftovers' \in BOOLEAN
    BY <1>3 DEF Upload, RowsTyped, Trouble, Leftovers
  <2> QED
    BY <1>3, <2>3, <2>5, <2>6 DEF Upload, RowsTyped, FilesTyped, rowVars, envVars
<1>4. CASE Migrated
  <2>1. ActivityTyped'
    BY <1>4, OtherBecomes DEF Migrated, Become
  <2> QED
    BY <1>4, <2>1 DEF Migrated, RowsTyped, rowVars, envVars, troubleVars
<1>5. CASE Recover
  <2>1. ActivityTyped'
    <3>1. PICK t \in [at : {"idle", "update"}] : activity' = [activity EXCEPT !["recoverer"] = t]
      BY <1>5 DEF Recover, Become
    <3> QED
      BY <1>5, <3>1, OtherBecomes DEF Recover
  <2>2. FilesTyped'
    BY <1>5, PutEffect, FileNames DEF Recover, RowsTyped, FilesTyped, Stores
  <2> QED
    BY <1>5, <2>1, <2>2 DEF Recover, RowsTyped, FilesTyped, rowVars, MayStart, Leftovers
<1>6. CASE RecoverRow
  <2>1. ActivityTyped'
    BY <1>6, OtherBecomes DEF RecoverRow, Become, NoTask
  <2> QED
    BY <1>6, <2>1 DEF RecoverRow, RowsTyped, envVars, troubleVars
<1> QED
  BY <1>1, <1>2, <1>3, <1>4, <1>5, <1>6

LEMMA AroundTyped == ASSUME MediaTyped, SwitchMedia \/ LinksExpire \/ Damage \/ ServerDies PROVE MediaTyped'
<1> USE DEF MediaTyped
<1>1. CASE SwitchMedia \/ LinksExpire \/ Damage
  <2>1. ActivityTyped'
    BY <1>1 DEF SwitchMedia, LinksExpire, Damage, ActivityTyped, Writes, Doing
  <2>2. trouble' \in Nat /\ damaged' \subseteq Names
    BY <1>1 DEF SwitchMedia, LinksExpire, Damage, RowsTyped, Trouble, troubleVars
  <2>4. leftovers' \in BOOLEAN
    BY <1>1 DEF SwitchMedia, LinksExpire, Damage, RowsTyped, Leftovers, troubleVars
  <2>3. FilesTyped'
    BY <1>1 DEF SwitchMedia, LinksExpire, Damage, RowsTyped, FilesTyped, Sizes
  <2> QED
    BY <1>1, <2>1, <2>2, <2>3, <2>4 DEF SwitchMedia, LinksExpire, Damage, RowsTyped, FilesTyped, rowVars, envVars
<1>2. CASE ServerDies
  <2>1. ActivityTyped'
    BY <1>2, Distinct DEF ServerDies, ActivityTyped, Writes, Doing, NoTask, Server, Commands, Archivers
  <2> QED
    BY <1>2, <2>1 DEF ServerDies, RowsTyped, rowVars, envVars, Trouble, Leftovers
<1> QED
  BY <1>1, <1>2

LEMMA StutterTyped == MediaTyped /\ UNCHANGED mediaVars => MediaTyped'
BY DEF MediaTyped, RowsTyped, ActivityTyped, Writes, Doing, mediaVars, rowVars, envVars, troubleVars

LEMMA InitTyped == MediaInit => MediaTyped
<1> SUFFICES ASSUME MediaInit PROVE MediaTyped
  OBVIOUS
<1>2. image \in [status : Statuses, deleted : BOOLEAN, token : Tokens \cup {0}]
  BY MediaConstants DEF MediaInit, Statuses
<1>3. video \in [status : Statuses, deleted : BOOLEAN, file : BOOLEAN]
  BY DEF MediaInit, Statuses
<1>4. files \in [Stores -> [Names -> Sizes]]
  BY DEF MediaInit, Sizes
<1>5. ActivityTyped
  BY Distinct DEF MediaInit, ActivityTyped, Writes, Doing, NoTask
<1> QED
  BY <1>2, <1>3, <1>4, <1>5 DEF MediaInit, MediaTyped, RowsTyped

LEMMA StepTyped == MediaTyped /\ [MediaNext]_mediaVars => MediaTyped'
<1> SUFFICES ASSUME MediaTyped, [MediaNext]_mediaVars PROVE MediaTyped'
  OBVIOUS
<1>1. ASSUME NEW a \in Archivers, ArchiveStep(a) PROVE MediaTyped'
  BY <1>1, PutPictureTyped, PutFailsTyped, CompleteTyped, CleanTyped, DropTyped DEF ArchiveStep
<1>2. ASSUME NEW r \in Readers, ReadStep(r) PROVE MediaTyped'
  BY <1>2, ReadTyped, LookUpTyped, LookAgainTyped, RestoreTyped, ReaderMovesTyped DEF ReadStep
<1> QED
  BY <1>1, <1>2, MakeTyped, PollerTyped, DeleterTyped, CommandsTyped, AroundTyped, StutterTyped DEF MediaNext

-----------------------------------------------------------------------------
(***************************************************************************)
(* What a step does to the tasks: to one of them, and what it does to it.   *)
(***************************************************************************)
Alone(a) == \A b \in (Server \cup Commands) \ {a} : activity'[b] = activity[b]

LEMMA OneChanges ==
  ASSUME ActivityTyped, NEW a \in Server \cup Commands, NEW t, activity' = [activity EXCEPT ![a] = t]
  PROVE  Alone(a) /\ activity'[a] = t
BY DEF Alone, ActivityTyped

LEMMA OneGoes ==
  ASSUME ActivityTyped, NEW a \in Archivers, ~Doing(a, "idle"), NEW at, Goto(a, at)
  PROVE  /\ Alone(a) /\ activity'[a] = [activity[a] EXCEPT !.at = at]
         /\ activity'[a].at = at /\ activity'[a].kind = activity[a].kind
         /\ activity'[a].token = activity[a].token /\ activity'[a].next = activity[a].next
         /\ activity'[a].old = activity[a].old /\ activity'[a].again = activity[a].again
         /\ activity'[a].since = activity[a].since
<1>1. activity' = [activity EXCEPT ![a] = [activity[a] EXCEPT !.at = at]]
  BY DEF Goto
<1>2. activity[a] \in ArchiveTasks
  BY ArchiverIs DEF Doing
<1> QED
  BY <1>1, <1>2, Distinct DEF Alone, ActivityTyped, ArchiveTasks

\* A reader that does not archive takes a step that does not change a row or a file.
ReaderMove(r) ==
    /\ UNCHANGED <<media, files, image, video, linked, lock, damaged, leftovers>>
    /\ Alone(r)
    /\ ~Archives(r) /\ ~Archives(r)'
    /\ ~Doing(r, "idle")' => activity'[r].kind = "video" \/ image.status = "completed"

MovesQuietly(r) ==
    Read(r) \/ LookUp(r) \/ Open(r) \/ LookAgain(r) \/ GiveUp(r) \/ Remote(r) \/ Refuse(r)

LEMMA QuietMoves ==
  ASSUME MediaTyped, OneArchives, NEW r \in Readers, MovesQuietly(r)
  PROVE  ReaderMove(r)
<1> USE DEF MediaTyped
<1>0. r \in Archivers /\ r \in Server \cup Commands
  BY Distinct
<1>1. CASE Read(r)
  <2>1. PICK kind \in {"image", "video"}, i \in Pictures :
            Become(r, Task("row", kind, i)) /\ (kind = "image" => image.status = "completed")
    BY <1>1, MediaConstants DEF Read
  <2>2. Alone(r) /\ activity'[r] = Task("row", kind, i)
    BY <1>0, <2>1, OneChanges DEF Become
  <2>3. activity[r].at = "idle" /\ activity'[r].at = "row" /\ activity'[r].kind = kind
    BY <1>1, <2>2 DEF Read, Task, NoTask
  <2> QED
    BY <1>1, <2>1, <2>2, <2>3 DEF Read, ReaderMove, Archives, Writes, Doing, rowVars, troubleVars
<1>2. CASE LookUp(r)
  <2>1. PICK at \in {"open", "gone"} : activity' = [activity EXCEPT ![r].token = image.token, ![r].at = at]
    BY <1>2 DEF LookUp
  <2>2. activity[r] \in ArchiveTasks /\ activity[r].at = "row"
    BY <1>0, <1>2, ArchiverIs DEF LookUp, Doing
  <2>3. Alone(r) /\ activity'[r].at = at /\ activity'[r].kind = activity[r].kind
    BY <1>0, <2>1, <2>2 DEF Alone, ActivityTyped, ArchiveTasks
  <2> QED
    BY <1>2, <2>2, <2>3, ArchiverIs, <1>0
       DEF LookUp, ReaderMove, OneArchives, Archives, Writes, Doing, rowVars, envVars, troubleVars
<1>3. CASE LookAgain(r)
  <2>1. activity[r] \in ArchiveTasks /\ activity[r].at = "gone"
    BY <1>0, <1>3, ArchiverIs DEF LookAgain, Doing
  <2>2. Alone(r) /\ activity'[r].at = "row" /\ activity'[r].kind = activity[r].kind
    BY <1>0, <1>3, <2>1 DEF LookAgain, Alone, ActivityTyped, ArchiveTasks
  <2> QED
    BY <1>3, <2>1, <2>2
       DEF LookAgain, ReaderMove, OneArchives, Archives, Writes, Doing, rowVars, envVars, troubleVars
<1>4. CASE Open(r) \/ GiveUp(r) \/ Remote(r) \/ Refuse(r)
  <2>1. /\ activity[r].at \in {"open", "gone", "remote", "refused"}
        /\ Become(r, NoTask) \/ Goto(r, "gone") \/ Goto(r, "remote") \/ Goto(r, "refused")
    BY <1>4 DEF Open, GiveUp, Remote, Refuse, Doing
  <2>2. /\ Alone(r) /\ activity'[r].at \in {"idle", "gone", "remote", "refused"}
        /\ activity'[r].at = "idle" \/ activity'[r].kind = activity[r].kind
    <3>1. CASE Become(r, NoTask)
      <4>1. Alone(r) /\ activity'[r] = NoTask
        BY <1>0, <3>1, OneChanges DEF Become
      <4> QED
        BY <4>1 DEF NoTask
    <3>2. ASSUME NEW at \in {"gone", "remote", "refused"}, Goto(r, at)
          PROVE  Alone(r) /\ activity'[r].at = at /\ activity'[r].kind = activity[r].kind
      BY <1>0, <2>1, <3>2, OneGoes DEF Doing
    <3> QED
      BY <2>1, <3>1, <3>2
  <2>3. activity[r].kind \in {"image", "video"}
    BY <1>0, <2>1, ArchiverIs
  <2>4. UNCHANGED <<media, files, image, video, linked, lock, damaged, leftovers>>
    BY <1>4 DEF Open, GiveUp, Remote, Refuse, rowVars, envVars, troubleVars
  <2> QED
    BY <2>1, <2>2, <2>3, <2>4 DEF ReaderMove, OneArchives, Archives, Writes, Doing
<1> QED
  BY <1>1, <1>2, <1>3, <1>4 DEF MovesQuietly

LEMMA MakeStep ==
  ASSUME MediaTyped, Make
  PROVE  /\ Doing("maker", "idle") /\ image.status = "processing"
         /\ UNCHANGED <<media, files, image, video, linked, requests, lock, trouble, damaged, leftovers>>
         /\ Alone("maker")
         /\ \E t \in Tokens \ Used : activity'["maker"] = [Task("put", "image", 1) EXCEPT !.token = t]
         /\ activity'["maker"].at = "put" /\ activity'["maker"].kind = "image"
         /\ activity'["maker"].token \in Tokens \ Used /\ activity'["maker"].next = 1
         /\ activity'["maker"].old = 0 /\ activity'["maker"].again = FALSE
<1>1. PICK t \in Tokens \ Used : Become("maker", [Task("put", "image", 1) EXCEPT !.token = t])
  BY DEF Make
<1>2. Alone("maker") /\ activity'["maker"] = [Task("put", "image", 1) EXCEPT !.token = t]
  BY <1>1, Distinct, OneChanges DEF Become, MediaTyped
<1>3. /\ activity'["maker"].at = "put" /\ activity'["maker"].kind = "image"
      /\ activity'["maker"].token = t /\ activity'["maker"].next = 1
      /\ activity'["maker"].old = 0 /\ activity'["maker"].again = FALSE
  BY <1>2 DEF Task
<1> QED
  BY <1>1, <1>2, <1>3 DEF Make, Doing, NoTask, rowVars, envVars, troubleVars

\* Nothing in the task of a changes but what the step is about.
SameTask(a) ==
    /\ Alone(a)
    /\ activity'[a].kind = activity[a].kind /\ activity'[a].token = activity[a].token
    /\ activity'[a].old = activity[a].old /\ activity'[a].again = activity[a].again
    /\ activity'[a].since = activity[a].since

LEMMA PutPictureStep ==
  ASSUME MediaTyped, NEW a \in Archivers, PutPicture(a)
  PROVE  /\ activity[a].at = "put" /\ activity'[a].at = "put"
         /\ activity[a].next \in Pictures /\ activity'[a].next = activity[a].next + 1
         /\ activity[a].token \in Tokens /\ SameTask(a)
         /\ a = "maker" \/ linked
         /\ UNCHANGED <<media, image, video, linked, requests, lock, trouble, damaged, leftovers>>
         /\ PutAt(Primary, Picture(activity[a].token, activity[a].next))
<1>1. activity[a] \in ArchiveTasks /\ activity[a].at = "put" /\ activity[a].token \in Tokens
  BY ArchiverIs DEF PutPicture, Doing, MediaTyped, ActivityTyped, Writes
<1>2. activity'[a].at = "put" /\ activity'[a].next = activity[a].next + 1 /\ SameTask(a)
  BY <1>1, Distinct DEF PutPicture, SameTask, Alone, MediaTyped, ActivityTyped, ArchiveTasks
<1> QED
  BY <1>1, <1>2 DEF PutPicture, rowVars, envVars, troubleVars

LEMMA PutFailsStep ==
  ASSUME MediaTyped, NEW a \in Archivers, PutFails(a)
  PROVE  /\ activity[a].at = "put" /\ activity'[a].at = "clean"
         /\ activity[a].next \in Pictures /\ activity'[a].next = activity[a].next
         /\ activity[a].token \in Tokens /\ SameTask(a)
         /\ UNCHANGED <<media, image, video, linked, requests, lock, damaged>>
         /\ \/ ~linked /\ UNCHANGED <<files, trouble, leftovers>>
            \/ /\ trouble' = trouble + 1
               /\ PutBreaks(Primary, Picture(activity[a].token, activity[a].next))
               /\ leftovers' = (leftovers \/ files' # files)
<1>1. activity[a].at = "put" /\ activity[a].token \in Tokens
  BY DEF PutFails, Doing, MediaTyped, ActivityTyped, Writes
<1>2. activity'[a].at = "clean" /\ activity'[a].next = activity[a].next /\ SameTask(a)
  BY <1>1, OneGoes DEF PutFails, SameTask, MediaTyped, Doing
<1> QED
  BY <1>1, <1>2 DEF PutFails, rowVars, envVars, troubleVars, Trouble

LEMMA CompleteStep ==
  ASSUME MediaTyped, NEW a \in Archivers, Complete(a)
  PROVE  /\ activity[a].at = "put" /\ activity'[a].next = activity[a].next
         /\ \A i \in Pictures : i < activity[a].next
         /\ activity[a].token \in Tokens /\ SameTask(a)
         /\ UNCHANGED <<media, files, video, linked, requests, lock, damaged>>
         /\ \/ /\ activity'[a].at = "drop"
               /\ image' = [image EXCEPT !.status = "completed", !.token = activity[a].token]
               /\ leftovers' = (leftovers \/ image.deleted) /\ trouble' = trouble
            \/ activity'[a].at = "clean" /\ UNCHANGED <<image, leftovers>> /\ trouble' = trouble + 1
<1>1. activity[a].at = "put" /\ activity[a].token \in Tokens /\ activity[a].next \in Nat \ {0}
  BY ArchiverIs DEF Complete, Doing, MediaTyped, ActivityTyped, Writes
<1>2. \A i \in Pictures : i < activity[a].next
  BY <1>1, MediaConstants DEF Complete
<1>3. activity'[a].next = activity[a].next /\ SameTask(a)
  BY <1>1, OneGoes DEF Complete, SameTask, MediaTyped, Doing
<1>4. /\ Goto(a, "drop") => activity'[a].at = "drop"
      /\ Goto(a, "clean") => activity'[a].at = "clean"
  BY <1>1, OneGoes DEF MediaTyped, Doing
<1> QED
  BY <1>1, <1>2, <1>3, <1>4 DEF Complete, envVars, Trouble

LEMMA CleanStep ==
  ASSUME MediaTyped, NEW a \in Archivers, Clean(a)
  PROVE  /\ activity[a].at = "clean" /\ activity[a].token \in Tokens
         /\ Removed(PutSoFar(a)) /\ UNCHANGED <<media, video, linked, requests>>
         /\ \/ /\ a = "maker" /\ Alone(a) /\ activity'[a] = NoTask
               /\ image' = [image EXCEPT !.status = "failed"] /\ lock' = lock
            \/ /\ a \in Readers /\ SameTask(a) /\ activity'[a].at = "remote"
               /\ image' = image /\ lock' = "free"
<1>1. activity[a].at = "clean" /\ activity[a].token \in Tokens
  BY DEF Clean, Doing, MediaTyped, ActivityTyped, Writes
<1>2. Become(a, NoTask) => Alone(a) /\ activity'[a] = NoTask
  BY OneChanges, Distinct DEF Become, MediaTyped
<1>3. Goto(a, "remote") => SameTask(a) /\ activity'[a].at = "remote"
  BY <1>1, OneGoes DEF SameTask, MediaTyped, Doing
<1> QED
  BY <1>1, <1>2, <1>3 DEF Clean, envVars, Archivers

LEMMA DropStep ==
  ASSUME MediaTyped, NEW a \in Archivers, Drop(a)
  PROVE  /\ activity[a].at = "drop"
         /\ Removed(FilesOf(activity[a].old)) /\ UNCHANGED <<media, image, video, linked, requests>>
         /\ \/ a = "maker" /\ Alone(a) /\ activity'[a] = NoTask /\ lock' = lock
            \/ /\ a \in Readers /\ Alone(a) /\ activity'[a].at = "row" /\ activity'[a].again = TRUE
               /\ activity'[a].kind = activity[a].kind /\ activity'[a].since = activity[a].since
               /\ lock' = "free"
<1>1. activity[a].at = "drop" /\ activity[a] \in ArchiveTasks
  BY ArchiverIs DEF Drop, Doing, MediaTyped
<1>2. Become(a, NoTask) => Alone(a) /\ activity'[a] = NoTask
  BY OneChanges, Distinct DEF Become, MediaTyped
<1>3. ASSUME activity' = [activity EXCEPT ![a].at = "row", ![a].again = TRUE]
      PROVE  /\ Alone(a) /\ activity'[a].at = "row" /\ activity'[a].again = TRUE
             /\ activity'[a].kind = activity[a].kind /\ activity'[a].since = activity[a].since
  <2>1. PICK k : k = [activity[a] EXCEPT !.at = "row", !.again = TRUE]
    OBVIOUS
  <2>2. k.at = "row" /\ k.again = TRUE /\ k.kind = activity[a].kind /\ k.since = activity[a].since
    BY <1>1, <2>1 DEF ArchiveTasks
  <2>3. activity' = [activity EXCEPT ![a] = k]
    BY <1>3, <2>1
  <2> QED
    BY <2>2, <2>3, OneChanges, Distinct DEF MediaTyped
<1> QED
  BY <1>1, <1>2, <1>3 DEF Drop, Existing, rowVars, envVars, Archivers

LEMMA RestoreStep ==
  ASSUME MediaTyped, NEW r \in Readers, Restore(r)
  PROVE  /\ activity[r].at = "gone" /\ activity'[r].at = "put"
         /\ activity[r].kind = "image" /\ activity'[r].kind = "image"
         /\ ~activity[r].again /\ ~activity'[r].again
         /\ activity'[r].token \in Tokens \ Used /\ activity'[r].next = 1
         /\ activity'[r].old = image.token /\ activity'[r].since = activity[r].since
         /\ Alone(r) /\ lock = "free" /\ lock' = r
         /\ (~Stored /\ trouble' = trouble) \/ trouble' = trouble + 1
         /\ UNCHANGED <<media, files, image, video, linked, requests, damaged, leftovers>>
<1>1. activity[r] \in ArchiveTasks /\ activity[r].at = "gone"
  BY ArchiverIs, Distinct DEF Restore, Doing, MediaTyped
<1>2. PICK t \in Tokens \ Used :
         activity' = [activity EXCEPT ![r].at = "put", ![r].token = t, ![r].next = 1, ![r].old = image.token]
  BY DEF Restore
<1>3. /\ Alone(r) /\ activity'[r].at = "put" /\ activity'[r].token = t /\ activity'[r].next = 1
      /\ activity'[r].old = image.token /\ activity'[r].kind = activity[r].kind
      /\ activity'[r].again = activity[r].again /\ activity'[r].since = activity[r].since
  BY <1>1, <1>2, Distinct DEF Alone, MediaTyped, ActivityTyped, ArchiveTasks
<1> QED
  BY <1>1, <1>2, <1>3 DEF Restore, Trouble, rowVars, envVars

LEMMA PollerStep ==
  ASSUME MediaTyped, Poll \/ PutVideo \/ SaveVideo
  PROVE  /\ Alone("poller")
         /\ UNCHANGED <<media, image, linked, requests, lock>>
         /\ \/ /\ Doing("poller", "idle") /\ video.status = "processing"
               /\ UNCHANGED <<files, video, damaged, leftovers>>
               /\ \/ activity'["poller"].at = "save" /\ Found(VideoName) # "none" /\ trouble' = trouble
                  \/ activity'["poller"].at = "put" /\ trouble' \in {trouble, trouble + 1}
            \/ /\ Doing("poller", "put") /\ activity'["poller"].at = "save"
               /\ PutAt(Primary, VideoName) /\ UNCHANGED <<video, trouble, damaged, leftovers>>
            \/ /\ Doing("poller", "put") /\ activity'["poller"].at = "idle"
               /\ PutBreaks(Primary, VideoName) /\ damaged' = damaged \cup {VideoName}
               /\ leftovers' = TRUE /\ trouble' = trouble + 1
               /\ video' \in {video, [video EXCEPT !.status = "failed"]}
            \/ /\ Doing("poller", "save") /\ activity'["poller"].at = "idle"
               /\ UNCHANGED <<files, damaged, leftovers>>
               /\ \/ video' = [video EXCEPT !.status = "completed", !.file = TRUE] /\ trouble' = trouble
                  \/ video' = video /\ trouble' = trouble + 1
<1>1. ASSUME NEW t, Become("poller", t) PROVE Alone("poller") /\ activity'["poller"] = t
  BY <1>1, OneChanges, Distinct DEF Become, MediaTyped
<1>2. ASSUME NEW at, Goto("poller", at) PROVE Alone("poller") /\ activity'["poller"].at = at
  BY <1>2, Distinct DEF Goto, Alone, MediaTyped, ActivityTyped
<1>3. CASE Poll
  <2>1. PICK at \in {"put", "save"} : /\ Become("poller", [at |-> at])
                                      /\ at = "save" => Found(VideoName) # "none" /\ trouble' = trouble
                                      /\ trouble' \in {trouble, trouble + 1}
    BY <1>3 DEF Poll, Trouble
  <2>2. Alone("poller") /\ activity'["poller"].at = at
    BY <1>1, <2>1
  <2> QED
    BY <1>3, <2>1, <2>2 DEF Poll, Doing, NoTask, rowVars, envVars
<1>4. CASE PutVideo
  <2>1. \/ Goto("poller", "save") /\ PutAt(Primary, VideoName) /\ UNCHANGED <<video, trouble, damaged, leftovers>>
        \/ /\ Become("poller", NoTask) /\ PutBreaks(Primary, VideoName) /\ damaged' = damaged \cup {VideoName}
           /\ leftovers' = TRUE /\ trouble' = trouble + 1
           /\ video' \in {video, [video EXCEPT !.status = "failed"]}
    BY <1>4 DEF PutVideo, troubleVars, Trouble, Leftovers
  <2>2. /\ Alone("poller")
        /\ Goto("poller", "save") => activity'["poller"].at = "save"
        /\ Become("poller", NoTask) => activity'["poller"].at = "idle"
    BY <1>1, <1>2, <2>1 DEF NoTask
  <2> QED
    BY <1>4, <2>1, <2>2 DEF PutVideo, envVars
<1>5. CASE SaveVideo
  <2>1. Alone("poller") /\ activity'["poller"].at = "idle"
    BY <1>1, <1>5 DEF SaveVideo, NoTask
  <2> QED
    BY <1>5, <2>1 DEF SaveVideo, envVars, Trouble
<1> QED
  BY <1>3, <1>4, <1>5

LEMMA DeleteStep ==
  ASSUME MediaTyped, NEW kind \in {"image", "video"}, Delete(kind)
  PROVE  /\ Doing("deleter", "idle") /\ Alone("deleter")
         /\ activity'["deleter"].at = "hide" /\ activity'["deleter"].kind = kind
         /\ activity'["deleter"].file = video.file
         /\ Row(kind).status \in {"completed", "failed"} /\ ~Row(kind).deleted
         /\ UNCHANGED <<media, files, image, video, linked, lock, trouble, damaged, leftovers>>
<1>1. PICK t : t = [at |-> "hide", kind |-> kind, file |-> video.file]
  OBVIOUS
<1>2. Alone("deleter") /\ activity'["deleter"] = t
  <2>1. Become("deleter", t)
    BY <1>1 DEF Delete
  <2> QED
    BY <2>1, OneChanges, Distinct DEF Become, MediaTyped
<1>3. t.at = "hide" /\ t.kind = kind /\ t.file = video.file
  BY <1>1
<1> QED
  BY <1>2, <1>3 DEF Delete, Doing, NoTask, rowVars, troubleVars

LEMMA HideStep ==
  ASSUME MediaTyped, Hide
  PROVE  /\ Doing("deleter", "hide") /\ Alone("deleter")
         /\ UNCHANGED <<media, files, linked, requests, lock, damaged, leftovers>>
         /\ \/ /\ activity'["deleter"].at = "remove" /\ trouble' = trouble
               /\ activity'["deleter"].kind = activity["deleter"].kind
               /\ activity'["deleter"].file = activity["deleter"].file
               /\ IF activity["deleter"].kind = "image"
                  THEN image' = [image EXCEPT !.deleted = TRUE] /\ video' = video
                  ELSE video' = [video EXCEPT !.deleted = TRUE] /\ image' = image
            \/ activity'["deleter"] = NoTask /\ trouble' = trouble + 1 /\ UNCHANGED <<image, video>>
<1>1. Become("deleter", NoTask) => Alone("deleter") /\ activity'["deleter"] = NoTask
  BY OneChanges, Distinct DEF Become, MediaTyped
<1>2. activity["deleter"] \in [at : {"hide", "remove"}, kind : {"image", "video"}, file : BOOLEAN]
  BY DEF Hide, Doing, MediaTyped, ActivityTyped, NoTask
<1>3. PICK t : t = [activity["deleter"] EXCEPT !.at = "remove"]
  OBVIOUS
<1>4. t.at = "remove" /\ t.kind = activity["deleter"].kind /\ t.file = activity["deleter"].file
  BY <1>2, <1>3
<1>5. Goto("deleter", "remove") => Alone("deleter") /\ activity'["deleter"] = t
  BY <1>3, OneChanges, Distinct DEF Goto, MediaTyped
<1> QED
  BY <1>1, <1>4, <1>5 DEF Hide, Doing, envVars, rowVars, Trouble

LEMMA RemoveStep ==
  ASSUME MediaTyped, RemovePictures \/ RemoveVideo
  PROVE  /\ Doing("deleter", "remove") /\ Alone("deleter") /\ activity'["deleter"] = NoTask
         /\ UNCHANGED <<media, video, linked, requests, lock>>
         /\ \/ /\ activity["deleter"].kind = "image" /\ lock = "free"
               /\ Removed(FilesOf(image.token))
               /\ image' = IF trouble' = trouble THEN [image EXCEPT !.token = 0] ELSE image
            \/ /\ activity["deleter"].kind = "video" /\ image' = image
               /\ Removed(IF activity["deleter"].file THEN {VideoName} ELSE {})
<1>1. Alone("deleter") /\ activity'["deleter"] = NoTask
  BY OneChanges, Distinct DEF RemovePictures, RemoveVideo, Become, MediaTyped
<1> QED
  BY <1>1 DEF RemovePictures, RemoveVideo, envVars, rowVars

LEMMA MigrateStep ==
  ASSUME MediaTyped, Migrate
  PROVE  /\ Doing("migrator", "idle") /\ Alone("migrator")
         /\ activity'["migrator"].at = "next" /\ activity'["migrator"].name = VideoName
         /\ activity'["migrator"].todo = Listed /\ activity'["migrator"].all = Listed
         /\ UNCHANGED <<media, files, image, video, linked, lock, trouble, damaged, leftovers>>
<1>1. Alone("migrator") /\ activity'["migrator"] = [at |-> "next", name |-> VideoName, todo |-> Listed,
                                                     all |-> Listed, complete |-> TRUE]
  BY OneChanges, Distinct DEF Migrate, Become, MediaTyped
<1> QED
  BY <1>1 DEF Migrate, Doing, NoTask, rowVars, troubleVars

LEMMA MigrateNextStep ==
  ASSUME MediaTyped, MigrateNext
  PROVE  /\ Doing("migrator", "next") /\ Alone("migrator")
         /\ activity'["migrator"].name \in activity["migrator"].todo
         /\ activity'["migrator"].name \in Names
         /\ activity'["migrator"].todo = activity["migrator"].todo \ {activity'["migrator"].name}
         /\ activity'["migrator"].all = activity["migrator"].all
         /\ activity'["migrator"].complete =>
               /\ activity["migrator"].complete
               /\ \E s \in Stores : files[s][activity'["migrator"].name] # "none"
         /\ activity'["migrator"].at = IF Skippable(activity'["migrator"].name) THEN "next" ELSE "upload"
         /\ UNCHANGED <<media, files, image, video, linked, requests, lock, trouble, damaged, leftovers>>
<1>1. PICK name \in activity["migrator"].todo : activity' = [activity EXCEPT
              !["migrator"].todo = @ \ {name},
              !["migrator"].complete = @ /\ \E s \in Stores : Stat(s, name) # "none",
              !["migrator"].name = name,
              !["migrator"].at = IF Skippable(name) THEN "next" ELSE "upload"]
  BY DEF MigrateNext
<1>2. PICK there \in BOOLEAN : there = \E s \in Stores : Stat(s, name) # "none"
  OBVIOUS
<1>3. PICK at \in {"next", "upload"} : at = IF Skippable(name) THEN "next" ELSE "upload"
  OBVIOUS
<1>4. activity["migrator"].at = "next"
  BY DEF MigrateNext, Doing
<1>5. activity["migrator"] \in [at : {"next", "upload"}, name : Names, todo : SUBSET Names, all : SUBSET Names,
                                 complete : BOOLEAN]
  <2>1. activity["migrator"] # NoTask
    BY <1>4 DEF NoTask
  <2> QED
    BY <2>1 DEF MediaTyped, ActivityTyped
<1>6. PICK t : t = [activity["migrator"] EXCEPT !.todo = activity["migrator"].todo \ {name},
                       !.complete = activity["migrator"].complete /\ there, !.name = name, !.at = at]
  OBVIOUS
<1>7. /\ t.at = at /\ t.name = name /\ t.todo = activity["migrator"].todo \ {name}
      /\ t.all = activity["migrator"].all
  BY <1>5, <1>6
<1>8. t.complete => activity["migrator"].complete /\ there
  BY <1>5, <1>6
<1>9. Alone("migrator") /\ activity'["migrator"] = t
  BY <1>1, <1>2, <1>3, <1>6, Distinct DEF MediaTyped, ActivityTyped, Alone
<1>10. there => \E s \in Stores : files[s][name] # "none"
  BY <1>2 DEF Stat
<1> QED
  BY <1>1, <1>3, <1>4, <1>5, <1>7, <1>8, <1>9, <1>10 DEF MigrateNext, Doing, rowVars, envVars, troubleVars

LEMMA UploadStep ==
  ASSUME MediaTyped, Upload
  PROVE  /\ Doing("migrator", "upload") /\ Alone("migrator")
         /\ activity'["migrator"].at = "next"
         /\ activity["migrator"].name \in Names /\ activity'["migrator"].name = activity["migrator"].name
         /\ activity'["migrator"].todo = activity["migrator"].todo
         /\ activity'["migrator"].all = activity["migrator"].all
         /\ \/ /\ activity'["migrator"].complete = activity["migrator"].complete /\ trouble' = trouble
               /\ LET size == files["local"][activity["migrator"].name]
                  IN files' = [files EXCEPT !["webdav"][activity["migrator"].name] =
                                  IF size = "none" THEN "whole" ELSE size]
            \/ /\ ~activity'["migrator"].complete /\ trouble' = trouble + 1
               /\ PutBreaks("webdav", activity["migrator"].name)
         /\ leftovers' = TRUE
         /\ UNCHANGED <<media, image, video, linked, requests, lock, damaged>>
<1>1. activity["migrator"].at = "upload"
  BY DEF Upload, Doing
<1>2. activity["migrator"] \in [at : {"next", "upload"}, name : Names, todo : SUBSET Names, all : SUBSET Names,
                                 complete : BOOLEAN]
  BY <1>1 DEF MediaTyped, ActivityTyped, NoTask
<1>3. PICK t : t = [activity["migrator"] EXCEPT !.at = "next"]
  OBVIOUS
<1>4. PICK u : u = [activity["migrator"] EXCEPT !.at = "next", !.complete = FALSE]
  OBVIOUS
<1>5. /\ t.at = "next" /\ t.name = activity["migrator"].name /\ t.todo = activity["migrator"].todo
      /\ t.all = activity["migrator"].all /\ t.complete = activity["migrator"].complete
  BY <1>2, <1>3
<1>6. /\ u.at = "next" /\ u.name = activity["migrator"].name /\ u.todo = activity["migrator"].todo
      /\ u.all = activity["migrator"].all /\ ~u.complete
  BY <1>2, <1>4
<1>7. Goto("migrator", "next") => Alone("migrator") /\ activity'["migrator"] = t
  BY <1>3, OneChanges, Distinct DEF Goto, MediaTyped
<1>8. activity' = [activity EXCEPT !["migrator"].at = "next", !["migrator"].complete = FALSE] =>
          Alone("migrator") /\ activity'["migrator"] = u
  BY <1>4, Distinct DEF MediaTyped, ActivityTyped, Alone
<1> QED
  BY <1>1, <1>2, <1>5, <1>6, <1>7, <1>8 DEF Upload, Doing, rowVars, envVars, Trouble, Leftovers

LEMMA OtherSteps ==
  ASSUME MediaTyped, Migrated \/ Recover \/ RecoverRow
  PROVE  /\ UNCHANGED <<media, image, linked, lock, trouble, damaged>>
         /\ \/ /\ Doing("migrator", "next") /\ activity'["migrator"] = NoTask /\ Alone("migrator")
               /\ UNCHANGED <<files, video, leftovers>>
            \/ /\ Doing("recoverer", "idle") /\ activity'["recoverer"].at = "update" /\ Alone("recoverer")
               /\ video.status = "completed" /\ PutAt("local", VideoName) /\ video' = video
               /\ leftovers' = TRUE
            \/ /\ Doing("recoverer", "update") /\ activity'["recoverer"].at = "idle" /\ Alone("recoverer")
               /\ video' = [video EXCEPT !.file = TRUE] /\ UNCHANGED <<files, leftovers>>
<1>1. ASSUME NEW a \in Server \cup Commands, NEW t, Become(a, t) PROVE Alone(a) /\ activity'[a] = t
  BY <1>1, OneChanges DEF Become, MediaTyped
<1>2. CASE Migrated
  <2>1. Alone("migrator") /\ activity'["migrator"] = NoTask
    BY <1>1, <1>2, Distinct DEF Migrated
  <2> QED
    BY <1>2, <2>1 DEF Migrated, rowVars, envVars, troubleVars
<1>3. CASE Recover
  <2>1. Alone("recoverer") /\ activity'["recoverer"].at = "update"
    BY <1>1, <1>3, Distinct DEF Recover
  <2>2. Doing("recoverer", "idle")
    BY <1>3 DEF Recover, Doing, NoTask
  <2>3. /\ UNCHANGED <<media, image, video, linked, lock, trouble, damaged>> /\ leftovers' = TRUE
        /\ video.status = "completed" /\ PutAt("local", VideoName)
    BY <1>3 DEF Recover, rowVars, Leftovers
  <2> QED
    BY <2>1, <2>2, <2>3
<1>4. CASE RecoverRow
  <2>1. Alone("recoverer") /\ activity'["recoverer"].at = "idle"
    BY <1>1, <1>4, Distinct DEF RecoverRow, NoTask
  <2> QED
    BY <1>4, <2>1 DEF RecoverRow, envVars, troubleVars
<1> QED
  BY <1>2, <1>3, <1>4

LEMMA AroundStep ==
  ASSUME MediaTyped, SwitchMedia \/ LinksExpire \/ Damage
  PROVE  /\ UNCHANGED <<image, video, lock, activity>>
         /\ \/ /\ trouble' = trouble + 1 /\ leftovers' = TRUE /\ UNCHANGED <<files, linked, damaged>>
            \/ linked' = FALSE /\ UNCHANGED <<media, files, trouble, damaged, leftovers>>
            \/ /\ \E s \in Stores, n \in Names :
                     OnlyAt(s, n) /\ files[s][n] = "whole" /\ damaged' = damaged \cup {n}
               /\ trouble' = trouble + 1 /\ UNCHANGED <<media, linked, leftovers>>
<1>1. CASE SwitchMedia
  BY <1>1 DEF SwitchMedia, rowVars, envVars, Trouble, Leftovers
<1>2. CASE LinksExpire
  BY <1>2 DEF LinksExpire, rowVars, envVars, troubleVars
<1>3. CASE Damage
  <2>1. PICK s \in Stores, n \in Names, left \in {"none", "short"} :
            files[s][n] = "whole" /\ files' = [files EXCEPT ![s][n] = left] /\ damaged' = damaged \cup {n}
    BY <1>3 DEF Damage
  <2>2. OnlyAt(s, n)
    BY <2>1 DEF OnlyAt, MediaTyped, RowsTyped
  <2> QED
    BY <1>3, <2>1, <2>2 DEF Damage, rowVars, envVars, Trouble
<1> QED
  BY <1>1, <1>2, <1>3

LEMMA DiesStep ==
  ASSUME MediaTyped, ServerDies
  PROVE  /\ \A a \in Server : activity'[a] = NoTask
         /\ \A a \in Commands : activity'[a] = activity[a]
         /\ UNCHANGED <<media, files, image, video, linked, damaged>>
         /\ lock' = "free" /\ trouble' = trouble + 1 /\ leftovers' = TRUE
BY Distinct DEF ServerDies, rowVars, envVars, Trouble, Leftovers, Server, Commands

LEMMA FreshToken ==
  ASSUME MediaTyped, NEW t \in Tokens \ Used
  PROVE  /\ t # image.token
         /\ \A a \in Archivers : ~Doing(a, "idle") => activity[a].token # t
         /\ ~Doing("migrator", "idle") => PicturesOf(t) \cap activity["migrator"].all = {}
         /\ \A s \in Stores, i \in Pictures : files[s][Picture(t, i)] = "none"
         /\ \A i \in Pictures : Picture(t, i) \notin damaged
<1>1. \A name \in PicturesOf(t), s \in Stores : files[s][name] = "none"
  BY DEF Used
<1>2. PicturesOf(t) \cap damaged = {}
  BY DEF Used
<1>3. \A i \in Pictures : Picture(t, i) \in PicturesOf(t)
  BY DEF PicturesOf
<1>4. \A a \in Archivers : ~Doing(a, "idle") => activity[a].token # t
  BY DEF Used, Doing, NoTask
<1>5. t # image.token /\ (~Doing("migrator", "idle") => PicturesOf(t) \cap activity["migrator"].all = {})
  BY DEF Used, Doing, NoTask
<1> QED
  BY <1>1, <1>2, <1>3, <1>4, <1>5

-----------------------------------------------------------------------------
(***************************************************************************)
(* Who archives is alone, and what they hold is nobody else's.              *)
(***************************************************************************)
LEMMA OneArchivesStep ==
  ASSUME MediaTyped, Order, [MediaNext]_mediaVars, MediaTyped'
  PROVE  OneArchives'
<1> USE Distinct DEF Order
<1>1. CASE Make
  BY <1>1, MakeStep DEF OneArchives, Alone, Archives, Writes, Doing
<1>2. ASSUME NEW a \in Archivers, PutPicture(a) PROVE OneArchives'
  BY <1>2, PutPictureStep DEF OneArchives, SameTask, Alone, Archives, Writes, Doing
<1>3. ASSUME NEW a \in Archivers, PutFails(a) PROVE OneArchives'
  BY <1>3, PutFailsStep DEF OneArchives, SameTask, Alone, Archives, Writes, Doing
<1>4. ASSUME NEW a \in Archivers, Complete(a) PROVE OneArchives'
  <2>1. \/ image'.status = "completed" /\ activity'[a].at = "drop"
        \/ image' = image /\ activity'[a].at = "clean"
    BY <1>4, CompleteStep DEF MediaTyped, RowsTyped
  <2>2. activity[a].at = "put" /\ SameTask(a) /\ lock' = lock
    BY <1>4, CompleteStep
  <2>3. CASE a = "maker"
    <3>1. /\ activity'["maker"].at \in {"drop", "clean"} /\ activity'["maker"].kind = activity["maker"].kind
          /\ activity'["maker"].old = activity["maker"].old /\ Writes("maker") /\ Archives("maker")
      BY <2>1, <2>2, <2>3 DEF SameTask, Archives, Writes, Doing
    <3>2. activity["maker"].kind = "image" /\ activity["maker"].old = 0 /\ image.status = "processing"
      BY <3>1 DEF OneArchives, Archives, Writes, Doing
    <3>3. \A r \in Readers : activity'[r] = activity[r]
      BY <2>2, <2>3 DEF SameTask, Alone
    <3> QED
      BY <2>1, <2>2, <2>3, <3>1, <3>2, <3>3 DEF OneArchives, Archives, Writes, Doing
  <2>4. CASE a \in Readers
    BY <2>1, <2>2, <2>4 DEF OneArchives, SameTask, Alone, Archives, Writes, Doing
  <2> QED
    BY <2>3, <2>4 DEF Archivers
<1>5. ASSUME NEW a \in Archivers, Clean(a) PROVE OneArchives'
  BY <1>5, CleanStep DEF OneArchives, SameTask, Alone, Archives, Writes, Doing, NoTask, MediaTyped, RowsTyped
<1>6. ASSUME NEW a \in Archivers, Drop(a) PROVE OneArchives'
  <2>1. CASE a = "maker"
    <3>1. (activity'["maker"] = NoTask /\ image' = image /\ lock' = lock) \/ a \in Readers
      BY <1>6, <2>1, DropStep
    <3>2. \A r \in Readers : activity'[r] = activity[r]
      BY <1>6, <2>1, DropStep DEF Alone
    <3> QED
      BY <2>1, <3>1, <3>2 DEF OneArchives, Archives, Writes, Doing, NoTask
  <2>2. CASE a \in Readers
    <3>1. /\ Archives(a) /\ Alone(a) /\ activity'[a].at = "row" /\ activity'[a].kind = activity[a].kind
          /\ lock' = "free" /\ image' = image
      BY <1>6, <2>2, DropStep DEF Archives, Doing
    <3>2. \A b \in Readers \ {a} : ~Archives(b)
      BY <2>2, <3>1 DEF OneArchives
    <3> QED
      BY <2>2, <3>1, <3>2 DEF OneArchives, Alone, Archives, Writes, Doing
  <2> QED
    BY <2>1, <2>2 DEF Archivers
<1>7. ASSUME NEW r \in Readers, Restore(r) PROVE OneArchives'
  <2>1. \A b \in Readers : ~Archives(b)
    BY <1>7, RestoreStep, MediaConstants DEF OneArchives
  <2> QED
    BY <1>7, <2>1, RestoreStep DEF OneArchives, Alone, Archives, Writes, Doing
<1>8. ASSUME NEW r \in Readers, MovesQuietly(r) PROVE OneArchives'
  BY <1>8, QuietMoves DEF OneArchives, ReaderMove, Alone, Archives, Writes, Doing
<1>9. CASE Poll \/ PutVideo \/ SaveVideo
  BY <1>9, PollerStep DEF OneArchives, Alone, Archives, Writes, Doing
<1>10. ASSUME NEW kind \in {"image", "video"}, Delete(kind) PROVE OneArchives'
  BY <1>10, DeleteStep DEF OneArchives, Alone, Archives, Writes, Doing
<1>11. CASE Hide
  BY <1>11, HideStep DEF OneArchives, Alone, Archives, Writes, Doing, MediaTyped, RowsTyped
<1>12. CASE RemovePictures \/ RemoveVideo
  <2>1. /\ Alone("deleter") /\ lock' = lock /\ image'.status = image.status
        /\ image'.token = image.token \/ image'.token = 0
    BY <1>12, RemoveStep DEF MediaTyped, RowsTyped
  <2> QED
    BY <2>1 DEF OneArchives, Alone, Archives, Writes, Doing
<1>13. CASE Migrate
  BY <1>13, MigrateStep DEF OneArchives, Alone, Archives, Writes, Doing
<1>14. CASE MigrateNext
  BY <1>14, MigrateNextStep DEF OneArchives, Alone, Archives, Writes, Doing
<1>15. CASE Upload
  BY <1>15, UploadStep DEF OneArchives, Alone, Archives, Writes, Doing
<1>16. CASE Migrated \/ Recover \/ RecoverRow
  <2>1. UNCHANGED <<image, lock>> /\ \A a \in Archivers : activity'[a] = activity[a]
    BY <1>16, OtherSteps DEF Alone, Archivers
  <2> QED
    BY <2>1 DEF OneArchives, Archivers, Archives, Writes, Doing
<1>17. CASE SwitchMedia \/ LinksExpire \/ Damage
  <2>1. UNCHANGED <<image, video, lock, activity>>
    BY <1>17, AroundStep
  <2> QED
    BY <2>1 DEF OneArchives, Archives, Writes, Doing
<1>18. CASE ServerDies
  BY <1>18, DiesStep DEF OneArchives, Archives, Writes, Doing, NoTask, Archivers, Server
<1>19. CASE UNCHANGED mediaVars
  BY <1>19 DEF OneArchives, Archives, Writes, Doing, mediaVars, rowVars
<1> QED
  BY <1>1, <1>2, <1>3, <1>4, <1>5, <1>6, <1>7, <1>8, <1>9, <1>10, <1>11, <1>12, <1>13, <1>14, <1>15, <1>16,
     <1>17, <1>18, <1>19 DEF MediaNext, ArchiveStep, ReadStep, MovesQuietly

\* Two actors archive at once only if one of them is the request, which has
\* nothing to drop.
LEMMA Exclusive ==
  ASSUME OneArchives, NEW a \in Archivers, NEW b \in Archivers \ {a}, Writes(a), Archives(b)
  PROVE  b = "maker" /\ Doing("maker", "drop") /\ activity["maker"].old = 0
<1>1. CASE a = "maker"
  BY <1>1, Distinct DEF OneArchives, Archivers, Archives, Writes, Doing
<1>2. CASE a \in Readers /\ b \in Readers
  BY <1>2 DEF OneArchives, Archives
<1>3. CASE a \in Readers /\ b = "maker"
  BY <1>3 DEF OneArchives, Archives, Writes, Doing
<1> QED
  BY <1>1, <1>2, <1>3 DEF Archivers

LEMMA TokensFreshStep ==
  ASSUME MediaTyped, Order, [MediaNext]_mediaVars, MediaTyped'
  PROVE  TokensFresh'
<1> USE Distinct DEF Order
<1>1. CASE Make
  <2>1. image.token = 0 /\ image' = image
    BY <1>1, MakeStep DEF OneArchives
  <2>2. PICK t \in Tokens \ Used : t = activity'["maker"].token
    BY <1>1, MakeStep
  <2> QED
    BY <1>1, <2>1, <2>2, MakeStep, FreshToken DEF TokensFresh, Alone, Writes, Doing
<1>2. ASSUME NEW a \in Archivers, PutPicture(a) PROVE TokensFresh'
  BY <1>2, PutPictureStep DEF TokensFresh, Alone, Archives, Writes, Doing, SameTask
<1>3. ASSUME NEW a \in Archivers, PutFails(a) PROVE TokensFresh'
  BY <1>3, PutFailsStep DEF TokensFresh, Alone, Archives, Writes, Doing, SameTask
<1>4. ASSUME NEW a \in Archivers, Complete(a) PROVE TokensFresh'
  <2>1. ASSUME NEW b \in Archivers \ {a}, Archives(b) PROVE Doing(b, "drop") /\ activity[b].old = 0
    BY <1>4, <2>1, CompleteStep, Exclusive DEF Writes, Doing
  <2>2. Alone(a) /\ activity'[a].token = activity[a].token /\ activity'[a].old = activity[a].old /\ Writes(a)
    BY <1>4, CompleteStep DEF SameTask, Writes, Doing
  <2>3. activity'[a].at = "drop" \/ (activity'[a].at = "clean" /\ image' = image)
    BY <1>4, CompleteStep
  <2>4. activity'["migrator"] = activity["migrator"]
    BY <2>2 DEF Alone
  <2>5. /\ activity[a].token # image.token /\ activity[a].old = image.token
        /\ ~Doing("migrator", "idle") => PicturesOf(activity[a].token) \cap activity["migrator"].all = {}
    BY <2>2 DEF TokensFresh
  <2>6. activity'[a].at = "drop" => image' = [image EXCEPT !.status = "completed", !.token = activity[a].token]
    BY <1>4, CompleteStep
  <2>7. activity'[a].at = "drop" => image'.token = activity[a].token
    BY <2>6 DEF MediaTyped, RowsTyped
  <2> QED
    BY <2>1, <2>2, <2>3, <2>4, <2>5, <2>7 DEF TokensFresh, Alone, Archives, Writes, Doing
<1>5. ASSUME NEW a \in Archivers, Clean(a) PROVE TokensFresh'
  <2>1. Alone(a) /\ activity'[a].at \in {"idle", "remote"} /\ image'.token = image.token
    BY <1>5, CleanStep DEF SameTask, NoTask, MediaTyped, RowsTyped
  <2> QED
    BY <2>1 DEF TokensFresh, Alone, Writes, Doing
<1>6. ASSUME NEW a \in Archivers, Drop(a) PROVE TokensFresh'
  <2>1. Alone(a) /\ (activity'[a] = NoTask \/ activity'[a].at = "row") /\ image' = image
    BY <1>6, DropStep
  <2> QED
    BY <2>1 DEF TokensFresh, Alone, Writes, Doing, NoTask
<1>7. ASSUME NEW r \in Readers, Restore(r) PROVE TokensFresh'
  <2>1. PICK t \in Tokens \ Used : t = activity'[r].token
    BY <1>7, RestoreStep
  <2> QED
    BY <1>7, <2>1, RestoreStep, FreshToken DEF TokensFresh, Alone, Writes, Doing
<1>8. ASSUME NEW r \in Readers, MovesQuietly(r) PROVE TokensFresh'
  BY <1>8, QuietMoves DEF TokensFresh, Alone, Archives, Writes, Doing, ReaderMove
<1>9. CASE Poll \/ PutVideo \/ SaveVideo
  BY <1>9, PollerStep DEF TokensFresh, Alone, Archives, Writes, Doing
<1>10. ASSUME NEW kind \in {"image", "video"}, Delete(kind) PROVE TokensFresh'
  BY <1>10, DeleteStep DEF TokensFresh, Alone, Archives, Writes, Doing
<1>11. CASE Hide
  <2>1. Alone("deleter") /\ image'.token = image.token
    BY <1>11, HideStep DEF MediaTyped, RowsTyped
  <2> QED
    BY <2>1 DEF TokensFresh, Alone, Writes, Doing
<1>12. CASE RemovePictures \/ RemoveVideo
  <2>1. CASE activity["deleter"].kind = "image"
    <3>1. ASSUME NEW b \in Archivers, Archives(b) PROVE Doing(b, "drop") /\ activity[b].old = 0
      BY <1>12, <2>1, <3>1, RemoveStep, MediaConstants
         DEF OneArchives, DeletionOrder, Row, Archivers, Archives, Writes, Doing
    <3> QED
      BY <1>12, <3>1, RemoveStep DEF TokensFresh, Alone, Archives, Writes, Doing
  <2>2. CASE activity["deleter"].kind = "video"
    BY <1>12, <2>2, RemoveStep DEF TokensFresh, Alone, Writes, Doing
  <2> QED
    BY <1>12, <2>1, <2>2, RemoveStep
<1>13. CASE Migrate
  <2>1. ASSUME NEW t \in Tokens, t # image.token PROVE PicturesOf(t) \cap Listed = {}
    BY <2>1, FileNames DEF Listed, FilesOf, PicturesOf, VideoFile
  <2>2. /\ \A b \in Archivers : activity'[b] = activity[b]
        /\ image' = image /\ activity'["migrator"].all = Listed
    BY <1>13, MigrateStep DEF Alone
  <2>3. \A b \in Archivers : Writes(b) => activity[b].token \in Tokens
    BY DEF MediaTyped, ActivityTyped
  <2> QED
    BY <2>1, <2>2, <2>3 DEF TokensFresh, Writes, Doing
<1>14. CASE MigrateNext
  BY <1>14, MigrateNextStep DEF TokensFresh, Alone, Archives, Writes, Doing
<1>15. CASE Upload
  BY <1>15, UploadStep DEF TokensFresh, Alone, Archives, Writes, Doing
<1>16. CASE Migrated \/ Recover \/ RecoverRow
  <2>1. /\ \A b \in Archivers : activity'[b] = activity[b]
        /\ image' = image
        /\ activity'["migrator"] = activity["migrator"] \/ activity'["migrator"] = NoTask
    BY <1>16, OtherSteps DEF Alone
  <2> QED
    BY <2>1 DEF TokensFresh, Writes, Doing, NoTask
<1>17. CASE SwitchMedia \/ LinksExpire \/ Damage
  BY <1>17, AroundStep DEF TokensFresh, Alone, Archives, Writes, Doing
<1>18. CASE ServerDies
  BY <1>18, DiesStep DEF TokensFresh, Alone, Archives, Writes, Doing, NoTask, Archivers, Server,
     Commands
<1>19. CASE UNCHANGED mediaVars
  BY <1>19 DEF TokensFresh, Alone, Archives, Writes, Doing, mediaVars, rowVars, envVars, troubleVars
<1> QED
  BY <1>1, <1>2, <1>3, <1>4, <1>5, <1>6, <1>7, <1>8, <1>9, <1>10, <1>11, <1>12, <1>13, <1>14, <1>15,
     <1>16, <1>17, <1>18, <1>19 DEF MediaNext, ArchiveStep, ReadStep, MovesQuietly

LEMMA DeletionOrderStep ==
  ASSUME MediaTyped, Order, [MediaNext]_mediaVars, MediaTyped'
  PROVE  DeletionOrder'
<1> USE Distinct DEF Order
<1>1. CASE Make
  BY <1>1, MakeStep DEF DeletionOrder, Row, Alone, Doing
<1>2. ASSUME NEW a \in Archivers, PutPicture(a) PROVE DeletionOrder'
  BY <1>2, PutPictureStep DEF DeletionOrder, Row, Alone, Doing, SameTask
<1>3. ASSUME NEW a \in Archivers, PutFails(a) PROVE DeletionOrder'
  BY <1>3, PutFailsStep DEF DeletionOrder, Row, Alone, Doing, SameTask
<1>4. ASSUME NEW a \in Archivers, Complete(a) PROVE DeletionOrder'
  <2>1. Alone(a) /\ image'.deleted = image.deleted /\ video' = video
    BY <1>4, CompleteStep DEF SameTask, MediaTyped, RowsTyped
  <2>2. image'.status = image.status \/ image'.status = "completed"
    BY <1>4, CompleteStep DEF MediaTyped, RowsTyped
  <2> QED
    BY <2>1, <2>2 DEF DeletionOrder, Row, Alone, Doing
<1>5. ASSUME NEW a \in Archivers, Clean(a) PROVE DeletionOrder'
  <2>1. Alone(a) /\ image'.deleted = image.deleted /\ video' = video
    BY <1>5, CleanStep DEF SameTask, MediaTyped, RowsTyped
  <2>2. image'.status = image.status \/ image'.status = "failed"
    BY <1>5, CleanStep DEF MediaTyped, RowsTyped
  <2> QED
    BY <2>1, <2>2 DEF DeletionOrder, Row, Alone, Doing
<1>6. ASSUME NEW a \in Archivers, Drop(a) PROVE DeletionOrder'
  BY <1>6, DropStep DEF DeletionOrder, Row, Alone, Doing, NoTask
<1>7. ASSUME NEW r \in Readers, Restore(r) PROVE DeletionOrder'
  BY <1>7, RestoreStep DEF DeletionOrder, Row, Alone, Doing
<1>8. ASSUME NEW r \in Readers, MovesQuietly(r) PROVE DeletionOrder'
  BY <1>8, QuietMoves DEF DeletionOrder, Row, Alone, Doing, ReaderMove
<1>9. CASE Poll \/ PutVideo \/ SaveVideo
  <2>1. /\ Alone("poller") /\ image' = image /\ video'.deleted = video.deleted
        /\ video'.status = video.status \/ video'.status \in {"completed", "failed"}
    BY <1>9, PollerStep DEF MediaTyped, RowsTyped
  <2> QED
    BY <2>1 DEF DeletionOrder, Row, Alone, Doing
<1>10. ASSUME NEW kind \in {"image", "video"}, Delete(kind) PROVE DeletionOrder'
  BY <1>10, DeleteStep DEF DeletionOrder, Row, Alone, Doing
<1>11. CASE Hide
  <2>1. activity["deleter"].kind \in {"image", "video"} /\ Doing("deleter", "hide")
    BY <1>11, HideStep DEF MediaTyped, ActivityTyped, Doing, NoTask
  <2>2. image'.status = image.status /\ video'.status = video.status
    BY <1>11, HideStep DEF MediaTyped, RowsTyped
  <2>3. /\ activity["deleter"].kind = "video" => image' = image
        /\ activity["deleter"].kind = "image" => video' = video
        /\ \/ activity'["deleter"] = NoTask /\ UNCHANGED <<image, video>>
           \/ /\ activity'["deleter"].at = "remove" /\ activity'["deleter"].kind = activity["deleter"].kind
              /\ activity["deleter"].kind = "image" => image'.deleted
              /\ activity["deleter"].kind = "video" => video'.deleted
    BY <1>11, <2>1, HideStep DEF MediaTyped, RowsTyped
  <2> QED
    BY <2>1, <2>2, <2>3 DEF DeletionOrder, Row, Doing, NoTask
<1>12. CASE RemovePictures \/ RemoveVideo
  <2>1. /\ image'.status = image.status /\ image'.deleted = image.deleted /\ video' = video
        /\ activity'["deleter"] = NoTask
    BY <1>12, RemoveStep DEF MediaTyped, RowsTyped
  <2> QED
    BY <2>1 DEF DeletionOrder, Doing, NoTask
<1>13. CASE Migrate
  BY <1>13, MigrateStep DEF DeletionOrder, Row, Alone, Doing
<1>14. CASE MigrateNext
  BY <1>14, MigrateNextStep DEF DeletionOrder, Row, Alone, Doing
<1>15. CASE Upload
  BY <1>15, UploadStep DEF DeletionOrder, Row, Alone, Doing
<1>16. CASE Migrated \/ Recover \/ RecoverRow
  <2>1. /\ image' = image /\ video'.status = video.status /\ video'.deleted = video.deleted
        /\ activity'["deleter"] = activity["deleter"]
    BY <1>16, OtherSteps DEF MediaTyped, RowsTyped, Alone
  <2> QED
    BY <2>1 DEF DeletionOrder, Row, Doing
<1>17. CASE SwitchMedia \/ LinksExpire \/ Damage
  BY <1>17, AroundStep DEF DeletionOrder, Row, Alone, Doing
<1>18. CASE ServerDies
  BY <1>18, DiesStep DEF DeletionOrder, Row, Alone, Doing, NoTask, Archivers, Server, Commands
<1>19. CASE UNCHANGED mediaVars
  BY <1>19 DEF DeletionOrder, Row, Alone, Doing, mediaVars, rowVars, envVars, troubleVars
<1> QED
  BY <1>1, <1>2, <1>3, <1>4, <1>5, <1>6, <1>7, <1>8, <1>9, <1>10, <1>11, <1>12, <1>13, <1>14, <1>15,
     <1>16, <1>17, <1>18, <1>19 DEF MediaNext, ArchiveStep, ReadStep, MovesQuietly

LEMMA VideoOrderStep ==
  ASSUME MediaTyped, Order, [MediaNext]_mediaVars, MediaTyped'
  PROVE  VideoOrder'
<1> USE Distinct DEF Order
<1>1. CASE Make
  BY <1>1, MakeStep DEF VideoOrder, Alone, Doing
<1>2. ASSUME NEW a \in Archivers, PutPicture(a) PROVE VideoOrder'
  BY <1>2, PutPictureStep DEF VideoOrder, Alone, Doing, SameTask
<1>3. ASSUME NEW a \in Archivers, PutFails(a) PROVE VideoOrder'
  BY <1>3, PutFailsStep DEF VideoOrder, Alone, Doing, SameTask
<1>4. ASSUME NEW a \in Archivers, Complete(a) PROVE VideoOrder'
  BY <1>4, CompleteStep DEF VideoOrder, Alone, Doing, SameTask
<1>5. ASSUME NEW a \in Archivers, Clean(a) PROVE VideoOrder'
  BY <1>5, CleanStep DEF VideoOrder, Alone, Doing, SameTask, NoTask
<1>6. ASSUME NEW a \in Archivers, Drop(a) PROVE VideoOrder'
  BY <1>6, DropStep DEF VideoOrder, Alone, Doing, NoTask
<1>7. ASSUME NEW r \in Readers, Restore(r) PROVE VideoOrder'
  BY <1>7, RestoreStep DEF VideoOrder, Alone, Doing
<1>8. ASSUME NEW r \in Readers, MovesQuietly(r) PROVE VideoOrder'
  BY <1>8, QuietMoves DEF VideoOrder, Alone, Doing, ReaderMove
<1>9. CASE Poll \/ PutVideo \/ SaveVideo
  <2>1. Alone("poller") /\ activity'["recoverer"] = activity["recoverer"]
    BY <1>9, PollerStep DEF Alone
  <2>2. CASE video' = video
    BY <1>9, <2>1, <2>2, PollerStep DEF VideoOrder, Doing
  <2>3. CASE video' # video
    <3>1. ~Doing("poller", "idle") /\ activity'["poller"].at = "idle"
      BY <1>9, <2>3, PollerStep DEF Doing
    <3>2. video'.status \in {"completed", "failed"}
      BY <1>9, <2>3, PollerStep DEF MediaTyped, RowsTyped
    <3> QED
      BY <2>1, <3>1, <3>2 DEF VideoOrder, Doing
  <2> QED
    BY <2>2, <2>3
<1>10. ASSUME NEW kind \in {"image", "video"}, Delete(kind) PROVE VideoOrder'
  BY <1>10, DeleteStep DEF VideoOrder, Alone, Doing
<1>11. CASE Hide
  <2>1. /\ Alone("deleter") /\ video'.status = video.status /\ video'.file = video.file
    BY <1>11, HideStep DEF MediaTyped, RowsTyped
  <2> QED
    BY <2>1 DEF VideoOrder, Alone, Doing
<1>12. CASE RemovePictures \/ RemoveVideo
  <2>1. Alone("deleter") /\ video' = video
    BY <1>12, RemoveStep
  <2> QED
    BY <2>1 DEF VideoOrder, Alone, Doing
<1>13. CASE Migrate
  BY <1>13, MigrateStep DEF VideoOrder, Alone, Doing
<1>14. CASE MigrateNext
  BY <1>14, MigrateNextStep DEF VideoOrder, Alone, Doing
<1>15. CASE Upload
  BY <1>15, UploadStep DEF VideoOrder, Alone, Doing
<1>16. CASE Migrated \/ Recover \/ RecoverRow
  <2>1. activity'["poller"] = activity["poller"] /\ video'.status = video.status
    BY <1>16, OtherSteps DEF MediaTyped, RowsTyped, Alone
  <2>2. \/ video' = video \/ video.status = "completed"
    BY <1>16, OtherSteps DEF VideoOrder, Doing
  <2>3. activity'["recoverer"].at # "idle" => video.status = "completed"
    BY <1>16, OtherSteps DEF VideoOrder, Doing, Alone
  <2> QED
    BY <2>1, <2>2, <2>3 DEF VideoOrder, Doing
<1>17. CASE SwitchMedia \/ LinksExpire \/ Damage
  BY <1>17, AroundStep DEF VideoOrder, Alone, Doing
<1>18. CASE ServerDies
  BY <1>18, DiesStep DEF VideoOrder, Alone, Doing, NoTask, Archivers, Server, Commands
<1>19. CASE UNCHANGED mediaVars
  BY <1>19 DEF VideoOrder, Alone, Doing, mediaVars, rowVars, envVars, troubleVars
<1> QED
  BY <1>1, <1>2, <1>3, <1>4, <1>5, <1>6, <1>7, <1>8, <1>9, <1>10, <1>11, <1>12, <1>13, <1>14, <1>15,
     <1>16, <1>17, <1>18, <1>19 DEF MediaNext, ArchiveStep, ReadStep, MovesQuietly

LEMMA MigrationOrderStep ==
  ASSUME MediaTyped, Order, [MediaNext]_mediaVars, MediaTyped'
  PROVE  MigrationOrder'
<1> USE Distinct DEF Order
<1>1. CASE Make
  BY <1>1, MakeStep DEF MigrationOrder, Alone, Doing
<1>2. ASSUME NEW a \in Archivers, PutPicture(a) PROVE MigrationOrder'
  BY <1>2, PutPictureStep DEF MigrationOrder, Alone, Doing, SameTask
<1>3. ASSUME NEW a \in Archivers, PutFails(a) PROVE MigrationOrder'
  BY <1>3, PutFailsStep DEF MigrationOrder, Alone, Doing, SameTask
<1>4. ASSUME NEW a \in Archivers, Complete(a) PROVE MigrationOrder'
  <2>1. Alone(a) /\ video' = video
    BY <1>4, CompleteStep DEF SameTask
  <2>2. activity'["migrator"] = activity["migrator"]
    BY <2>1 DEF Alone
  <2> QED
    BY <2>1, <2>2 DEF MigrationOrder, Doing
<1>5. ASSUME NEW a \in Archivers, Clean(a) PROVE MigrationOrder'
  BY <1>5, CleanStep DEF MigrationOrder, Alone, Doing, SameTask, NoTask
<1>6. ASSUME NEW a \in Archivers, Drop(a) PROVE MigrationOrder'
  BY <1>6, DropStep DEF MigrationOrder, Alone, Doing, NoTask
<1>7. ASSUME NEW r \in Readers, Restore(r) PROVE MigrationOrder'
  BY <1>7, RestoreStep DEF MigrationOrder, Alone, Doing
<1>8. ASSUME NEW r \in Readers, MovesQuietly(r) PROVE MigrationOrder'
  BY <1>8, QuietMoves DEF MigrationOrder, Alone, Doing, ReaderMove
<1>9. CASE Poll \/ PutVideo \/ SaveVideo
  <2>1. activity'["migrator"] = activity["migrator"]
    BY <1>9, PollerStep DEF Alone
  <2>2. video.file => video'.file
    BY <1>9, PollerStep DEF MediaTyped, RowsTyped
  <2> QED
    BY <2>1, <2>2 DEF MigrationOrder, Doing
<1>10. ASSUME NEW kind \in {"image", "video"}, Delete(kind) PROVE MigrationOrder'
  BY <1>10, DeleteStep DEF MigrationOrder, Alone, Doing
<1>11. CASE Hide
  <2>1. /\ Alone("deleter") /\ video'.file = video.file
    BY <1>11, HideStep DEF MediaTyped, RowsTyped
  <2> QED
    BY <2>1 DEF MigrationOrder, Alone, Doing
<1>12. CASE RemovePictures \/ RemoveVideo
  <2>1. Alone("deleter") /\ video' = video
    BY <1>12, RemoveStep
  <2> QED
    BY <2>1 DEF MigrationOrder, Alone, Doing
<1>13. CASE Migrate
  <2>1. VideoName \in Listed => video.file
    BY FileNames DEF Listed, FilesOf, PicturesOf, VideoFile
  <2> QED
    BY <1>13, <2>1, MigrateStep DEF MigrationOrder, Doing
<1>14. CASE MigrateNext
  BY <1>14, MigrateNextStep DEF MigrationOrder, Alone, Doing
<1>15. CASE Upload
  BY <1>15, UploadStep DEF MigrationOrder, Alone, Doing
<1>16. CASE Migrated \/ Recover \/ RecoverRow
  <2>1. activity'["migrator"] = activity["migrator"] \/ activity'["migrator"] = NoTask
    BY <1>16, OtherSteps DEF Alone
  <2>2. video.file => video'.file
    BY <1>16, OtherSteps DEF MediaTyped, RowsTyped
  <2> QED
    BY <2>1, <2>2 DEF MigrationOrder, Doing, NoTask
<1>17. CASE SwitchMedia \/ LinksExpire \/ Damage
  BY <1>17, AroundStep DEF MigrationOrder, Alone, Doing
<1>18. CASE ServerDies
  BY <1>18, DiesStep DEF MigrationOrder, Alone, Doing, NoTask, Archivers, Server, Commands
<1>19. CASE UNCHANGED mediaVars
  BY <1>19 DEF MigrationOrder, Alone, Doing, mediaVars, rowVars, envVars, troubleVars
<1> QED
  BY <1>1, <1>2, <1>3, <1>4, <1>5, <1>6, <1>7, <1>8, <1>9, <1>10, <1>11, <1>12, <1>13, <1>14, <1>15,
     <1>16, <1>17, <1>18, <1>19 DEF MediaNext, ArchiveStep, ReadStep, MovesQuietly

LEMMA InitOrder == MediaInit => Order
<1> SUFFICES ASSUME MediaInit PROVE Order
  OBVIOUS
<1> USE Distinct
<1>1. \A a \in Server \cup Commands : activity[a] = NoTask
  BY DEF MediaInit
<1>2. image.status = "processing" => image.token = 0
  BY DEF MediaInit
<1>3. ~image.deleted /\ ~video.deleted
  BY DEF MediaInit
<1>4. video.status = "processing" => ~video.file
  BY DEF MediaInit
<1> QED
  BY <1>1, <1>2, <1>3, <1>4 DEF Order, OneArchives, TokensFresh, DeletionOrder, VideoOrder, MigrationOrder,
     Archives, Writes, Doing, NoTask

LEMMA StepOrder == MediaTyped /\ Order /\ [MediaNext]_mediaVars => Order'
<1> SUFFICES ASSUME MediaTyped, Order, [MediaNext]_mediaVars PROVE Order'
  OBVIOUS
<1>1. MediaTyped'
  BY StepTyped
<1> QED
  BY <1>1, OneArchivesStep, TokensFreshStep, DeletionOrderStep, VideoOrderStep, MigrationOrderStep DEF Order

-----------------------------------------------------------------------------
(***************************************************************************)
(* Files that count: of visible works, and of pictures being put.           *)
(***************************************************************************)
LEMMA VisibleIs ==
  ASSUME MediaTyped
  PROVE  /\ VideoName \in Visible <=> video.file /\ ~video.deleted
         /\ \A t \in Tokens, i \in Pictures : Picture(t, i) \in Visible <=> t = image.token /\ ~image.deleted
         /\ Visible \subseteq Names
<1>1. image.token \in Tokens \cup {0} /\ 0 \notin Tokens
  BY MediaConstants DEF MediaTyped, RowsTyped
<1>2. \A t \in Tokens, i \in Pictures : Picture(t, i) \in FilesOf(image.token) <=> t = image.token
  BY <1>1, FileNames DEF FilesOf, PicturesOf
<1>3. VideoName \notin FilesOf(image.token) /\ FilesOf(image.token) \subseteq Names
  BY <1>1, FileNames DEF FilesOf, PicturesOf
<1>4. VideoName \in VideoFile <=> video.file /\ ~video.deleted
  BY DEF VideoFile
<1>5. VideoFile \subseteq {VideoName}
  BY DEF VideoFile
<1> QED
  BY <1>2, <1>3, <1>4, <1>5, FileNames DEF Visible

LEMMA VisibleIsNext ==
  ASSUME MediaTyped'
  PROVE  /\ VideoName \in Visible' <=> video'.file /\ ~video'.deleted
         /\ \A t \in Tokens, i \in Pictures : Picture(t, i) \in Visible' <=> t = image'.token /\ ~image'.deleted
         /\ Visible' \subseteq Names
<1>1. image'.token \in Tokens \cup {0} /\ 0 \notin Tokens
  BY MediaConstants DEF MediaTyped, RowsTyped
<1>2. \A t \in Tokens, i \in Pictures : Picture(t, i) \in FilesOf(image'.token) <=> t = image'.token
  BY <1>1, FileNames DEF FilesOf, PicturesOf
<1>3. VideoName \notin FilesOf(image'.token) /\ FilesOf(image'.token) \subseteq Names
  BY <1>1, FileNames DEF FilesOf, PicturesOf
<1>4. VideoName \in VideoFile' <=> video'.file /\ ~video'.deleted
  BY DEF VideoFile
<1>5. VideoFile' \subseteq {VideoName}
  BY DEF VideoFile
<1>6. Visible' = VideoFile' \cup IF image'.deleted THEN {} ELSE FilesOf(image'.token)
  BY DEF Visible
<1> QED
  BY <1>2, <1>3, <1>4, <1>5, <1>6, FileNames

\* A file counts while the row of a visible work names it or somebody goes on
\* putting the pictures it belongs to.
PutBy(a, n) == Doing(a, "put") /\ n \in PicturesOf(activity[a].token)
Held(n) == n \in Visible \/ \E a \in Archivers : PutBy(a, n) /\ Doing(a, "put")'

LEMMA HeldTokens ==
  ASSUME MediaTyped, Order, NEW a \in Archivers, Archives(a), NEW n \in Names, Held(n),
         Doing(a, "put") => ~Doing(a, "put")'
  PROVE  /\ Writes(a) => n \notin PicturesOf(activity[a].token)
         /\ Doing(a, "drop") => n \notin FilesOf(activity[a].old)
<1>1. CASE n \in Visible
  <2>1. ASSUME NEW t \in Tokens, t # image.token PROVE n \notin PicturesOf(t)
    BY <1>1, <2>1, VisibleIs DEF PicturesOf
  <2>2. Writes(a) => activity[a].token \in Tokens /\ activity[a].token # image.token
    BY DEF MediaTyped, ActivityTyped, Order, TokensFresh
  <2>3. Doing(a, "drop") => activity[a].old \in Tokens \cup {0} /\ (activity[a].old = 0 \/ activity[a].old # image.token)
    BY ArchiverIs DEF MediaTyped, Order, TokensFresh, Doing
  <2> QED
    BY <2>1, <2>2, <2>3 DEF FilesOf
<1>2. ASSUME NEW b \in Archivers, PutBy(b, n), Doing(b, "put")'
      PROVE  /\ Writes(a) => n \notin PicturesOf(activity[a].token)
             /\ Doing(a, "drop") => n \notin FilesOf(activity[a].old)
  <2>1. a # b /\ Writes(b)
    BY <1>2 DEF PutBy, Archives, Writes, Doing
  <2>2. a = "maker" /\ Doing("maker", "drop") /\ activity["maker"].old = 0
    BY <2>1, Exclusive DEF Order
  <2> QED
    BY <2>2 DEF Writes, Doing, FilesOf
<1> QED
  BY <1>1, <1>2 DEF Held

LEMMA NamesPut ==
  ASSUME MediaTyped, NEW a \in Archivers, ~Doing(a, "idle"), NEW n \in Names
  PROVE  n \in PutSoFar(a) => \E i \in Pictures : n = Picture(activity[a].token, i) /\ i < activity[a].next
<1> SUFFICES ASSUME n \in PutSoFar(a) PROVE \E i \in Pictures : n = Picture(activity[a].token, i) /\ i < activity[a].next
  OBVIOUS
<1>1. PICK k \in 1..(activity[a].next - 1) : n = Picture(activity[a].token, k)
  BY DEF PutSoFar
<1>2. n # VideoName
  BY <1>1, FileNames
<1>3. PICK t \in Tokens, i \in Pictures : n = Picture(t, i)
  BY <1>2, FileNames
<1>4. i = k /\ t = activity[a].token
  BY <1>1, <1>3 DEF Picture
<1>5. activity[a].next \in Nat
  BY ArchiverIs DEF MediaTyped, Doing
<1> QED
  BY <1>1, <1>3, <1>4, <1>5

LEMMA NobodyPuts ==
  ASSUME MediaTyped, Order, Doing("deleter", "remove"), activity["deleter"].kind = "image", lock = "free",
         NEW a \in Archivers
  PROVE  ~Writes(a)
BY MediaConstants, Distinct DEF Order, OneArchives, DeletionOrder, Row, Archivers, Archives, Writes, Doing

LEMMA HeldFilesStayStep ==
  ASSUME MediaTyped, Order, [MediaNext]_mediaVars, MediaTyped', NEW n \in Names, Held(n), n \notin damaged',
         NEW s \in Stores, files[s][n] = "whole",
         NEW uploaded \in BOOLEAN,
         uploaded = (/\ Doing("migrator", "upload") /\ n = activity["migrator"].name /\ s = "webdav"
                     /\ files'["local"][n] = files["local"][n] /\ leftovers' = TRUE)
  PROVE  files'[s][n] = "whole" \/ uploaded
<1> USE Distinct
<1>1. CASE Make
  BY <1>1, MakeStep DEF Doing
<1>2. ASSUME NEW a \in Archivers, PutPicture(a) PROVE files'[s][n] = "whole" \/ uploaded
  <2>1. Picture(activity[a].token, activity[a].next) \in Names /\ FilesTyped /\ Primary \in Stores
    BY <1>2, PutPictureStep, FileNames, PrimaryInReach DEF MediaTyped, RowsTyped, FilesTyped
  <2>2. \E u \in Stores, m \in Names : OnlyAt(u, m) /\ files'[u][m] = "whole"
    BY <1>2, <2>1, PutPictureStep, PutEffect
  <2> QED
    BY <2>2 DEF OnlyAt
<1>3. ASSUME NEW a \in Archivers, PutFails(a) PROVE files'[s][n] = "whole" \/ uploaded
  <2>1. Picture(activity[a].token, activity[a].next) \in Names /\ FilesTyped /\ Primary \in Stores
    BY <1>3, PutFailsStep, FileNames, PrimaryInReach DEF MediaTyped, RowsTyped, FilesTyped
  <2>2. Archives(a) /\ Writes(a) /\ ~Doing(a, "put")'
    BY <1>3, PutFailsStep DEF Archives, Writes, Doing
  <2>3. n # Picture(activity[a].token, activity[a].next)
    BY <1>3, <2>2, HeldTokens, PutFailsStep DEF PicturesOf
  <2>4. files' = files \/ OnlyAt(Primary, Picture(activity[a].token, activity[a].next))
    BY <1>3, <2>1, PutFailsStep, PutBreaksEffect
  <2> QED
    BY <2>3, <2>4 DEF OnlyAt
<1>4. ASSUME NEW a \in Archivers, Complete(a) PROVE files'[s][n] = "whole" \/ uploaded
  BY <1>4, CompleteStep DEF Doing, SameTask
<1>5. ASSUME NEW a \in Archivers, Clean(a) PROVE files'[s][n] = "whole" \/ uploaded
  <2>1. Archives(a) /\ Writes(a) /\ ~Doing(a, "put") /\ ~Doing(a, "idle")
    BY <1>5, CleanStep DEF Archives, Writes, Doing
  <2>2. n \notin PutSoFar(a)
    BY <2>1, HeldTokens, NamesPut DEF PicturesOf
  <2>3. OnlyGone(PutSoFar(a))
    BY <1>5, CleanStep, RemovedEffect DEF MediaTyped
  <2> QED
    BY <2>2, <2>3 DEF OnlyGone
<1>6. ASSUME NEW a \in Archivers, Drop(a) PROVE files'[s][n] = "whole" \/ uploaded
  <2>1. Archives(a) /\ Doing(a, "drop") /\ ~Doing(a, "put")
    BY <1>6, DropStep DEF Archives, Doing
  <2>2. n \notin FilesOf(activity[a].old)
    BY <2>1, HeldTokens
  <2>3. OnlyGone(FilesOf(activity[a].old))
    BY <1>6, DropStep, RemovedEffect DEF MediaTyped
  <2> QED
    BY <2>2, <2>3 DEF OnlyGone
<1>7. ASSUME NEW r \in Readers, Restore(r) PROVE files'[s][n] = "whole" \/ uploaded
  BY <1>7, RestoreStep DEF Doing
<1>8. ASSUME NEW r \in Readers, MovesQuietly(r) PROVE files'[s][n] = "whole" \/ uploaded
  BY <1>8, QuietMoves DEF ReaderMove, Order
<1>9. CASE Poll \/ PutVideo \/ SaveVideo
  <2>1. FilesTyped /\ Primary \in Stores /\ VideoName \in Names
    BY FileNames, PrimaryInReach DEF MediaTyped, RowsTyped, FilesTyped
  <2>2. \/ files' = files
        \/ OnlyAt(Primary, VideoName) /\ files'[Primary][VideoName] = "whole"
        \/ OnlyAt(Primary, VideoName) /\ VideoName \in damaged'
    BY <1>9, <2>1, PollerStep, PutEffect, PutBreaksEffect
  <2> QED
    BY <2>2 DEF OnlyAt
<1>10. ASSUME NEW kind \in {"image", "video"}, Delete(kind) PROVE files'[s][n] = "whole" \/ uploaded
  BY <1>10, DeleteStep DEF Doing
<1>11. CASE Hide
  BY <1>11, HideStep DEF Doing, NoTask
<1>12. CASE RemovePictures \/ RemoveVideo
  <2>1. CASE activity["deleter"].kind = "image"
    <3>1. Held(n) => n \in Visible
      BY <1>12, <2>1, RemoveStep, NobodyPuts DEF Held, PutBy, Writes
    <3>2. image.deleted
      BY <1>12, <2>1, RemoveStep DEF Order, DeletionOrder, Row
    <3>3. n \notin FilesOf(image.token)
      <4>1. image.token \in Tokens \cup {0}
        BY DEF MediaTyped, RowsTyped
      <4> QED
        BY <3>1, <3>2, <4>1, VisibleIs DEF FilesOf, PicturesOf
    <3>4. OnlyGone(FilesOf(image.token))
      BY <1>12, <2>1, RemoveStep, RemovedEffect DEF MediaTyped
    <3> QED
      BY <3>3, <3>4 DEF OnlyGone
  <2>2. CASE activity["deleter"].kind = "video"
    <3>1. video.deleted
      BY <1>12, <2>2, RemoveStep DEF Order, DeletionOrder, Row
    <3>2. n # VideoName
      BY <3>1, VisibleIs, FileNames DEF Held, PutBy, PicturesOf
    <3>3. \E S : OnlyGone(S) /\ S \subseteq {VideoName}
      BY <1>12, <2>2, RemoveStep, RemovedEffect DEF MediaTyped
    <3> QED
      BY <3>2, <3>3 DEF OnlyGone
  <2> QED
    BY <1>12, <2>1, <2>2, RemoveStep
<1>13. CASE Migrate
  BY <1>13, MigrateStep DEF Doing
<1>14. CASE MigrateNext
  BY <1>14, MigrateNextStep DEF Doing
<1>15. CASE Upload
  <2>1. activity["migrator"].name \in Names /\ FilesTyped /\ "webdav" \in Stores /\ "local" \in Stores
    BY <1>15, UploadStep DEF MediaTyped, RowsTyped, FilesTyped, Stores
  <2>2. OnlyAt("webdav", activity["migrator"].name)
    BY <1>15, <2>1, UploadStep, PutBreaksEffect DEF FilesTyped, OnlyAt
  <2>3. files'["local"][n] = files["local"][n]
    BY <2>1, <2>2 DEF OnlyAt
  <2> QED
    BY <1>15, <2>2, <2>3, UploadStep DEF OnlyAt
<1>16. CASE Migrated \/ Recover \/ RecoverRow
  <2>1. FilesTyped /\ "local" \in Stores /\ VideoName \in Names
    BY FileNames DEF MediaTyped, RowsTyped, FilesTyped, Stores
  <2>2. files' = files \/ (OnlyAt("local", VideoName) /\ files'["local"][VideoName] = "whole")
    BY <1>16, <2>1, OtherSteps, PutEffect
  <2> QED
    BY <2>2 DEF OnlyAt
<1>17. CASE SwitchMedia \/ LinksExpire \/ Damage
  <2>1. files' = files \/ \E u \in Stores, m \in Names : OnlyAt(u, m) /\ m \in damaged'
    BY <1>17, AroundStep
  <2> QED
    BY <2>1 DEF OnlyAt
<1>18. CASE ServerDies
  BY <1>18, DiesStep DEF Doing, NoTask, Archivers, Server, Commands
<1>19. CASE UNCHANGED mediaVars
  BY <1>19 DEF Doing, mediaVars, rowVars, envVars, troubleVars
<1> QED
  BY <1>1, <1>2, <1>3, <1>4, <1>5, <1>6, <1>7, <1>8, <1>9, <1>10, <1>11, <1>12, <1>13, <1>14, <1>15,
     <1>16, <1>17, <1>18, <1>19 DEF MediaNext, ArchiveStep, ReadStep, MovesQuietly

\* What counts stays where it is whole, but for an upload to its name, and that
\* leaves the local file alone.
LEMMA HeldFilesStay ==
  ASSUME MediaTyped, Order, [MediaNext]_mediaVars, MediaTyped', NEW n \in Names, Held(n), n \notin damaged',
         NEW s \in Stores, files[s][n] = "whole"
  PROVE  \/ files'[s][n] = "whole"
         \/ /\ Doing("migrator", "upload") /\ n = activity["migrator"].name /\ s = "webdav"
            /\ files'["local"][n] = files["local"][n] /\ leftovers' = TRUE
<1>1. PICK uploaded \in BOOLEAN :
         uploaded = (/\ Doing("migrator", "upload") /\ n = activity["migrator"].name /\ s = "webdav"
                     /\ files'["local"][n] = files["local"][n] /\ leftovers' = TRUE)
  OBVIOUS
<1>2. files'[s][n] = "whole" \/ uploaded
  BY <1>1, HeldFilesStayStep
<1> QED
  BY <1>1, <1>2

-----------------------------------------------------------------------------
(***************************************************************************)
(* What becomes visible, and that it is there.                              *)
(***************************************************************************)

LEMMA VisibleGrows ==
  ASSUME MediaTyped, Order, [MediaNext]_mediaVars, MediaTyped', NEW n \in Visible', n \notin Visible
  PROVE  \/ /\ n = VideoName /\ ~video.file /\ ~video.deleted
            /\ Doing("poller", "save") \/ Doing("recoverer", "update")
            /\ files' = files /\ damaged' = damaged
         \/ \E a \in Archivers : /\ Writes(a) /\ Doing(a, "put") /\ n \in PicturesOf(activity[a].token)
                                 /\ \A i \in Pictures : i < activity[a].next
                                 /\ files' = files /\ damaged' = damaged
<1>1. n \in Names
  BY VisibleIsNext
<1>2. CASE n = VideoName
  <2>1. video'.file /\ ~video'.deleted /\ (~video.file \/ video.deleted)
    BY <1>2, VisibleIs, VisibleIsNext
  <2>2. \/ video'.file = video.file /\ (video.deleted => video'.deleted)
        \/ /\ Doing("poller", "save") \/ Doing("recoverer", "update")
           /\ files' = files /\ damaged' = damaged /\ video'.deleted = video.deleted
    <3>1. CASE Poll \/ PutVideo \/ SaveVideo
      BY <3>1, PollerStep DEF MediaTyped, RowsTyped
    <3>2. CASE Hide
      BY <3>2, HideStep DEF MediaTyped, RowsTyped
    <3>3. CASE Migrated \/ Recover \/ RecoverRow
      BY <3>3, OtherSteps DEF MediaTyped, RowsTyped
    <3>4. CASE video' = video
      BY <3>4
    <3>5. (Poll \/ PutVideo \/ SaveVideo) \/ Hide \/ (Migrated \/ Recover \/ RecoverRow) \/ video' = video
      <4>1. ASSUME NEW a \in Archivers, ArchiveStep(a) PROVE video' = video
        BY <4>1, PutPictureStep, PutFailsStep, CompleteStep, CleanStep, DropStep DEF ArchiveStep
      <4>2. ASSUME NEW r \in Readers, ReadStep(r) PROVE video' = video
        BY <4>2, RestoreStep, QuietMoves DEF ReadStep, MovesQuietly, ReaderMove, Order
      <4>3. ASSUME NEW kind \in {"image", "video"}, Delete(kind) PROVE video' = video
        BY <4>3, DeleteStep
      <4> QED
        BY <4>1, <4>2, <4>3, MakeStep, RemoveStep, MigrateStep, MigrateNextStep, UploadStep, AroundStep, DiesStep
           DEF MediaNext, mediaVars, rowVars
    <3> QED
      BY <3>1, <3>2, <3>3, <3>4, <3>5
  <2> QED
    BY <1>2, <2>1, <2>2
<1>3. ASSUME NEW t \in Tokens, NEW i \in Pictures, n = Picture(t, i)
      PROVE  \E a \in Archivers : /\ Writes(a) /\ Doing(a, "put") /\ n \in PicturesOf(activity[a].token)
                                  /\ \A j \in Pictures : j < activity[a].next
                                  /\ files' = files /\ damaged' = damaged
  <2>1. t = image'.token /\ ~image'.deleted /\ (t # image.token \/ image.deleted)
    BY <1>3, VisibleIs, VisibleIsNext
  <2>2. 0 \notin Tokens
    BY MediaConstants
  <2>3. CASE \E a \in Archivers : Complete(a)
    <3>1. PICK a \in Archivers : Complete(a)
      BY <2>3
    <3>2. image'.deleted = image.deleted /\ (image'.token = image.token \/ image'.token = activity[a].token)
      <4>1. \/ image' = image
            \/ image' = [image EXCEPT !.status = "completed", !.token = activity[a].token]
        BY <3>1, CompleteStep
      <4> QED
        BY <4>1 DEF MediaTyped, RowsTyped
    <3>3. t = activity[a].token
      BY <2>1, <3>2
    <3> QED
      BY <1>3, <3>1, <3>3, CompleteStep DEF PicturesOf, Writes, Doing
  <2>4. CASE image' = image
    BY <2>1, <2>4
  <2>5. CASE \E a \in Archivers : Clean(a)
    BY <2>1, <2>5, CleanStep DEF MediaTyped, RowsTyped
  <2>6. CASE Hide
    BY <2>1, <2>6, HideStep DEF MediaTyped, RowsTyped
  <2>7. CASE RemovePictures \/ RemoveVideo
    BY <2>1, <2>2, <2>7, RemoveStep DEF MediaTyped, RowsTyped
  <2>8. \/ \E a \in Archivers : Complete(a) \/ Clean(a)
        \/ Hide \/ (RemovePictures \/ RemoveVideo) \/ image' = image
    <3>1. ASSUME NEW a \in Archivers, ArchiveStep(a) PROVE image' = image \/ Complete(a) \/ Clean(a)
      BY <3>1, PutPictureStep, PutFailsStep, DropStep DEF ArchiveStep
    <3>2. ASSUME NEW r \in Readers, ReadStep(r) PROVE image' = image
      BY <3>2, RestoreStep, QuietMoves DEF ReadStep, MovesQuietly, ReaderMove, Order
    <3>3. ASSUME NEW kind \in {"image", "video"}, Delete(kind) PROVE image' = image
      BY <3>3, DeleteStep
    <3> QED
      BY <3>1, <3>2, <3>3, MakeStep, PollerStep, MigrateStep, MigrateNextStep, UploadStep, OtherSteps, AroundStep,
         DiesStep DEF MediaNext, mediaVars, rowVars
  <2> QED
    BY <2>3, <2>4, <2>5, <2>6, <2>7, <2>8
<1> QED
  BY <1>1, <1>2, <1>3, FileNames

LEMMA DamageStays ==
  ASSUME MediaTyped, Order, [MediaNext]_mediaVars
  PROVE  damaged \subseteq damaged'
<1>1. ASSUME NEW a \in Archivers, ArchiveStep(a) PROVE damaged' = damaged
  <2>1. CASE Clean(a) \/ Drop(a)
    BY <2>1, CleanStep, DropStep, RemovedEffect DEF MediaTyped
  <2>2. CASE PutPicture(a) \/ PutFails(a) \/ Complete(a)
    BY <2>2, PutPictureStep, PutFailsStep, CompleteStep
  <2> QED
    BY <1>1, <2>1, <2>2 DEF ArchiveStep
<1>2. ASSUME NEW r \in Readers, ReadStep(r) PROVE damaged' = damaged
  BY <1>2, RestoreStep, QuietMoves DEF ReadStep, MovesQuietly, ReaderMove, Order
<1>3. ASSUME NEW kind \in {"image", "video"}, Delete(kind) PROVE damaged' = damaged
  BY <1>3, DeleteStep
<1>4. CASE RemovePictures \/ RemoveVideo
  BY <1>4, RemoveStep, RemovedEffect DEF MediaTyped
<1>5. CASE Poll \/ PutVideo \/ SaveVideo
  BY <1>5, PollerStep
<1>6. CASE SwitchMedia \/ LinksExpire \/ Damage
  BY <1>6, AroundStep
<1>7. CASE MediaNext
  BY <1>1, <1>2, <1>3, <1>4, <1>5, <1>6, <1>7, MakeStep, HideStep, MigrateStep, MigrateNextStep, UploadStep,
     OtherSteps, DiesStep DEF MediaNext
<1> QED
  BY <1>7 DEF mediaVars, troubleVars


\* Who is putting has put what it had before, or one more.
PutsOn ==
    \A a \in Archivers, i \in Pictures :
        Doing(a, "put")' /\ i < activity'[a].next =>
            \/ Doing(a, "put") /\ activity[a].token = activity'[a].token /\ i < activity[a].next
            \/ PutPicture(a) /\ activity[a].at = "put" /\ i = activity[a].next

LEMMA WhoPuts ==
  ASSUME MediaTyped, Order, [MediaNext]_mediaVars
  PROVE  PutsOn
<1> USE Distinct
<1>1. CASE Make
  <2>1. \A i \in Pictures : ~(i < 1)
    BY MediaConstants
  <2> QED
    BY <1>1, <2>1, MakeStep DEF PutsOn, Alone, Doing
<1>2. ASSUME NEW a \in Archivers, PutPicture(a) PROVE PutsOn
  <2>1. activity[a].next \in Nat /\ \A i \in Pictures : i \in Nat
    BY <1>2, MediaConstants, PutPictureStep
  <2>2. \A i \in Pictures : i < activity[a].next + 1 => i < activity[a].next \/ i = activity[a].next
    BY <2>1
  <2> QED
    BY <1>2, <2>2, PutPictureStep DEF PutsOn, Alone, SameTask, Doing
<1>3. ASSUME NEW a \in Archivers, PutFails(a) PROVE PutsOn
  BY <1>3, PutFailsStep DEF PutsOn, Alone, Doing, SameTask
<1>4. ASSUME NEW a \in Archivers, Complete(a) PROVE PutsOn
  BY <1>4, CompleteStep DEF PutsOn, Alone, Doing, SameTask
<1>5. ASSUME NEW a \in Archivers, Clean(a) PROVE PutsOn
  BY <1>5, CleanStep DEF PutsOn, Alone, Doing, SameTask, NoTask
<1>6. ASSUME NEW a \in Archivers, Drop(a) PROVE PutsOn
  <2>1. Alone(a) /\ (activity'[a] = NoTask \/ activity'[a].at = "row")
    BY <1>6, DropStep
  <2> QED
    BY <2>1 DEF PutsOn, Alone, Doing, NoTask
<1>7. ASSUME NEW r \in Readers, Restore(r) PROVE PutsOn
  <2>1. \A i \in Pictures : ~(i < 1)
    BY MediaConstants
  <2> QED
    BY <1>7, <2>1, RestoreStep DEF PutsOn, Alone, Doing
<1>8. ASSUME NEW r \in Readers, MovesQuietly(r) PROVE PutsOn
  <2>1. Alone(r) /\ ~Doing(r, "put")'
    BY <1>8, QuietMoves DEF ReaderMove, Archives, Writes, Order
  <2> QED
    BY <2>1 DEF PutsOn, Alone, Doing
<1>9. CASE Poll \/ PutVideo \/ SaveVideo
  BY <1>9, PollerStep DEF PutsOn, Alone, Doing
<1>10. ASSUME NEW kind \in {"image", "video"}, Delete(kind) PROVE PutsOn
  BY <1>10, DeleteStep DEF PutsOn, Alone, Doing
<1>11. CASE Hide
  BY <1>11, HideStep DEF PutsOn, Alone, Doing, NoTask
<1>12. CASE RemovePictures \/ RemoveVideo
  BY <1>12, RemoveStep DEF PutsOn, Alone, Doing, NoTask
<1>13. CASE Migrate
  BY <1>13, MigrateStep DEF PutsOn, Alone, Doing
<1>14. CASE MigrateNext
  BY <1>14, MigrateNextStep DEF PutsOn, Alone, Doing
<1>15. CASE Upload
  BY <1>15, UploadStep DEF PutsOn, Alone, Doing
<1>16. CASE Migrated \/ Recover \/ RecoverRow
  <2>1. \A b \in Archivers : activity'[b] = activity[b]
    BY <1>16, OtherSteps DEF Alone
  <2> QED
    BY <2>1 DEF PutsOn, Doing
<1>17. CASE SwitchMedia \/ LinksExpire \/ Damage
  BY <1>17, AroundStep DEF PutsOn, Alone, Doing
<1>18. CASE ServerDies
  BY <1>18, DiesStep DEF PutsOn, Alone, Doing, NoTask, Archivers, Server, Commands
<1>19. CASE UNCHANGED mediaVars
  BY <1>19 DEF PutsOn, Alone, Doing, mediaVars, rowVars, envVars, troubleVars
<1> QED
  BY <1>1, <1>2, <1>3, <1>4, <1>5, <1>6, <1>7, <1>8, <1>9, <1>10, <1>11, <1>12, <1>13, <1>14, <1>15,
     <1>16, <1>17, <1>18, <1>19 DEF MediaNext, ArchiveStep, ReadStep, MovesQuietly

LEMMA PutSoFarStep ==
  ASSUME MediaTyped, Order, Kept, [MediaNext]_mediaVars, MediaTyped'
  PROVE  PutSoFarKept'
<1> SUFFICES ASSUME NEW a \in Archivers, Doing(a, "put")', NEW i \in Pictures, i < activity'[a].next,
                    Picture(activity'[a].token, i) \notin damaged'
             PROVE  \E s \in Stores : files'[s][Picture(activity'[a].token, i)] = "whole"
  BY DEF PutSoFarKept, WholeSomewhere
<1>1. activity'[a].token \in Tokens
  BY DEF MediaTyped, ActivityTyped, Writes
<1>2. PICK n \in Names : n = Picture(activity'[a].token, i)
  BY <1>1, FileNames
<1>3. CASE Doing(a, "put") /\ activity[a].token = activity'[a].token /\ i < activity[a].next
  <2>1. damaged \subseteq damaged'
    BY DamageStays
  <2>2. PICK s \in Stores : files[s][n] = "whole"
    BY <1>2, <1>3, <2>1 DEF Kept, PutSoFarKept, WholeSomewhere
  <2>3. Held(n)
    BY <1>2, <1>3 DEF Held, PutBy, PicturesOf
  <2>4. ~(Doing("migrator", "upload") /\ n = activity["migrator"].name)
    <3>1. n \in PicturesOf(activity[a].token)
      BY <1>2, <1>3 DEF PicturesOf
    <3> QED
      BY <1>3, <3>1 DEF Order, TokensFresh, MigrationOrder, Writes, Doing
  <2> QED
    BY <1>2, <2>2, <2>3, <2>4, HeldFilesStay
<1>4. CASE PutPicture(a) /\ i = activity[a].next
  <2>1. Primary \in Stores /\ FilesTyped /\ activity'[a].token = activity[a].token
    BY <1>4, PutPictureStep, PrimaryInReach DEF MediaTyped, RowsTyped, FilesTyped, SameTask
  <2> QED
    BY <1>2, <1>4, <2>1, PutPictureStep, PutEffect
<1>5. \/ Doing(a, "put") /\ activity[a].token = activity'[a].token /\ i < activity[a].next
      \/ PutPicture(a) /\ i = activity[a].next
  BY WhoPuts DEF PutsOn
<1> QED
  BY <1>3, <1>4, <1>5

-----------------------------------------------------------------------------
(***************************************************************************)
(* Who changes a file.                                                      *)
(***************************************************************************)
PutNow(s, n) ==
    /\ \E a \in Archivers : PutPicture(a) /\ n = Picture(activity[a].token, activity[a].next)
    /\ s = Primary /\ files'[s][n] = "whole"

BrokenNow(s, n) ==
    /\ \E a \in Archivers : PutFails(a) /\ n = Picture(activity[a].token, activity[a].next)
    /\ s = Primary /\ s # "local" /\ leftovers'

GoneNow(s, n) ==
    /\ files'[s][n] = "none"
    /\ \/ \E a \in Archivers : Clean(a) /\ n \in PutSoFar(a)
       \/ \E a \in Archivers : Drop(a) /\ n \in FilesOf(activity[a].old)
       \/ RemovePictures /\ n \in FilesOf(image.token)
       \/ RemoveVideo /\ n = VideoName

VideoNow(s, n) ==
    /\ n = VideoName /\ files'[s][n] = "whole"
    /\ leftovers' \/ (s = Primary /\ PutVideo)

UploadNow(s, n) == Upload /\ s = "webdav" /\ n = activity["migrator"].name

Changed(s, n) ==
    \/ PutNow(s, n) \/ BrokenNow(s, n) \/ GoneNow(s, n) \/ VideoNow(s, n) \/ UploadNow(s, n)
    \/ n \in damaged' /\ (leftovers' \/ (trouble' = trouble + 1 /\ files[s][n] = "whole"))

LEMMA WhoChanges ==
  ASSUME MediaTyped, Order, [MediaNext]_mediaVars, NEW u \in Stores, NEW m \in Names,
         files'[u][m] # files[u][m]
  PROVE  Changed(u, m)
<1> USE Distinct
<1>1. CASE Make
  BY <1>1, MakeStep DEF Doing
<1>2. ASSUME NEW a \in Archivers, PutPicture(a) PROVE Changed(u, m)
  <2>1. Picture(activity[a].token, activity[a].next) \in Names /\ FilesTyped /\ Primary \in Stores
    BY <1>2, PutPictureStep, FileNames, PrimaryInReach DEF MediaTyped, RowsTyped, FilesTyped
  <2>2. /\ OnlyAt(Primary, Picture(activity[a].token, activity[a].next))
        /\ files'[Primary][Picture(activity[a].token, activity[a].next)] = "whole"
    BY <1>2, <2>1, PutPictureStep, PutEffect
  <2>3. PutNow(u, m)
    BY <1>2, <2>2 DEF OnlyAt, PutNow
  <2> QED
    BY <2>3 DEF Changed
<1>3. ASSUME NEW a \in Archivers, PutFails(a) PROVE Changed(u, m)
  <2>1. Picture(activity[a].token, activity[a].next) \in Names /\ FilesTyped /\ Primary \in Stores
    BY <1>3, PutFailsStep, FileNames, PrimaryInReach DEF MediaTyped, RowsTyped, FilesTyped
  <2>2. files' # files /\ leftovers' = (leftovers \/ files' # files)
    BY <1>3, PutFailsStep
  <2>3. OnlyAt(Primary, Picture(activity[a].token, activity[a].next)) /\ Primary # "local"
    BY <1>3, <2>1, <2>2, PutFailsStep, PutBreaksEffect
  <2>4. BrokenNow(u, m)
    BY <1>3, <2>2, <2>3 DEF OnlyAt, BrokenNow
  <2> QED
    BY <2>4 DEF Changed
<1>4. ASSUME NEW a \in Archivers, Complete(a) PROVE Changed(u, m)
  BY <1>4, CompleteStep DEF Doing, SameTask
<1>5. ASSUME NEW a \in Archivers, Clean(a) PROVE Changed(u, m)
  <2>1. OnlyGone(PutSoFar(a))
    BY <1>5, CleanStep, RemovedEffect DEF MediaTyped
  <2>2. GoneNow(u, m)
    BY <1>5, <2>1 DEF OnlyGone, GoneNow
  <2> QED
    BY <2>2 DEF Changed
<1>6. ASSUME NEW a \in Archivers, Drop(a) PROVE Changed(u, m)
  <2>1. OnlyGone(FilesOf(activity[a].old))
    BY <1>6, DropStep, RemovedEffect DEF MediaTyped
  <2>2. GoneNow(u, m)
    BY <1>6, <2>1 DEF OnlyGone, GoneNow
  <2> QED
    BY <2>2 DEF Changed
<1>7. ASSUME NEW r \in Readers, Restore(r) PROVE Changed(u, m)
  BY <1>7, RestoreStep DEF Doing
<1>8. ASSUME NEW r \in Readers, MovesQuietly(r) PROVE Changed(u, m)
  BY <1>8, QuietMoves DEF ReaderMove, Order
<1>9. CASE Poll \/ PutVideo \/ SaveVideo
  <2>1. FilesTyped /\ Primary \in Stores /\ VideoName \in Names
    BY FileNames, PrimaryInReach DEF MediaTyped, RowsTyped, FilesTyped
  <2>0. files' # files => PutVideo
    BY <1>9 DEF Poll, SaveVideo
  <2>2. \/ files' = files
        \/ /\ OnlyAt(Primary, VideoName) /\ files'[Primary][VideoName] = "whole"
           /\ PutVideo
        \/ OnlyAt(Primary, VideoName) /\ VideoName \in damaged' /\ leftovers'
    BY <1>9, <2>0, <2>1, PollerStep, PutEffect, PutBreaksEffect
  <2>3. CASE /\ OnlyAt(Primary, VideoName) /\ files'[Primary][VideoName] = "whole"
             /\ PutVideo
    BY <2>3 DEF OnlyAt, VideoNow, Changed
  <2>4. CASE OnlyAt(Primary, VideoName) /\ VideoName \in damaged' /\ leftovers'
    BY <2>4 DEF OnlyAt, Changed
  <2> QED
    BY <2>2, <2>3, <2>4
<1>10. ASSUME NEW kind \in {"image", "video"}, Delete(kind) PROVE Changed(u, m)
  BY <1>10, DeleteStep DEF Doing
<1>11. CASE Hide
  BY <1>11, HideStep DEF Doing, NoTask
<1>12. CASE RemovePictures \/ RemoveVideo
  <2>1. CASE RemovePictures
    <3>1. OnlyGone(FilesOf(image.token))
      BY <2>1, RemovedEffect DEF MediaTyped, RemovePictures
    <3>2. GoneNow(u, m)
      BY <2>1, <3>1 DEF OnlyGone, GoneNow
    <3> QED
      BY <3>2 DEF Changed
  <2>2. CASE RemoveVideo
    <3>1. OnlyGone(IF activity["deleter"].file THEN {VideoName} ELSE {})
      BY <2>2, RemovedEffect DEF MediaTyped, RemoveVideo
    <3>2. GoneNow(u, m)
      BY <2>2, <3>1 DEF OnlyGone, GoneNow
    <3> QED
      BY <3>2 DEF Changed
  <2> QED
    BY <1>12, <2>1, <2>2
<1>13. CASE Migrate
  BY <1>13, MigrateStep DEF Doing
<1>14. CASE MigrateNext
  BY <1>14, MigrateNextStep DEF Doing
<1>15. CASE Upload
  <2>1. activity["migrator"].name \in Names /\ FilesTyped /\ "webdav" \in Stores
    BY <1>15, UploadStep DEF MediaTyped, RowsTyped, FilesTyped, Stores
  <2>2. OnlyAt("webdav", activity["migrator"].name)
    BY <1>15, <2>1, UploadStep, PutBreaksEffect DEF FilesTyped, OnlyAt
  <2>3. UploadNow(u, m)
    BY <1>15, <2>2, UploadStep DEF OnlyAt, UploadNow
  <2> QED
    BY <2>3 DEF Changed
<1>16. CASE Migrated \/ Recover \/ RecoverRow
  <2>1. FilesTyped /\ "local" \in Stores /\ VideoName \in Names
    BY FileNames DEF MediaTyped, RowsTyped, FilesTyped, Stores
  <2>2. \/ files' = files
        \/ OnlyAt("local", VideoName) /\ files'["local"][VideoName] = "whole" /\ leftovers' = TRUE
    BY <1>16, <2>1, OtherSteps, PutEffect
  <2>3. VideoNow(u, m)
    BY <2>2 DEF OnlyAt, VideoNow
  <2> QED
    BY <2>3 DEF Changed
<1>17. CASE SwitchMedia \/ LinksExpire \/ Damage
  <2>1. \E s \in Stores, n \in Names : OnlyAt(s, n) /\ files[s][n] = "whole" /\ n \in damaged' /\ trouble' = trouble + 1
    BY <1>17, AroundStep
  <2>2. m \in damaged' /\ trouble' = trouble + 1 /\ files[u][m] = "whole"
    BY <2>1 DEF OnlyAt
  <2> QED
    BY <2>2 DEF Changed
<1>18. CASE ServerDies
  BY <1>18, DiesStep DEF Doing, NoTask, Archivers, Server, Commands
<1>19. CASE UNCHANGED mediaVars
  BY <1>19 DEF Doing, mediaVars, rowVars, envVars, troubleVars
<1> QED
  BY <1>1, <1>2, <1>3, <1>4, <1>5, <1>6, <1>7, <1>8, <1>9, <1>10, <1>11, <1>12, <1>13, <1>14, <1>15,
     <1>16, <1>17, <1>18, <1>19 DEF MediaNext, ArchiveStep, ReadStep, MovesQuietly

\* Each of the four has its own steps; a crash takes those of the server along.
OthersRest ==
    /\ activity'["migrator"] # activity["migrator"] => Migrate \/ MigrateNext \/ Upload \/ Migrated
    /\ activity'["poller"] # activity["poller"] => Poll \/ PutVideo \/ SaveVideo \/ activity'["poller"] = NoTask
    /\ activity'["recoverer"] # activity["recoverer"] => Recover \/ RecoverRow
    /\ activity'["deleter"] # activity["deleter"] =>
          \/ \E kind \in {"image", "video"} : Delete(kind)
          \/ Hide \/ RemovePictures \/ RemoveVideo \/ activity'["deleter"] = NoTask

LEMMA WhoActs ==
  ASSUME MediaTyped, Order, [MediaNext]_mediaVars
  PROVE  OthersRest
<1> USE Distinct
<1>1. CASE Make
  BY <1>1, MakeStep DEF OthersRest, Alone, Doing
<1>2. ASSUME NEW a \in Archivers, PutPicture(a) PROVE OthersRest
  BY <1>2, PutPictureStep DEF OthersRest, Alone, Doing, SameTask
<1>3. ASSUME NEW a \in Archivers, PutFails(a) PROVE OthersRest
  BY <1>3, PutFailsStep DEF OthersRest, Alone, Doing, SameTask
<1>4. ASSUME NEW a \in Archivers, Complete(a) PROVE OthersRest
  <2>1. Alone(a)
    BY <1>4, CompleteStep DEF SameTask
  <2> QED
    BY <2>1 DEF OthersRest, Alone
<1>5. ASSUME NEW a \in Archivers, Clean(a) PROVE OthersRest
  <2>1. Alone(a)
    BY <1>5, CleanStep DEF SameTask
  <2> QED
    BY <2>1 DEF OthersRest, Alone
<1>6. ASSUME NEW a \in Archivers, Drop(a) PROVE OthersRest
  <2>1. Alone(a)
    BY <1>6, DropStep
  <2> QED
    BY <2>1 DEF OthersRest, Alone
<1>7. ASSUME NEW r \in Readers, Restore(r) PROVE OthersRest
  BY <1>7, RestoreStep DEF OthersRest, Alone, Doing
<1>8. ASSUME NEW r \in Readers, MovesQuietly(r) PROVE OthersRest
  BY <1>8, QuietMoves DEF OthersRest, ReaderMove, Alone, Order
<1>9. CASE Poll \/ PutVideo \/ SaveVideo
  BY <1>9, PollerStep DEF OthersRest, Alone, Doing
<1>10. ASSUME NEW kind \in {"image", "video"}, Delete(kind) PROVE OthersRest
  BY <1>10, DeleteStep DEF OthersRest, Alone, Doing
<1>11. CASE Hide
  BY <1>11, HideStep DEF OthersRest, Alone, Doing, NoTask
<1>12. CASE RemovePictures \/ RemoveVideo
  BY <1>12, RemoveStep DEF OthersRest, Alone, Doing, NoTask
<1>13. CASE Migrate
  BY <1>13, MigrateStep DEF OthersRest, Alone, Doing
<1>14. CASE MigrateNext
  BY <1>14, MigrateNextStep DEF OthersRest, Alone, Doing
<1>15. CASE Upload
  BY <1>15, UploadStep DEF OthersRest, Alone, Doing
<1>16. CASE Migrated \/ Recover \/ RecoverRow
  <2>1. CASE Migrated
    <3>1. Alone("migrator")
      BY <2>1, OneChanges DEF Migrated, Become, MediaTyped
    <3> QED
      BY <2>1, <3>1 DEF OthersRest, Alone
  <2>2. CASE Recover \/ RecoverRow
    <3>1. Alone("recoverer")
      BY <2>2, OneChanges DEF Recover, RecoverRow, Become, MediaTyped
    <3> QED
      BY <2>2, <3>1 DEF OthersRest, Alone
  <2> QED
    BY <1>16, <2>1, <2>2
<1>17. CASE SwitchMedia \/ LinksExpire \/ Damage
  BY <1>17, AroundStep DEF OthersRest, Alone, Doing
<1>18. CASE ServerDies
  BY <1>18, DiesStep DEF OthersRest, Alone, Doing, NoTask, Archivers, Server, Commands
<1>19. CASE UNCHANGED mediaVars
  BY <1>19 DEF OthersRest, Alone, Doing, mediaVars, rowVars, envVars, troubleVars
<1> QED
  BY <1>1, <1>2, <1>3, <1>4, <1>5, <1>6, <1>7, <1>8, <1>9, <1>10, <1>11, <1>12, <1>13, <1>14, <1>15,
     <1>16, <1>17, <1>18, <1>19 DEF MediaNext, ArchiveStep, ReadStep, MovesQuietly

\* The row of the video only goes forward.
VideoRow ==
    /\ video'.status = "processing" => video.status = "processing"
    /\ video.deleted => video'.deleted
    /\ video.file => video'.file

LEMMA WhoChangesVideo ==
  ASSUME MediaTyped, Order, [MediaNext]_mediaVars
  PROVE  VideoRow
<1> USE Distinct
<1>1. CASE Make
  BY <1>1, MakeStep DEF VideoRow
<1>2. ASSUME NEW a \in Archivers, PutPicture(a) PROVE VideoRow
  BY <1>2, PutPictureStep DEF VideoRow, SameTask
<1>3. ASSUME NEW a \in Archivers, PutFails(a) PROVE VideoRow
  BY <1>3, PutFailsStep DEF VideoRow, SameTask
<1>4. ASSUME NEW a \in Archivers, Complete(a) PROVE VideoRow
  BY <1>4, CompleteStep DEF VideoRow, SameTask
<1>5. ASSUME NEW a \in Archivers, Clean(a) PROVE VideoRow
  BY <1>5, CleanStep DEF VideoRow, SameTask, NoTask
<1>6. ASSUME NEW a \in Archivers, Drop(a) PROVE VideoRow
  BY <1>6, DropStep DEF VideoRow, NoTask
<1>7. ASSUME NEW r \in Readers, Restore(r) PROVE VideoRow
  BY <1>7, RestoreStep DEF VideoRow
<1>8. ASSUME NEW r \in Readers, MovesQuietly(r) PROVE VideoRow
  BY <1>8, QuietMoves DEF VideoRow, ReaderMove, Order
<1>9. CASE Poll \/ PutVideo \/ SaveVideo
  BY <1>9, PollerStep DEF VideoRow, MediaTyped, RowsTyped
<1>10. ASSUME NEW kind \in {"image", "video"}, Delete(kind) PROVE VideoRow
  BY <1>10, DeleteStep DEF VideoRow
<1>11. CASE Hide
  BY <1>11, HideStep DEF VideoRow, MediaTyped, RowsTyped, NoTask
<1>12. CASE RemovePictures \/ RemoveVideo
  BY <1>12, RemoveStep DEF VideoRow, NoTask
<1>13. CASE Migrate
  BY <1>13, MigrateStep DEF VideoRow
<1>14. CASE MigrateNext
  BY <1>14, MigrateNextStep DEF VideoRow
<1>15. CASE Upload
  BY <1>15, UploadStep DEF VideoRow
<1>16. CASE Migrated \/ Recover \/ RecoverRow
  BY <1>16, OtherSteps DEF VideoRow, MediaTyped, RowsTyped, NoTask
<1>17. CASE SwitchMedia \/ LinksExpire \/ Damage
  BY <1>17, AroundStep DEF VideoRow
<1>18. CASE ServerDies
  BY <1>18, DiesStep DEF VideoRow, NoTask, Archivers, Server, Commands
<1>19. CASE UNCHANGED mediaVars
  BY <1>19 DEF VideoRow, mediaVars, rowVars, envVars, troubleVars
<1> QED
  BY <1>1, <1>2, <1>3, <1>4, <1>5, <1>6, <1>7, <1>8, <1>9, <1>10, <1>11, <1>12, <1>13, <1>14, <1>15,
     <1>16, <1>17, <1>18, <1>19 DEF MediaNext, ArchiveStep, ReadStep, MovesQuietly

-----------------------------------------------------------------------------
(***************************************************************************)
(* Every file that counts is whole somewhere.                               *)
(***************************************************************************)
LEMMA LocalWholeStep ==
  ASSUME MediaTyped, Order, Kept, [MediaNext]_mediaVars
  PROVE  LocalWhole'
<1> SUFFICES ASSUME NEW n \in Names, files'["local"][n] = "short" PROVE n \in damaged'
  BY DEF LocalWhole
<1>1. CASE files'["local"][n] = files["local"][n]
  BY <1>1, DamageStays DEF Kept, LocalWhole
<1>2. CASE files'["local"][n] # files["local"][n]
  <2>1. Changed("local", n)
    BY <1>2, WhoChanges DEF Stores
  <2>2. ~(PutNow("local", n) \/ BrokenNow("local", n) \/ GoneNow("local", n) \/ VideoNow("local", n))
    BY DEF PutNow, BrokenNow, GoneNow, VideoNow
  <2>3. ~UploadNow("local", n)
    BY DEF UploadNow
  <2> QED
    BY <2>1, <2>2, <2>3 DEF Changed
<1> QED
  BY <1>1, <1>2

\* Whoever is about to upload the video has listed it.
LEMMA UploadsTheVideo ==
  ASSUME MediaTyped, Order, Doing("migrator", "upload"), activity["migrator"].name = VideoName
  PROVE  video.file /\ video.status # "processing"
BY DEF Order, MigrationOrder, VideoOrder, Doing

LEMMA VideoStays ==
  ASSUME MediaTyped, Order, Kept, [MediaNext]_mediaVars, VideoName \notin damaged', ~video.deleted
  PROVE  /\ WholeSomewhere(VideoName) => WholeSomewhere(VideoName)'
         /\ \A s \in Stores : files'[s][VideoName] \in {files[s][VideoName], "whole"} \/ Upload
<1>1. VideoName \in Names /\ VideoName \notin damaged
  BY FileNames, DamageStays
<1>2. ASSUME NEW s \in Stores, files'[s][VideoName] # files[s][VideoName]
      PROVE  files'[s][VideoName] = "whole" \/ UploadNow(s, VideoName)
  <2>1. Changed(s, VideoName)
    BY <1>1, <1>2, WhoChanges
  <2>2. ~PutNow(s, VideoName) /\ ~BrokenNow(s, VideoName)
    BY FileNames DEF PutNow, BrokenNow
  <2>3. ~GoneNow(s, VideoName)
    <3>1. ASSUME NEW a \in Archivers, Clean(a) PROVE VideoName \notin PutSoFar(a)
      BY <3>1, FileNames DEF PutSoFar
    <3>2. \A t : VideoName \notin FilesOf(t)
      BY FileNames DEF FilesOf, PicturesOf
    <3>3. ~RemoveVideo
      BY DEF RemoveVideo, Order, DeletionOrder, Row
    <3> QED
      BY <3>1, <3>2, <3>3 DEF GoneNow
  <2> QED
    BY <2>1, <2>2, <2>3 DEF Changed, VideoNow
<1>3. ASSUME WholeSomewhere(VideoName), Upload, activity["migrator"].name = VideoName
      PROVE  files["local"][VideoName] = "whole"
  <2>1. Doing("migrator", "upload") /\ video.file
    BY <1>3, UploadsTheVideo DEF Upload
  <2>2. Counted(VideoName)
    BY <1>1, <2>1, VisibleIs DEF Counted
  <2> QED
    BY <1>3, <2>1, <2>2 DEF Kept, UploadKept
<1>4. WholeSomewhere(VideoName) => WholeSomewhere(VideoName)'
  <2> SUFFICES ASSUME WholeSomewhere(VideoName) PROVE \E s \in Stores : files'[s][VideoName] = "whole"
    BY DEF WholeSomewhere
  <2>1. PICK s \in Stores : files[s][VideoName] = "whole"
    BY DEF WholeSomewhere
  <2>2. CASE UploadNow(s, VideoName)
    <3>1. files["local"][VideoName] = "whole" /\ "local" \in Stores
      BY <1>3, <2>2 DEF UploadNow, Stores
    <3>2. ~UploadNow("local", VideoName)
      BY DEF UploadNow
    <3> QED
      BY <1>2, <3>1, <3>2
  <2> QED
    BY <1>2, <2>1, <2>2
<1>5. \A s \in Stores : files'[s][VideoName] \in {files[s][VideoName], "whole"} \/ Upload
  BY <1>2 DEF UploadNow
<1> QED
  BY <1>4, <1>5

LEMMA VideoKeptStep ==
  ASSUME MediaTyped, Order, Kept, [MediaNext]_mediaVars, MediaTyped', Order'
  PROVE  VideoKept'
<1> SUFFICES ASSUME VideoName \notin damaged'
             PROVE  /\ Doing("poller", "save")' => WholeSomewhere(VideoName)'
                    /\ Doing("recoverer", "update")' /\ ~video'.deleted => WholeSomewhere(VideoName)'
                    /\ video'.status = "processing" => \A s \in Stores : files'[s][VideoName] # "short"
  BY DEF VideoKept
<1>1. VideoName \in Names /\ VideoName \notin damaged /\ FilesTyped /\ OthersRest
  BY FileNames, DamageStays, WhoActs DEF MediaTyped, RowsTyped, FilesTyped
<1>2. video.status = "processing" => ~video.deleted /\ ~video.file
  BY DEF Order, DeletionOrder, VideoOrder
<1>3. ASSUME Doing("poller", "save")' PROVE WholeSomewhere(VideoName)'
  <2>1. CASE Doing("poller", "save")
    <3>1. ~video.deleted
      BY <1>2, <2>1 DEF Order, VideoOrder, Doing
    <3> QED
      BY <1>1, <2>1, <3>1, VideoStays DEF Kept, VideoKept
  <2>2. CASE ~Doing("poller", "save")
    <3>1. Poll \/ PutVideo \/ SaveVideo
      BY <1>1, <1>3, <2>2 DEF OthersRest, Doing, NoTask
    <3>2. \/ video.status = "processing" /\ files' = files /\ Found(VideoName) # "none"
          \/ PutAt(Primary, VideoName)
      BY <1>3, <3>1, PollerStep DEF Doing
    <3>3. CASE PutAt(Primary, VideoName)
      <4>1. Primary \in Stores
        BY PrimaryInReach DEF MediaTyped, RowsTyped
      <4> QED
        BY <1>1, <3>3, <4>1, PutEffect DEF WholeSomewhere
    <3>4. CASE video.status = "processing" /\ files' = files /\ Found(VideoName) # "none"
      <4>1. PICK s \in Stores : files[s][VideoName] # "none"
        BY <3>4, StackIs DEF Sees, PrimaryOf, Stores, MediaTyped, RowsTyped
      <4>2. files[s][VideoName] \in Sizes /\ files[s][VideoName] # "short"
        BY <1>1, <3>4 DEF FilesTyped, Kept, VideoKept
      <4> QED
        BY <3>4, <4>1, <4>2 DEF Sizes, WholeSomewhere
    <3> QED
      BY <3>2, <3>3, <3>4
  <2> QED
    BY <2>1, <2>2
<1>4. ASSUME Doing("recoverer", "update")', ~video'.deleted PROVE WholeSomewhere(VideoName)'
  <2>1. CASE Doing("recoverer", "update")
    <3>1. ~video.deleted
      BY <1>4, WhoChangesVideo DEF VideoRow
    <3> QED
      BY <1>1, <2>1, <3>1, VideoStays DEF Kept, VideoKept
  <2>2. CASE ~Doing("recoverer", "update")
    <3>1. Recover \/ RecoverRow
      BY <1>1, <1>4, <2>2 DEF OthersRest, Doing
    <3>2. PutAt("local", VideoName)
      BY <3>1, <1>4, <2>2 DEF Recover, RecoverRow, Become, NoTask, Doing
    <3> QED
      BY <1>1, <3>2, PutEffect DEF WholeSomewhere, Stores
  <2> QED
    BY <2>1, <2>2
<1>5. ASSUME video'.status = "processing", NEW s \in Stores PROVE files'[s][VideoName] # "short"
  <2>1. video.status = "processing"
    BY <1>5, WhoChangesVideo DEF VideoRow
  <2>2. files[s][VideoName] # "short"
    BY <1>1, <2>1 DEF Kept, VideoKept
  <2>3. files'[s][VideoName] = files[s][VideoName] \/ files'[s][VideoName] = "whole" \/ UploadNow(s, VideoName)
    <3>1. files'[s][VideoName] \in {files[s][VideoName], "whole"} \/ Upload
      BY <1>2, <2>1, VideoStays
    <3>2. CASE Upload /\ files'[s][VideoName] # files[s][VideoName]
      <4>0. activity["migrator"].name \in Names /\ "webdav" \in Stores
        BY <3>2, UploadStep DEF Stores
      <4>1. OnlyAt("webdav", activity["migrator"].name)
        BY <1>1, <3>2, <4>0, UploadStep, PutBreaksEffect DEF FilesTyped, OnlyAt
      <4> QED
        BY <1>1, <3>2, <4>1 DEF OnlyAt, UploadNow
    <3> QED
      BY <3>1, <3>2
  <2>4. ~UploadNow(s, VideoName)
    BY <2>1, UploadsTheVideo DEF UploadNow, Upload
  <2> QED
    BY <2>2, <2>3, <2>4
<1> QED
  BY <1>3, <1>4, <1>5

LEMMA UploadKeptStep ==
  ASSUME MediaTyped, Order, Kept, [MediaNext]_mediaVars, MediaTyped'
  PROVE  UploadKept'
<1> SUFFICES ASSUME Doing("migrator", "upload")', Counted(activity["migrator"].name)'
             PROVE  files'["local"][activity'["migrator"].name] = "whole"
  BY DEF UploadKept
<1>1. PICK n \in Names : n = activity'["migrator"].name
  BY DEF MediaTyped, ActivityTyped, Doing, NoTask
<1>2. n \in Visible' /\ n \notin damaged' /\ n \notin damaged
  BY <1>1, DamageStays DEF Counted
<1>3. CASE MigrateNext
  <2>1. files' = files /\ ~Skippable(n)
    BY <1>1, <1>3, MigrateNextStep DEF Doing
  <2>2. files["local"][n] \in Sizes /\ files["local"][n] # "none"
    BY <2>1 DEF Skippable, Stat, MediaTyped, RowsTyped, Stores
  <2>3. files["local"][n] # "short"
    BY <1>2 DEF Kept, LocalWhole
  <2> QED
    BY <1>1, <2>1, <2>2, <2>3 DEF Sizes
<1>4. CASE activity'["migrator"] = activity["migrator"]
  <2>1. Doing("migrator", "upload") /\ n = activity["migrator"].name /\ n \in activity["migrator"].all
    BY <1>1, <1>4 DEF Order, MigrationOrder, Doing
  <2>2. n \in Visible
    <3> SUFFICES ASSUME n \notin Visible PROVE FALSE
      OBVIOUS
    <3>1. CASE n = VideoName /\ ~video.file
      BY <2>1, <3>1, UploadsTheVideo
    <3>2. CASE \E a \in Archivers : Writes(a) /\ n \in PicturesOf(activity[a].token)
      BY <2>1, <3>2 DEF Order, TokensFresh, Doing
    <3> QED
      BY <1>2, <3>1, <3>2, VisibleGrows
  <2>3. files["local"][n] = "whole"
    BY <1>2, <2>1, <2>2 DEF Kept, UploadKept, Counted
  <2>4. Held(n)
    BY <2>2 DEF Held
  <2> QED
    BY <1>1, <1>2, <2>3, <2>4, HeldFilesStay DEF Stores
<1>5. MigrateNext \/ activity'["migrator"] = activity["migrator"]
  <2>1. activity'["migrator"] # activity["migrator"] => Migrate \/ MigrateNext \/ Upload \/ Migrated
    BY WhoActs DEF OthersRest
  <2>2. Migrated => activity'["migrator"] = NoTask
    BY OneChanges, Distinct DEF Migrated, Become, MediaTyped
  <2>3. ~Migrate /\ ~Upload /\ ~Migrated
    BY <2>2, MigrateStep, UploadStep DEF Doing, NoTask
  <2> QED
    BY <2>1, <2>3
<1> QED
  BY <1>3, <1>4, <1>5

LEMMA KeptFilesExistStep ==
  ASSUME MediaTyped, Order, Kept, [MediaNext]_mediaVars, MediaTyped'
  PROVE  KeptFilesExist'
<1> SUFFICES ASSUME NEW n \in Visible', n \notin damaged' PROVE \E s \in Stores : files'[s][n] = "whole"
  BY DEF KeptFilesExist
<1>1. n \in Names /\ n \notin damaged
  BY VisibleIsNext, DamageStays
<1>2. CASE n \in Visible
  <2>1. PICK s \in Stores : files[s][n] = "whole"
    BY <1>1, <1>2 DEF Kept, KeptFilesExist
  <2>2. Held(n) /\ Counted(n)
    BY <1>1, <1>2 DEF Held, Counted
  <2>3. CASE Doing("migrator", "upload") /\ n = activity["migrator"].name /\ files'["local"][n] = files["local"][n]
    BY <2>2, <2>3 DEF Kept, UploadKept, Stores
  <2> QED
    BY <1>1, <2>1, <2>2, <2>3, HeldFilesStay
<1>3. CASE n \notin Visible
  <2>1. CASE /\ n = VideoName /\ ~video.deleted /\ files' = files
             /\ Doing("poller", "save") \/ Doing("recoverer", "update")
    BY <1>1, <2>1 DEF Kept, VideoKept, WholeSomewhere
  <2>2. ASSUME NEW a \in Archivers, Doing(a, "put"), n \in PicturesOf(activity[a].token),
               \A i \in Pictures : i < activity[a].next, files' = files
        PROVE  \E s \in Stores : files'[s][n] = "whole"
    <3>1. PICK i \in Pictures : n = Picture(activity[a].token, i)
      BY <2>2 DEF PicturesOf
    <3> QED
      BY <1>1, <2>2, <3>1 DEF Kept, PutSoFarKept, WholeSomewhere
  <2> QED
    BY <1>3, <2>1, <2>2, VisibleGrows
<1> QED
  BY <1>2, <1>3

LEMMA InitKept == MediaInit => Kept
<1> SUFFICES ASSUME MediaInit PROVE Kept
  OBVIOUS
<1>1. \A a \in Server \cup Commands : activity[a] = NoTask
  BY DEF MediaInit
<1>2. \A s \in Stores, n \in Names : files[s][n] # "short"
  BY DEF MediaInit
<1>3. PutSoFarKept /\ UploadKept
  BY <1>1, Distinct DEF PutSoFarKept, UploadKept, Doing, NoTask
<1>4. VideoKept
  BY <1>1, <1>2, Distinct, FileNames DEF VideoKept, Doing, NoTask
<1>5. LocalWhole
  BY <1>2 DEF LocalWhole, Stores
<1>6. KeptFilesExist
  <2>1. PICK kind \in {"image", "video"}, status \in {"processing", "completed"}, s \in Reach, archived \in BOOLEAN :
          LET old == IF ~archived THEN {} ELSE IF kind = "image" THEN PicturesOf(1) ELSE {VideoName}
          IN /\ archived => status = "completed"
             /\ image = [status |-> IF kind = "image" THEN status ELSE "none", deleted |-> FALSE,
                         token |-> IF archived /\ kind = "image" THEN 1 ELSE 0]
             /\ video = [status |-> IF kind = "video" THEN status ELSE "none", deleted |-> FALSE,
                         file |-> archived /\ kind = "video"]
             /\ files = [t \in Stores |-> [n \in Names |-> IF t = s /\ n \in old THEN "whole" ELSE "none"]]
    BY DEF MediaInit
  <2>2. Visible \subseteq IF ~archived THEN {} ELSE IF kind = "image" THEN PicturesOf(1) ELSE {VideoName}
    BY <2>1 DEF Visible, VideoFile, FilesOf
  <2>3. Visible \subseteq Names
    BY VisibleIs, InitTyped
  <2>4. s \in Stores
    BY PrimaryInReach DEF MediaInit
  <2> QED
    BY <2>1, <2>2, <2>3, <2>4 DEF KeptFilesExist
<1> QED
  BY <1>3, <1>4, <1>5, <1>6 DEF Kept

LEMMA StepKept == MediaTyped /\ Order /\ Kept /\ [MediaNext]_mediaVars => Kept'
<1> SUFFICES ASSUME MediaTyped, Order, Kept, [MediaNext]_mediaVars PROVE Kept'
  OBVIOUS
<1>1. MediaTyped' /\ Order'
  BY StepTyped, StepOrder
<1> QED
  BY <1>1, KeptFilesExistStep, PutSoFarStep, VideoKeptStep, LocalWholeStep, UploadKeptStep DEF Kept

-----------------------------------------------------------------------------
(***************************************************************************)
(* What the migration has dealt with is on the server.                      *)
(***************************************************************************)
LEMMA ListedWasVisible ==
  ASSUME MediaTyped, Order, [MediaNext]_mediaVars, MediaTyped', ~Doing("migrator", "idle"),
         NEW n \in activity["migrator"].all, n \in Visible'
  PROVE  n \in Visible
<1> SUFFICES ASSUME n \notin Visible PROVE FALSE
  OBVIOUS
<1>1. n = VideoName => video.file
  BY DEF Order, MigrationOrder
<1>2. ASSUME NEW a \in Archivers, Writes(a) PROVE n \notin PicturesOf(activity[a].token)
  BY <1>2 DEF Order, TokensFresh
<1> QED
  BY <1>1, <1>2, VisibleGrows

LEMMA MigratorIs ==
  ASSUME MediaTyped, ~Doing("migrator", "idle")
  PROVE  /\ activity["migrator"].at \in {"next", "upload"} /\ activity["migrator"].name \in Names
         /\ activity["migrator"].all \subseteq Names /\ activity["migrator"].todo \subseteq Names
         /\ activity["migrator"].complete \in BOOLEAN
BY DEF MediaTyped, ActivityTyped, Doing, NoTask

LEMMA StepMigrated ==
  ASSUME MediaTyped, Order, Kept, MigratedSoFar, [MediaNext]_mediaVars, MediaTyped'
  PROVE  MigratedSoFar'
<1> SUFFICES ASSUME ~Doing("migrator", "idle")', activity'["migrator"].complete,
                    NEW n \in activity'["migrator"].all \ activity'["migrator"].todo, Counted(n)',
                    ~(Doing("migrator", "upload")' /\ n = activity'["migrator"].name)
             PROVE  files'["webdav"][n] = "whole"
  BY DEF MigratedSoFar
<1>1. n \in Visible' /\ n \notin damaged' /\ n \notin damaged
  BY DamageStays DEF Counted
<1>2. n \in Names
  BY <1>1, VisibleIsNext
<1>3. CASE activity'["migrator"] = activity["migrator"]
  <2>1. ~Doing("migrator", "idle") /\ n \in activity["migrator"].all \ activity["migrator"].todo
    BY <1>3 DEF Doing
  <2>2. n \in Visible
    BY <1>1, <2>1, ListedWasVisible
  <2>3. Held(n) /\ Counted(n) /\ ~(Doing("migrator", "upload") /\ n = activity["migrator"].name)
    BY <1>1, <1>3, <2>2 DEF Held, Counted, Doing
  <2>4. files["webdav"][n] = "whole"
    BY <1>3, <2>1, <2>3 DEF MigratedSoFar
  <2> QED
    BY <1>1, <1>2, <2>3, <2>4, HeldFilesStay DEF Stores
<1>4. CASE MigrateNext
  <2>1. /\ Doing("migrator", "next") /\ files' = files
        /\ activity'["migrator"].todo = activity["migrator"].todo \ {activity'["migrator"].name}
        /\ activity'["migrator"].all = activity["migrator"].all
        /\ activity["migrator"].complete
        /\ activity'["migrator"].at = IF Skippable(activity'["migrator"].name) THEN "next" ELSE "upload"
    BY <1>4, MigrateNextStep
  <2>2. ~Doing("migrator", "idle") /\ ~Doing("migrator", "upload")
    BY <2>1 DEF Doing
  <2>3. Counted(n)
    BY <1>1, <2>1, <2>2, ListedWasVisible DEF Counted
  <2>4. CASE n # activity'["migrator"].name
    BY <2>1, <2>2, <2>3, <2>4 DEF MigratedSoFar
  <2>5. CASE n = activity'["migrator"].name
    <3>1. files["local"][n] \in {"none", files["webdav"][n]}
      BY <2>1, <2>5 DEF Skippable, Stat, Doing
    <3>2. PICK s \in Stores : files[s][n] = "whole"
      BY <2>3 DEF Counted, Kept, KeptFilesExist
    <3> QED
      BY <2>1, <3>1, <3>2 DEF Stores
  <2> QED
    BY <2>4, <2>5
<1>5. CASE Upload
  <2>1. /\ Doing("migrator", "upload") /\ activity["migrator"].name \in Names
        /\ activity'["migrator"].todo = activity["migrator"].todo
        /\ activity'["migrator"].all = activity["migrator"].all
        /\ activity["migrator"].complete = activity'["migrator"].complete
        /\ LET size == files["local"][activity["migrator"].name]
           IN files' = [files EXCEPT !["webdav"][activity["migrator"].name] = IF size = "none" THEN "whole" ELSE size]
    BY <1>5, UploadStep
  <2>2. ~Doing("migrator", "idle")
    BY <2>1 DEF Doing
  <2>3. Counted(n)
    BY <1>1, <2>1, <2>2, ListedWasVisible DEF Counted
  <2>4. files \in [Stores -> [Names -> Sizes]] /\ "webdav" \in Stores
    BY DEF MediaTyped, RowsTyped, Stores
  <2>5. CASE n = activity["migrator"].name
    <3>1. files["local"][n] = "whole"
      BY <2>1, <2>3, <2>5 DEF Kept, UploadKept
    <3> QED
      BY <1>2, <2>1, <2>4, <2>5, <3>1
  <2>6. CASE n # activity["migrator"].name
    <3>1. files["webdav"][n] = "whole"
      BY <2>1, <2>2, <2>3, <2>6 DEF MigratedSoFar
    <3> QED
      BY <1>2, <2>1, <2>4, <2>6, <3>1
  <2> QED
    BY <2>5, <2>6
<1>6. CASE Migrate
  BY <1>6, MigrateStep
<1>7. CASE Migrated
  <2>1. activity'["migrator"] = NoTask
    BY <1>7, OneChanges, Distinct DEF Migrated, Become, MediaTyped
  <2> QED
    BY <2>1 DEF Doing, NoTask
<1>8. OthersRest
  BY WhoActs
<1> QED
  BY <1>3, <1>4, <1>5, <1>6, <1>7, <1>8 DEF OthersRest

LEMMA InitMigrated == MediaInit => MigratedSoFar
BY Distinct DEF MediaInit, MigratedSoFar, Doing, NoTask

\* Every file that the row of a visible work names is whole in one of the stores, unless somebody
\* else broke it: archiveImages and archiveVideo write before they link, whoever clears files away
\* names tokens that no visible row names, and migrate-creative-media only ever adds a whole file.
THEOREM ArchivedFilesExist == MediaSpec => []KeptFilesExist
<1>1. MediaInit => MediaTyped /\ Order /\ Kept
  BY InitTyped, InitOrder, InitKept
<1>2. MediaTyped /\ Order /\ Kept /\ [MediaNext]_mediaVars => (MediaTyped /\ Order /\ Kept)'
  BY StepTyped, StepOrder, StepKept
<1>3. MediaTyped /\ Order /\ Kept => KeptFilesExist
  BY DEF Kept
<1> QED
  BY <1>1, <1>2, <1>3, PTL DEF MediaSpec

\* After a migrate-creative-media that ended complete, every file that it had listed and that a
\* visible row still names is whole in the new store: what it counts as uploaded stays there.
THEOREM MigrationLeavesNothing == MediaSpec => []MigrationIsComplete
<1>1. MediaInit => MediaTyped /\ Order /\ Kept /\ MigratedSoFar
  BY InitTyped, InitOrder, InitKept, InitMigrated
<1>2. MediaTyped /\ Order /\ Kept /\ MigratedSoFar /\ [MediaNext]_mediaVars =>
          (MediaTyped /\ Order /\ Kept /\ MigratedSoFar)'
  BY StepTyped, StepOrder, StepKept, StepMigrated
<1>3. MigratedSoFar => MigrationIsComplete
  BY DEF MigratedSoFar, MigrationIsComplete, Counted, Doing
<1> QED
  BY <1>1, <1>2, <1>3, PTL DEF MediaSpec

-----------------------------------------------------------------------------
(***************************************************************************)
(* While every removal succeeds, a file belongs to a row or to who archives.*)
(***************************************************************************)
LeftBehind ==
    /\ leftovers => leftovers'
    /\ media' # media => leftovers'

LEMMA LeftoversStay ==
  ASSUME MediaTyped, Order, [MediaNext]_mediaVars
  PROVE  LeftBehind
<1> USE Distinct
<1>1. CASE Make
  BY <1>1, MakeStep DEF LeftBehind
<1>2. ASSUME NEW a \in Archivers, PutPicture(a) PROVE LeftBehind
  BY <1>2, PutPictureStep DEF LeftBehind, SameTask
<1>3. ASSUME NEW a \in Archivers, PutFails(a) PROVE LeftBehind
  BY <1>3, PutFailsStep DEF LeftBehind
<1>4. ASSUME NEW a \in Archivers, Complete(a) PROVE LeftBehind
  BY <1>4, CompleteStep DEF LeftBehind
<1>5. ASSUME NEW a \in Archivers, Clean(a) PROVE LeftBehind
  BY <1>5, CleanStep, RemovedEffect DEF LeftBehind, MediaTyped
<1>6. ASSUME NEW a \in Archivers, Drop(a) PROVE LeftBehind
  BY <1>6, DropStep, RemovedEffect DEF LeftBehind, MediaTyped
<1>7. ASSUME NEW r \in Readers, Restore(r) PROVE LeftBehind
  BY <1>7, RestoreStep DEF LeftBehind
<1>8. ASSUME NEW r \in Readers, MovesQuietly(r) PROVE LeftBehind
  BY <1>8, QuietMoves DEF LeftBehind, ReaderMove, Order
<1>9. CASE Poll \/ PutVideo \/ SaveVideo
  <2>1. media' = media /\ (leftovers' = leftovers \/ leftovers' = TRUE)
    BY <1>9, PollerStep
  <2> QED
    BY <2>1 DEF LeftBehind
<1>10. ASSUME NEW kind \in {"image", "video"}, Delete(kind) PROVE LeftBehind
  BY <1>10, DeleteStep DEF LeftBehind
<1>11. CASE Hide
  BY <1>11, HideStep DEF LeftBehind, NoTask
<1>12. CASE RemovePictures \/ RemoveVideo
  BY <1>12, RemoveStep, RemovedEffect DEF LeftBehind, MediaTyped
<1>13. CASE Migrate
  BY <1>13, MigrateStep DEF LeftBehind
<1>14. CASE MigrateNext
  BY <1>14, MigrateNextStep DEF LeftBehind
<1>15. CASE Upload
  BY <1>15, UploadStep DEF LeftBehind
<1>16. CASE Migrated \/ Recover \/ RecoverRow
  <2>1. media' = media /\ (leftovers' = leftovers \/ leftovers' = TRUE)
    BY <1>16, OtherSteps
  <2> QED
    BY <2>1 DEF LeftBehind
<1>17. CASE SwitchMedia \/ LinksExpire \/ Damage
  <2>1. (media' = media /\ leftovers' = leftovers) \/ leftovers' = TRUE
    BY <1>17, AroundStep
  <2> QED
    BY <2>1 DEF LeftBehind
<1>18. CASE ServerDies
  BY <1>18, DiesStep DEF LeftBehind, NoTask, Archivers, Server, Commands
<1>19. CASE UNCHANGED mediaVars
  BY <1>19 DEF LeftBehind, mediaVars, rowVars, envVars, troubleVars
<1> QED
  BY <1>1, <1>2, <1>3, <1>4, <1>5, <1>6, <1>7, <1>8, <1>9, <1>10, <1>11, <1>12, <1>13, <1>14, <1>15,
     <1>16, <1>17, <1>18, <1>19 DEF MediaNext, ArchiveStep, ReadStep, MovesQuietly

Owned(t, i) == t = image.token \/ \E a \in Archivers : OwnedBy(a, t, i)

LEMMA OwnedOn ==
  ASSUME MediaTyped, Order, Tidy, [MediaNext]_mediaVars, MediaTyped', Order', ~leftovers', ~leftovers,
         NEW s \in Stores, NEW t \in Tokens, NEW i \in Pictures, Owned(t, i),
         files[s][Picture(t, i)] # "none", files'[s][Picture(t, i)] # "none"
  PROVE  Owned(t, i)'
<1> USE Distinct
<1>1. CASE Make
  BY <1>1, MakeStep DEF Owned, OwnedBy, Alone, Archives, Writes, Doing
<1>2. ASSUME NEW a \in Archivers, PutPicture(a) PROVE Owned(t, i)'
  <2>1. /\ SameTask(a) /\ activity[a].at = "put" /\ activity'[a].at = "put" /\ image' = image
        /\ activity'[a].next = activity[a].next + 1 /\ activity[a].next \in Nat /\ i \in Nat
    BY <1>2, PutPictureStep, MediaConstants
  <2>2. i < activity[a].next => i < activity[a].next + 1
    BY <2>1
  <2> QED
    BY <2>1, <2>2 DEF SameTask, Owned, OwnedBy, Alone, Archives, Writes, Doing
<1>3. ASSUME NEW a \in Archivers, PutFails(a) PROVE Owned(t, i)'
  BY <1>3, PutFailsStep DEF Owned, OwnedBy, Alone, Archives, Writes, Doing, SameTask
<1>4. ASSUME NEW a \in Archivers, Complete(a) PROVE Owned(t, i)'
  <2>1. SameTask(a) /\ activity[a].at = "put" /\ activity[a].old = image.token /\ activity'[a].next = activity[a].next
    BY <1>4, CompleteStep DEF Order, TokensFresh, Writes, Doing
  <2>2. CASE activity'[a].at = "drop" /\ image'.token = activity[a].token
    BY <2>1, <2>2 DEF SameTask, Owned, OwnedBy, Alone, Archives, Writes, Doing
  <2>3. CASE activity'[a].at = "clean" /\ image' = image
    BY <2>1, <2>3 DEF SameTask, Owned, OwnedBy, Alone, Archives, Writes, Doing
  <2>4. activity'[a].at = "drop" => image'.token = activity[a].token
    <3>1. activity'[a].at = "drop" => image' = [image EXCEPT !.status = "completed", !.token = activity[a].token]
      BY <1>4, CompleteStep
    <3> QED
      BY <3>1 DEF MediaTyped, RowsTyped
  <2> QED
    BY <1>4, <2>2, <2>3, <2>4, CompleteStep
<1>5. ASSUME NEW a \in Archivers, Clean(a) PROVE Owned(t, i)'
  <2>1. Alone(a) /\ image'.token = image.token /\ activity[a].at = "clean"
    BY <1>5, CleanStep DEF SameTask, MediaTyped, RowsTyped
  <2>2. AllGone(PutSoFar(a))
    BY <1>5, CleanStep, RemovedEffect DEF MediaTyped
  <2>3. ~OwnedBy(a, t, i)
    <3> SUFFICES ASSUME t = activity[a].token, i < activity[a].next PROVE FALSE
      BY <2>1 DEF OwnedBy, Writes, Doing
    <3>1. activity[a].next \in Nat /\ i \in Nat /\ i >= 1
      BY <2>1, ArchiverIs, MediaConstants DEF MediaTyped
    <3>2. i \in 1..(activity[a].next - 1)
      BY <3>1
    <3>3. Picture(t, i) \in PutSoFar(a)
      BY <3>2 DEF PutSoFar
    <3>4. s \in Reach
      BY FileNames DEF Tidy, FilesInReach
    <3> QED
      BY <2>2, <3>3, <3>4, FileNames DEF AllGone
  <2> QED
    BY <2>1, <2>3 DEF Owned, OwnedBy, Alone, Writes, Doing
<1>6. ASSUME NEW a \in Archivers, Drop(a) PROVE Owned(t, i)'
  <2>1. Alone(a) /\ image' = image /\ activity[a].at = "drop"
    BY <1>6, DropStep
  <2>2. AllGone(FilesOf(activity[a].old))
    BY <1>6, DropStep, RemovedEffect DEF MediaTyped
  <2>3. ~OwnedBy(a, t, i)
    <3> SUFFICES ASSUME t = activity[a].old PROVE FALSE
      BY <2>1 DEF OwnedBy, Writes, Doing
    <3>1. Picture(t, i) \in FilesOf(activity[a].old)
      BY MediaConstants DEF FilesOf, PicturesOf
    <3>2. s \in Reach
      BY FileNames DEF Tidy, FilesInReach
    <3> QED
      BY <2>2, <3>1, <3>2, FileNames DEF AllGone
  <2> QED
    BY <2>1, <2>3 DEF Owned, OwnedBy, Alone, Writes, Doing
<1>7. ASSUME NEW r \in Readers, Restore(r) PROVE Owned(t, i)'
  BY <1>7, RestoreStep DEF Owned, OwnedBy, Alone, Archives, Writes, Doing
<1>8. ASSUME NEW r \in Readers, MovesQuietly(r) PROVE Owned(t, i)'
  <2>1. Alone(r) /\ image' = image /\ ~Archives(r)
    BY <1>8, QuietMoves DEF ReaderMove, Order
  <2> QED
    BY <2>1 DEF Owned, OwnedBy, Alone, Archives, Writes, Doing
<1>9. CASE Poll \/ PutVideo \/ SaveVideo
  BY <1>9, PollerStep DEF Owned, OwnedBy, Alone, Archives, Writes, Doing
<1>10. ASSUME NEW kind \in {"image", "video"}, Delete(kind) PROVE Owned(t, i)'
  BY <1>10, DeleteStep DEF Owned, OwnedBy, Alone, Archives, Writes, Doing
<1>11. CASE Hide
  <2>1. Alone("deleter") /\ image'.token = image.token
    BY <1>11, HideStep DEF MediaTyped, RowsTyped
  <2> QED
    BY <2>1 DEF Owned, OwnedBy, Alone, Writes, Doing
<1>12. CASE RemovePictures \/ RemoveVideo
  <2>1. Alone("deleter")
    BY <1>12, RemoveStep
  <2>2. CASE image' = image
    BY <2>1, <2>2 DEF Owned, OwnedBy, Alone, Writes, Doing
  <2>3. CASE RemovePictures
    <3>1. AllGone(FilesOf(image.token))
      BY <2>3, RemovedEffect DEF RemovePictures, MediaTyped
    <3>2. t # image.token
      <4> SUFFICES ASSUME t = image.token PROVE FALSE
        OBVIOUS
      <4>1. Picture(t, i) \in FilesOf(image.token)
        BY MediaConstants DEF FilesOf, PicturesOf
      <4>2. s \in Reach
        BY FileNames DEF Tidy, FilesInReach
      <4> QED
        BY <3>1, <4>1, <4>2, FileNames DEF AllGone
    <3> QED
      BY <2>1, <3>2 DEF Owned, OwnedBy, Alone, Writes, Doing
  <2> QED
    BY <1>12, <2>2, <2>3 DEF RemoveVideo, rowVars
<1>13. CASE Migrate
  BY <1>13, MigrateStep DEF Owned, OwnedBy, Alone, Archives, Writes, Doing
<1>14. CASE MigrateNext
  BY <1>14, MigrateNextStep DEF Owned, OwnedBy, Alone, Archives, Writes, Doing
<1>15. CASE Upload
  BY <1>15, UploadStep DEF Owned, OwnedBy, Alone, Archives, Writes, Doing
<1>16. CASE Migrated \/ Recover \/ RecoverRow
  <2>1. image' = image /\ \A b \in Archivers : activity'[b] = activity[b]
    BY <1>16, OtherSteps DEF Alone
  <2> QED
    BY <2>1 DEF Owned, OwnedBy, Writes, Doing
<1>17. CASE SwitchMedia \/ LinksExpire \/ Damage
  BY <1>17, AroundStep DEF Owned, OwnedBy, Alone, Archives, Writes, Doing
<1>18. CASE ServerDies
  BY <1>18, DiesStep
<1>19. CASE UNCHANGED mediaVars
  BY <1>19 DEF Owned, OwnedBy, Alone, Archives, Writes, Doing, mediaVars, rowVars, envVars,
     troubleVars
<1> QED
  BY <1>1, <1>2, <1>3, <1>4, <1>5, <1>6, <1>7, <1>8, <1>9, <1>10, <1>11, <1>12, <1>13, <1>14, <1>15,
     <1>16, <1>17, <1>18, <1>19 DEF MediaNext, ArchiveStep, ReadStep, MovesQuietly

LEMMA NewFile ==
  ASSUME MediaTyped, Order, [MediaNext]_mediaVars, ~leftovers',
         NEW s \in Stores, NEW n \in Names, files[s][n] = "none", files'[s][n] # "none"
  PROVE  s = Primary /\ (PutNow(s, n) \/ (n = VideoName /\ PutVideo))
<1>1. Changed(s, n)
  BY WhoChanges
<1>2. ~BrokenNow(s, n) /\ ~GoneNow(s, n)
  BY DEF BrokenNow, GoneNow
<1>3. ~UploadNow(s, n)
  BY UploadStep DEF UploadNow
<1>4. VideoNow(s, n) => s = Primary /\ n = VideoName /\ PutVideo
  BY DEF VideoNow
<1>5. PutNow(s, n) => s = Primary
  BY DEF PutNow
<1>6. PutNow(s, n) \/ VideoNow(s, n)
  BY <1>1, <1>2, <1>3 DEF Changed
<1> QED
  BY <1>4, <1>5, <1>6

LEMMA PicturesOwnedStep ==
  ASSUME MediaTyped, Order, Tidy, [MediaNext]_mediaVars, MediaTyped', Order', ~leftovers', ~leftovers
  PROVE  PicturesOwned'
<1> SUFFICES ASSUME NEW s \in Stores, NEW t \in Tokens, NEW i \in Pictures, files'[s][Picture(t, i)] # "none"
             PROVE  Owned(t, i)'
  BY DEF PicturesOwned, Owned
<1>1. Picture(t, i) \in Names /\ Picture(t, i) # VideoName
  BY FileNames
<1>2. CASE files[s][Picture(t, i)] # "none"
  <2>1. Owned(t, i)
    BY <1>2 DEF Tidy, PicturesOwned, Owned
  <2> QED
    BY <1>2, <2>1, OwnedOn
<1>3. CASE files[s][Picture(t, i)] = "none"
  <2>1. PutNow(s, Picture(t, i))
    BY <1>1, <1>3, NewFile
  <2>2. PICK a \in Archivers : PutPicture(a) /\ Picture(t, i) = Picture(activity[a].token, activity[a].next)
    BY <2>1 DEF PutNow
  <2>3. t = activity[a].token /\ i = activity[a].next
    BY <2>2, FileNames
  <2>4. activity'[a].at = "put" /\ activity'[a].token = t /\ activity'[a].next = i + 1
    BY <2>2, <2>3, PutPictureStep DEF SameTask
  <2>5. i < i + 1
    BY MediaConstants
  <2> QED
    BY <2>4, <2>5 DEF Owned, OwnedBy, Writes, Doing
<1> QED
  BY <1>2, <1>3

LEMMA FilesInReachStep ==
  ASSUME MediaTyped, Order, Tidy, [MediaNext]_mediaVars, MediaTyped', Order', ~leftovers', ~leftovers
  PROVE  FilesInReach'
<1> SUFFICES ASSUME NEW s \in Stores, s \notin Reach', NEW n \in Names PROVE files'[s][n] = "none"
  BY DEF FilesInReach
<1>1. Reach' = Reach /\ Primary \in Reach
  <2>1. media' = media
    BY LeftoversStay DEF LeftBehind
  <2> QED
    BY <2>1, StackIs, StackIsNext, PrimaryInReach DEF MediaTyped, RowsTyped
<1>2. files[s][n] = "none"
  BY <1>1 DEF Tidy, FilesInReach
<1> QED
  BY <1>1, <1>2, NewFile

LEMMA ImageDeletionStep ==
  ASSUME MediaTyped, Order, Tidy, [MediaNext]_mediaVars, MediaTyped', Order', ~leftovers', ~leftovers
  PROVE  ImageDeletion'
<1> USE Distinct
<1>1. CASE Make
  BY <1>1, MakeStep DEF ImageDeletion, Alone, Doing, Tidy
<1>2. ASSUME NEW a \in Archivers, PutPicture(a) PROVE ImageDeletion'
  BY <1>2, PutPictureStep DEF ImageDeletion, Alone, Doing, Tidy, SameTask
<1>3. ASSUME NEW a \in Archivers, PutFails(a) PROVE ImageDeletion'
  BY <1>3, PutFailsStep DEF ImageDeletion, Alone, Doing, Tidy, SameTask
<1>4. ASSUME NEW a \in Archivers, Complete(a) PROVE ImageDeletion'
  <2>0. Alone(a)
    BY <1>4, CompleteStep DEF SameTask
  <2>1. activity'["deleter"] = activity["deleter"]
    BY <2>0 DEF Alone
  <2>2. image' = image \/ (~image.deleted /\ image' = [image EXCEPT !.status = "completed", !.token = activity[a].token])
    BY <1>4, CompleteStep
  <2>3. image' = image \/ ~image'.deleted
    BY <2>2 DEF MediaTyped, RowsTyped
  <2> QED
    BY <2>1, <2>3 DEF Tidy, ImageDeletion, Doing
<1>5. ASSUME NEW a \in Archivers, Clean(a) PROVE ImageDeletion'
  <2>1. activity'["deleter"] = activity["deleter"] /\ image'.token = image.token /\ image'.deleted = image.deleted
    BY <1>5, CleanStep DEF SameTask, Alone, MediaTyped, RowsTyped
  <2> QED
    BY <2>1 DEF Tidy, ImageDeletion, Doing
<1>6. ASSUME NEW a \in Archivers, Drop(a) PROVE ImageDeletion'
  <2>1. activity'["deleter"] = activity["deleter"] /\ image' = image
    BY <1>6, DropStep DEF Alone
  <2> QED
    BY <2>1 DEF Tidy, ImageDeletion, Doing
<1>7. ASSUME NEW r \in Readers, Restore(r) PROVE ImageDeletion'
  BY <1>7, RestoreStep DEF ImageDeletion, Alone, Doing, Tidy
<1>8. ASSUME NEW r \in Readers, MovesQuietly(r) PROVE ImageDeletion'
  <2>1. activity'["deleter"] = activity["deleter"] /\ image' = image
    BY <1>8, QuietMoves DEF ReaderMove, Alone, Order
  <2> QED
    BY <2>1 DEF Tidy, ImageDeletion, Doing
<1>9. CASE Poll \/ PutVideo \/ SaveVideo
  <2>1. activity'["deleter"] = activity["deleter"] /\ image' = image
    BY <1>9, PollerStep DEF Alone
  <2> QED
    BY <2>1 DEF Tidy, ImageDeletion, Doing
<1>10. ASSUME NEW kind \in {"image", "video"}, Delete(kind) PROVE ImageDeletion'
  BY <1>10, DeleteStep DEF Tidy, ImageDeletion, Doing
<1>11. CASE Hide
  <2>1. /\ Doing("deleter", "hide") /\ image'.token = image.token
        /\ image'.deleted => image.deleted \/ (Doing("deleter", "remove")' /\ activity'["deleter"].kind = "image")
    BY <1>11, HideStep DEF Doing, MediaTyped, RowsTyped
  <2> QED
    BY <2>1 DEF Tidy, ImageDeletion, Doing
<1>12. CASE RemovePictures \/ RemoveVideo
  <2>1. CASE RemovePictures
    <3>1. trouble' = trouble
      <4>1. \/ trouble' = trouble /\ leftovers' = leftovers
            \/ trouble' = trouble + 1 /\ leftovers' = TRUE
        BY <2>1, RemovedEffect DEF RemovePictures, MediaTyped
      <4> QED
        BY <4>1
    <3>2. image' = [image EXCEPT !.token = 0]
      BY <2>1, <3>1 DEF RemovePictures
    <3> QED
      BY <3>2 DEF ImageDeletion, MediaTyped, RowsTyped
  <2>2. CASE RemoveVideo
    <3>1. image' = image /\ activity["deleter"].kind = "video"
      BY <2>2 DEF RemoveVideo, rowVars
    <3> QED
      BY <3>1 DEF Tidy, ImageDeletion
  <2> QED
    BY <1>12, <2>1, <2>2
<1>13. CASE Migrate
  BY <1>13, MigrateStep DEF ImageDeletion, Alone, Doing, Tidy
<1>14. CASE MigrateNext
  BY <1>14, MigrateNextStep DEF ImageDeletion, Alone, Doing, Tidy
<1>15. CASE Upload
  BY <1>15, UploadStep DEF ImageDeletion, Alone, Doing, Tidy
<1>16. CASE Migrated \/ Recover \/ RecoverRow
  <2>1. activity'["deleter"] = activity["deleter"] /\ image' = image
    BY <1>16, OtherSteps DEF Alone
  <2> QED
    BY <2>1 DEF Tidy, ImageDeletion, Doing
<1>17. CASE SwitchMedia \/ LinksExpire \/ Damage
  BY <1>17, AroundStep DEF ImageDeletion, Alone, Doing, Tidy
<1>18. CASE ServerDies
  BY <1>18, DiesStep
<1>19. CASE UNCHANGED mediaVars
  BY <1>19 DEF ImageDeletion, Alone, Doing, Tidy, mediaVars, rowVars, envVars, troubleVars
<1> QED
  BY <1>1, <1>2, <1>3, <1>4, <1>5, <1>6, <1>7, <1>8, <1>9, <1>10, <1>11, <1>12, <1>13, <1>14, <1>15,
     <1>16, <1>17, <1>18, <1>19 DEF MediaNext, ArchiveStep, ReadStep, MovesQuietly

\* What is true of the video while a file of it is there.
VideoStored ==
    /\ video.status = "processing" \/ video.file
    /\ ~Doing("deleter", "idle") /\ activity["deleter"].kind = "video" => activity["deleter"].file
    /\ video.deleted => Doing("deleter", "remove") /\ activity["deleter"].kind = "video"

LEMMA VideoStoredOn ==
  ASSUME MediaTyped, Order, Tidy, [MediaNext]_mediaVars, MediaTyped', Order', ~leftovers', ~leftovers,
         NEW s \in Stores, VideoStored, files[s][VideoName] # "none", files'[s][VideoName] # "none"
  PROVE  VideoStored'
<1> USE Distinct
<1>1. CASE Make
  BY <1>1, MakeStep DEF VideoStored, Alone, Doing
<1>2. ASSUME NEW a \in Archivers, PutPicture(a) PROVE VideoStored'
  <2>1. activity'["deleter"] = activity["deleter"] /\ video' = video
    BY <1>2, PutPictureStep DEF SameTask, Alone
  <2> QED
    BY <2>1 DEF VideoStored, Doing
<1>3. ASSUME NEW a \in Archivers, PutFails(a) PROVE VideoStored'
  <2>1. activity'["deleter"] = activity["deleter"] /\ video' = video
    BY <1>3, PutFailsStep DEF SameTask, Alone
  <2> QED
    BY <2>1 DEF VideoStored, Doing
<1>4. ASSUME NEW a \in Archivers, Complete(a) PROVE VideoStored'
  <2>0. Alone(a) /\ video' = video
    BY <1>4, CompleteStep DEF SameTask
  <2>1. activity'["deleter"] = activity["deleter"]
    BY <2>0 DEF Alone
  <2> QED
    BY <2>0, <2>1 DEF VideoStored, Doing
<1>5. ASSUME NEW a \in Archivers, Clean(a) PROVE VideoStored'
  <2>1. activity'["deleter"] = activity["deleter"] /\ video' = video
    BY <1>5, CleanStep DEF SameTask, Alone
  <2> QED
    BY <2>1 DEF VideoStored, Doing
<1>6. ASSUME NEW a \in Archivers, Drop(a) PROVE VideoStored'
  <2>1. activity'["deleter"] = activity["deleter"] /\ video' = video
    BY <1>6, DropStep DEF Alone
  <2> QED
    BY <2>1 DEF VideoStored, Doing
<1>7. ASSUME NEW r \in Readers, Restore(r) PROVE VideoStored'
  BY <1>7, RestoreStep DEF VideoStored, Alone, Doing
<1>8. ASSUME NEW r \in Readers, MovesQuietly(r) PROVE VideoStored'
  <2>1. activity'["deleter"] = activity["deleter"] /\ video' = video
    BY <1>8, QuietMoves DEF ReaderMove, Alone, Order
  <2> QED
    BY <2>1 DEF VideoStored, Doing
<1>9. CASE Poll \/ PutVideo \/ SaveVideo
  <2>1. activity'["deleter"] = activity["deleter"]
    BY <1>9, PollerStep DEF Alone
  <2>2. \/ video' = video
        \/ video'.deleted = video.deleted /\ video'.file
    BY <1>9, PollerStep DEF MediaTyped, RowsTyped
  <2> QED
    BY <2>1, <2>2 DEF VideoStored, Doing
<1>10. ASSUME NEW kind \in {"image", "video"}, Delete(kind) PROVE VideoStored'
  <2>1. CASE kind = "video"
    <3>1. video' = video /\ ~video.deleted /\ video.status # "processing"
      BY <1>10, <2>1, DeleteStep DEF Row
    <3>2. video.file
      BY <3>1 DEF VideoStored
    <3> QED
      BY <1>10, <2>1, <3>1, <3>2, DeleteStep DEF VideoStored, Doing
  <2>2. CASE kind = "image"
    BY <1>10, <2>2, DeleteStep DEF VideoStored, Doing
  <2> QED
    BY <2>1, <2>2
<1>11. CASE Hide
  <2>1. ~video.deleted
    BY <1>11, HideStep DEF VideoStored, Doing
  <2>2. CASE activity'["deleter"] = NoTask /\ video' = video
    BY <2>1, <2>2 DEF VideoStored, Doing, NoTask
  <2>3. CASE /\ activity'["deleter"].at = "remove" /\ activity'["deleter"].kind = activity["deleter"].kind
             /\ activity'["deleter"].file = activity["deleter"].file /\ activity["deleter"].at = "hide"
    <3>1. /\ video'.status = video.status /\ video'.file = video.file
          /\ video'.deleted => activity["deleter"].kind = "video"
      <4>1. CASE activity["deleter"].kind = "video"
        <5>1. video' = [video EXCEPT !.deleted = TRUE] \/ video' = video
          BY <1>11, <4>1, HideStep
        <5> QED
          BY <4>1, <5>1 DEF MediaTyped, RowsTyped
      <4>2. CASE activity["deleter"].kind # "video"
        <5>1. activity["deleter"].kind = "image"
          BY <2>3, <4>2 DEF MediaTyped, ActivityTyped, NoTask
        <5>2. video' = video
          BY <1>11, <5>1, HideStep
        <5> QED
          BY <2>1, <5>2
      <4> QED
        BY <4>1, <4>2
    <3> QED
      BY <2>1, <2>3, <3>1 DEF VideoStored, Doing
  <2> QED
    BY <1>11, <2>2, <2>3, HideStep DEF Doing
<1>12. CASE RemovePictures \/ RemoveVideo
  <2>1. activity'["deleter"] = NoTask /\ video' = video /\ Doing("deleter", "remove")
    BY <1>12, RemoveStep
  <2>2. CASE RemoveVideo
    <3>1. activity["deleter"].kind = "video" /\ activity["deleter"].file
      BY <2>1, <2>2 DEF RemoveVideo, VideoStored, Doing
    <3>2. AllGone({VideoName})
      BY <2>2, <3>1, RemovedEffect DEF RemoveVideo, MediaTyped
    <3>3. s \in Reach
      BY FileNames DEF Tidy, FilesInReach
    <3> QED
      BY <3>2, <3>3, FileNames DEF AllGone
  <2>3. CASE RemovePictures
    <3>1. ~video.deleted
      BY <2>3 DEF RemovePictures, VideoStored
    <3> QED
      BY <2>1, <3>1 DEF VideoStored, Doing, NoTask
  <2> QED
    BY <1>12, <2>2, <2>3
<1>13. CASE Migrate
  BY <1>13, MigrateStep DEF VideoStored, Alone, Doing
<1>14. CASE MigrateNext
  BY <1>14, MigrateNextStep DEF VideoStored, Alone, Doing
<1>15. CASE Upload
  BY <1>15, UploadStep DEF VideoStored, Alone, Doing
<1>16. CASE Migrated \/ Recover \/ RecoverRow
  <2>1. activity'["deleter"] = activity["deleter"]
    BY <1>16, OtherSteps DEF Alone
  <2>2. \/ video' = video
        \/ video'.deleted = video.deleted /\ video'.file
    BY <1>16, OtherSteps DEF MediaTyped, RowsTyped
  <2> QED
    BY <2>1, <2>2 DEF VideoStored, Doing
<1>17. CASE SwitchMedia \/ LinksExpire \/ Damage
  BY <1>17, AroundStep DEF VideoStored, Alone, Doing
<1>18. CASE ServerDies
  BY <1>18, DiesStep
<1>19. CASE UNCHANGED mediaVars
  BY <1>19 DEF VideoStored, Alone, Doing, mediaVars, rowVars, envVars, troubleVars
<1> QED
  BY <1>1, <1>2, <1>3, <1>4, <1>5, <1>6, <1>7, <1>8, <1>9, <1>10, <1>11, <1>12, <1>13, <1>14, <1>15,
     <1>16, <1>17, <1>18, <1>19 DEF MediaNext, ArchiveStep, ReadStep, MovesQuietly

LEMMA VideoDeletionStep ==
  ASSUME MediaTyped, Order, Tidy, [MediaNext]_mediaVars, MediaTyped', Order', ~leftovers', ~leftovers
  PROVE  VideoDeletion'
<1> SUFFICES ASSUME NEW s \in Stores, files'[s][VideoName] # "none" PROVE VideoStored'
  BY DEF VideoDeletion, VideoStored
<1>1. CASE files[s][VideoName] # "none"
  <2>1. VideoStored
    BY <1>1 DEF Tidy, VideoDeletion, VideoStored
  <2> QED
    BY <1>1, <2>1, VideoStoredOn
<1>2. CASE files[s][VideoName] = "none"
  <2>1. ~PutNow(s, VideoName)
    BY FileNames DEF PutNow
  <2>2. PutVideo /\ Doing("poller", "put")
    BY <1>2, <2>1, NewFile, FileNames DEF PutVideo
  <2>3. video.status = "processing" /\ ~video.deleted
    BY <2>2 DEF Order, VideoOrder, DeletionOrder, Doing
  <2>4. ~(~Doing("deleter", "idle") /\ activity["deleter"].kind = "video")
    BY <2>3 DEF Order, DeletionOrder, Row
  <2>5. VideoStored
    BY <2>3, <2>4 DEF VideoStored
  <2>8. activity'["deleter"] = activity["deleter"]
    BY <2>2, PollerStep, Distinct DEF Alone
  <2>9. video' = video \/ (video'.deleted = video.deleted /\ video'.file)
    BY <2>2, PollerStep DEF MediaTyped, RowsTyped
  <2> QED
    BY <2>5, <2>8, <2>9 DEF VideoStored, Doing
<1> QED
  BY <1>1, <1>2

LEMMA InitTidy == MediaInit => Tidy
<1> SUFFICES ASSUME MediaInit PROVE FilesInReach /\ PicturesOwned /\ ImageDeletion /\ VideoDeletion
  BY DEF Tidy
<1>1. PICK kind \in {"image", "video"}, status \in {"processing", "completed"}, s \in Reach, archived \in BOOLEAN :
        LET old == IF ~archived THEN {} ELSE IF kind = "image" THEN PicturesOf(1) ELSE {VideoName}
        IN /\ archived => status = "completed"
           /\ image = [status |-> IF kind = "image" THEN status ELSE "none", deleted |-> FALSE,
                       token |-> IF archived /\ kind = "image" THEN 1 ELSE 0]
           /\ video = [status |-> IF kind = "video" THEN status ELSE "none", deleted |-> FALSE,
                       file |-> archived /\ kind = "video"]
           /\ files = [t \in Stores |-> [n \in Names |-> IF t = s /\ n \in old THEN "whole" ELSE "none"]]
  BY DEF MediaInit
<1>2. \A u \in Stores, n \in Names : files[u][n] # "none" =>
          /\ u = s /\ archived
          /\ n \in IF kind = "image" THEN PicturesOf(1) ELSE {VideoName}
  BY <1>1
<1>3. FilesInReach
  BY <1>2 DEF FilesInReach
<1>4. PicturesOwned
  <2> SUFFICES ASSUME NEW u \in Stores, NEW t \in Tokens, NEW i \in Pictures, files[u][Picture(t, i)] # "none"
               PROVE  t = image.token
    BY DEF PicturesOwned
  <2>1. archived /\ kind = "image" /\ Picture(t, i) \in PicturesOf(1)
    BY <1>2, FileNames
  <2>2. t = 1
    BY <2>1, FileNames DEF PicturesOf
  <2> QED
    BY <1>1, <2>1, <2>2
<1>5. ImageDeletion
  BY <1>1 DEF ImageDeletion
<1>6. VideoDeletion
  <2>1. activity["deleter"] = NoTask
    BY Distinct DEF MediaInit
  <2> SUFFICES ASSUME NEW u \in Stores, files[u][VideoName] # "none" PROVE video.file /\ ~video.deleted
    BY <2>1 DEF VideoDeletion, Doing, NoTask
  <2>2. archived /\ kind = "video"
    BY <1>2, FileNames DEF PicturesOf
  <2> QED
    BY <1>1, <2>2
<1> QED
  BY <1>3, <1>4, <1>5, <1>6

LEMMA StepTidy == MediaTyped /\ Order /\ Tidy /\ [MediaNext]_mediaVars => Tidy'
<1> SUFFICES ASSUME MediaTyped, Order, Tidy, [MediaNext]_mediaVars, ~leftovers'
             PROVE  (FilesInReach /\ PicturesOwned /\ ImageDeletion /\ VideoDeletion)'
  BY DEF Tidy
<1>1. MediaTyped' /\ Order' /\ ~leftovers
  BY StepTyped, StepOrder, LeftoversStay DEF LeftBehind
<1> QED
  BY <1>1, FilesInReachStep, PicturesOwnedStep, ImageDeletionStep, VideoDeletionStep

\* Once everybody is done with a deleted work no file of it is left in either store, unless a step
\* of removeLocalMedia failed, the store was changed or somebody brought the files back: who archives
\* a work that is deleted meanwhile cleans up after himself.
THEOREM NothingIsLeft == MediaSpec => []DeletedWorksAreRemoved
<1>1. MediaInit => MediaTyped /\ Order /\ Tidy
  BY InitTyped, InitOrder, InitTidy
<1>2. MediaTyped /\ Order /\ Tidy /\ [MediaNext]_mediaVars => (MediaTyped /\ Order /\ Tidy)'
  BY StepTyped, StepOrder, StepTidy
<1>3. ASSUME MediaTyped, Tidy PROVE DeletedWorksAreRemoved
  <2> SUFFICES ASSUME \A a \in Server \cup Commands : activity[a] = NoTask, ~leftovers,
                      NEW s \in Stores, NEW n \in Names, files[s][n] # "none"
               PROVE  ~(IF n = VideoName THEN video ELSE image).deleted
    BY DEF DeletedWorksAreRemoved
  <2>1. ~Doing("deleter", "remove") /\ \A a \in Archivers : ~Archives(a)
    BY Distinct DEF Archives, Writes, Doing, NoTask
  <2>2. CASE n = VideoName
    BY <1>3, <2>1, <2>2 DEF Tidy, VideoDeletion
  <2>3. CASE n # VideoName
    <3>1. PICK t \in Tokens, i \in Pictures : n = Picture(t, i)
      BY <2>3, FileNames
    <3>2. t = image.token
      BY <1>3, <2>1, <3>1 DEF Tidy, PicturesOwned, OwnedBy, Archives
    <3>3. image.token # 0
      BY <3>2, MediaConstants
    <3> QED
      BY <1>3, <2>1, <2>3, <3>3 DEF Tidy, ImageDeletion
  <2> QED
    BY <2>2, <2>3
<1> QED
  BY <1>1, <1>2, <1>3, PTL DEF MediaSpec

-----------------------------------------------------------------------------
(***************************************************************************)
(* What a reader does that does not archive.                                *)
(***************************************************************************)
LEMMA ReadEffect ==
  ASSUME MediaTyped, NEW r \in Readers, Read(r)
  PROVE  /\ Doing(r, "idle") /\ Alone(r) /\ activity'[r].at = "row"
         /\ activity'[r].again = FALSE /\ activity'[r].since = trouble
<1>1. PICK kind \in {"image", "video"}, i \in Pictures : Become(r, Task("row", kind, i))
  BY MediaConstants DEF Read
<1>2. Alone(r) /\ activity'[r] = Task("row", kind, i)
  BY <1>1, OneChanges, Distinct DEF Become, MediaTyped
<1> QED
  BY <1>2 DEF Read, Doing, NoTask, Task

LEMMA LookUpEffect ==
  ASSUME MediaTyped, NEW r \in Readers, LookUp(r)
  PROVE  /\ Doing(r, "row") /\ Alone(r) /\ activity'[r].token = image.token
         /\ activity'[r].at \in {"open", "gone"}
         /\ activity[r].kind = "image" => activity'[r].at = IF image.token # 0 THEN "open" ELSE "gone"
         /\ activity'[r].kind = activity[r].kind /\ activity'[r].again = activity[r].again
         /\ activity'[r].since = activity[r].since
<1>1. PICK at \in {"open", "gone"} :
          /\ activity' = [activity EXCEPT ![r].token = image.token, ![r].at = at]
          /\ activity[r].kind = "image" => at = IF image.token # 0 THEN "open" ELSE "gone"
  BY DEF LookUp
<1>2. activity[r] \in ArchiveTasks /\ Doing(r, "row")
  BY ArchiverIs, Distinct DEF LookUp, Doing, MediaTyped
<1>3. PICK k : k = [activity[r] EXCEPT !.token = image.token, !.at = at]
  OBVIOUS
<1>4. /\ k.at = at /\ k.token = image.token /\ k.kind = activity[r].kind /\ k.again = activity[r].again
      /\ k.since = activity[r].since
  BY <1>2, <1>3 DEF ArchiveTasks
<1>5. Alone(r) /\ activity'[r] = k
  BY <1>1, <1>3, OneChanges, Distinct DEF MediaTyped, ActivityTyped, Alone
<1> QED
  BY <1>1, <1>2, <1>4, <1>5

LEMMA OpenEffect ==
  ASSUME MediaTyped, NEW r \in Readers, Open(r)
  PROVE  /\ Doing(r, "open") /\ Alone(r)
         /\ \/ activity'[r] = NoTask /\ trouble' = trouble
            \/ /\ SameTask(r) /\ activity'[r].at = "gone" /\ trouble' = trouble
               /\ Found(NameFor(r)) # "whole"
            \/ activity'[r].at = "refused" /\ SameTask(r) /\ trouble' = trouble + 1
<1>1. Doing(r, "open") /\ ~Doing(r, "idle")
  BY DEF Open, Doing
<1>2. Become(r, NoTask) => Alone(r) /\ activity'[r] = NoTask
  BY OneChanges, Distinct DEF Become, MediaTyped
<1>3. \A at : Goto(r, at) => SameTask(r) /\ Alone(r) /\ activity'[r].at = at
  BY <1>1, OneGoes, Distinct DEF SameTask, MediaTyped
<1> QED
  BY <1>1, <1>2, <1>3 DEF Open, Usable, Trouble

LEMMA LookAgainEffect ==
  ASSUME MediaTyped, NEW r \in Readers, LookAgain(r)
  PROVE  /\ Doing(r, "gone") /\ Alone(r) /\ activity'[r].at = "row" /\ activity'[r].again = TRUE
         /\ activity'[r].kind = activity[r].kind /\ activity'[r].since = activity[r].since
         /\ Stored /\ lock = "free"
<1>1. activity[r] \in ArchiveTasks /\ Doing(r, "gone")
  BY ArchiverIs, Distinct DEF LookAgain, Doing, MediaTyped
<1>2. PICK k : k = [activity[r] EXCEPT !.at = "row", !.again = TRUE]
  OBVIOUS
<1>3. k.at = "row" /\ k.again = TRUE /\ k.kind = activity[r].kind /\ k.since = activity[r].since
  BY <1>1, <1>2 DEF ArchiveTasks
<1>4. Alone(r) /\ activity'[r] = k
  BY <1>2, OneChanges, Distinct DEF LookAgain, MediaTyped, ActivityTyped, Alone
<1> QED
  BY <1>1, <1>3, <1>4 DEF LookAgain

LEMMA LeaveEffect ==
  ASSUME MediaTyped, NEW r \in Readers, GiveUp(r) \/ Remote(r) \/ Refuse(r)
  PROVE  /\ Alone(r) /\ ~Doing(r, "idle")
         /\ \/ activity'[r] = NoTask /\ trouble' = trouble
            \/ /\ Doing(r, "gone") /\ activity'[r].at = "remote" /\ SameTask(r) /\ trouble' = trouble
               /\ activity[r].kind = "video" \/ activity[r].again
            \/ /\ Doing(r, "remote") /\ activity'[r].at = "refused" /\ SameTask(r)
               /\ trouble' = trouble + 1 \/ (trouble' = trouble /\ ~linked)
<1>1. ~Doing(r, "idle")
  BY DEF GiveUp, Remote, Refuse, Doing
<1>2. Become(r, NoTask) => Alone(r) /\ activity'[r] = NoTask
  BY OneChanges, Distinct DEF Become, MediaTyped
<1>3. \A at : Goto(r, at) => SameTask(r) /\ Alone(r) /\ activity'[r].at = at
  BY <1>1, OneGoes, Distinct DEF SameTask, MediaTyped
<1>4. CASE GiveUp(r)
  BY <1>1, <1>3, <1>4 DEF GiveUp, troubleVars
<1>5. CASE Remote(r)
  BY <1>1, <1>2, <1>3, <1>5 DEF Remote, Trouble
<1>6. CASE Refuse(r)
  BY <1>1, <1>2, <1>6 DEF Refuse, troubleVars
<1> QED
  BY <1>4, <1>5, <1>6

-----------------------------------------------------------------------------
(***************************************************************************)
(* Whether the pictures are stored changes only when a work is archived or  *)
(* removed.                                                                 *)
(***************************************************************************)
TroubleIs == trouble' \in {trouble, trouble + 1}
SwitchedOff == linked' = linked \/ linked' = FALSE

LEMMA TroubleGrows ==
  ASSUME MediaTyped, Order, [MediaNext]_mediaVars
  PROVE  TroubleIs /\ SwitchedOff
<1> USE Distinct
<1>1. CASE Make
  BY <1>1, MakeStep DEF TroubleIs, SwitchedOff
<1>2. ASSUME NEW a \in Archivers, PutPicture(a) PROVE TroubleIs /\ SwitchedOff
  BY <1>2, PutPictureStep DEF TroubleIs, SwitchedOff, SameTask
<1>3. ASSUME NEW a \in Archivers, PutFails(a) PROVE TroubleIs /\ SwitchedOff
  BY <1>3, PutFailsStep DEF TroubleIs, SwitchedOff
<1>4. ASSUME NEW a \in Archivers, Complete(a) PROVE TroubleIs /\ SwitchedOff
  BY <1>4, CompleteStep DEF TroubleIs, SwitchedOff
<1>5. ASSUME NEW a \in Archivers, Clean(a) PROVE TroubleIs /\ SwitchedOff
  BY <1>5, CleanStep, RemovedEffect DEF MediaTyped, TroubleIs, SwitchedOff
<1>6. ASSUME NEW a \in Archivers, Drop(a) PROVE TroubleIs /\ SwitchedOff
  BY <1>6, DropStep, RemovedEffect DEF MediaTyped, TroubleIs, SwitchedOff
<1>7. ASSUME NEW r \in Readers, Restore(r) PROVE TroubleIs /\ SwitchedOff
  BY <1>7, RestoreStep DEF TroubleIs, SwitchedOff
<1>8. ASSUME NEW r \in Readers, MovesQuietly(r) PROVE TroubleIs /\ SwitchedOff
  <2>1. linked' = linked
    BY <1>8, QuietMoves DEF ReaderMove, Order
  <2>2. trouble' \in {trouble, trouble + 1}
    BY <1>8 DEF MovesQuietly, Read, LookUp, Open, LookAgain, GiveUp, Remote, Refuse, Trouble, troubleVars
  <2> QED
    BY <2>1, <2>2 DEF TroubleIs, SwitchedOff
<1>9. CASE Poll \/ PutVideo \/ SaveVideo
  BY <1>9, PollerStep DEF TroubleIs, SwitchedOff
<1>10. ASSUME NEW kind \in {"image", "video"}, Delete(kind) PROVE TroubleIs /\ SwitchedOff
  BY <1>10, DeleteStep DEF TroubleIs, SwitchedOff
<1>11. CASE Hide
  BY <1>11, HideStep DEF TroubleIs, SwitchedOff
<1>12. CASE RemovePictures \/ RemoveVideo
  BY <1>12, RemoveStep, RemovedEffect DEF MediaTyped, TroubleIs, SwitchedOff
<1>13. CASE Migrate
  BY <1>13, MigrateStep DEF TroubleIs, SwitchedOff
<1>14. CASE MigrateNext
  BY <1>14, MigrateNextStep DEF TroubleIs, SwitchedOff
<1>15. CASE Upload
  BY <1>15, UploadStep DEF TroubleIs, SwitchedOff
<1>16. CASE Migrated \/ Recover \/ RecoverRow
  BY <1>16, OtherSteps DEF TroubleIs, SwitchedOff, NoTask
<1>17. CASE SwitchMedia \/ LinksExpire \/ Damage
  BY <1>17, AroundStep DEF TroubleIs, SwitchedOff
<1>18. CASE ServerDies
  BY <1>18, DiesStep DEF TroubleIs, SwitchedOff
<1>19. CASE UNCHANGED mediaVars
  BY <1>19 DEF TroubleIs, SwitchedOff, mediaVars, rowVars, envVars, troubleVars
<1> QED
  BY <1>1, <1>2, <1>3, <1>4, <1>5, <1>6, <1>7, <1>8, <1>9, <1>10, <1>11, <1>12, <1>13, <1>14, <1>15,
     <1>16, <1>17, <1>18, <1>19 DEF MediaNext, ArchiveStep, ReadStep, MovesQuietly

ReaderActs ==
    \A r \in Readers : activity'[r] # activity[r] => ReadStep(r) \/ ArchiveStep(r) \/ activity'[r] = NoTask

LEMMA WhoReads ==
  ASSUME MediaTyped, Order, [MediaNext]_mediaVars
  PROVE  ReaderActs
<1> USE Distinct
<1>1. CASE Make
  BY <1>1, MakeStep DEF ReaderActs, Alone, Doing
<1>2. ASSUME NEW a \in Archivers, PutPicture(a) PROVE ReaderActs
  <2>1. Alone(a)
    BY <1>2, PutPictureStep DEF SameTask
  <2> QED
    BY <1>2, <2>1 DEF ReaderActs, Alone, ArchiveStep, ReadStep, Archivers
<1>3. ASSUME NEW a \in Archivers, PutFails(a) PROVE ReaderActs
  <2>1. Alone(a)
    BY <1>3, PutFailsStep DEF SameTask
  <2> QED
    BY <1>3, <2>1 DEF ReaderActs, Alone, ArchiveStep, ReadStep, Archivers
<1>4. ASSUME NEW a \in Archivers, Complete(a) PROVE ReaderActs
  <2>1. Alone(a)
    BY <1>4, CompleteStep DEF SameTask
  <2> QED
    BY <1>4, <2>1 DEF ReaderActs, Alone, ArchiveStep, ReadStep, Archivers
<1>5. ASSUME NEW a \in Archivers, Clean(a) PROVE ReaderActs
  <2>1. Alone(a)
    BY <1>5, CleanStep DEF SameTask
  <2> QED
    BY <1>5, <2>1 DEF ReaderActs, Alone, ArchiveStep, ReadStep, Archivers
<1>6. ASSUME NEW a \in Archivers, Drop(a) PROVE ReaderActs
  <2>1. Alone(a)
    BY <1>6, DropStep
  <2> QED
    BY <1>6, <2>1 DEF ReaderActs, Alone, ArchiveStep, ReadStep, Archivers
<1>7. ASSUME NEW r \in Readers, Restore(r) PROVE ReaderActs
  <2>1. Alone(r)
    BY <1>7, RestoreStep
  <2> QED
    BY <1>7, <2>1 DEF ReaderActs, Alone, ArchiveStep, ReadStep, Archivers
<1>8. ASSUME NEW r \in Readers, MovesQuietly(r) PROVE ReaderActs
  <2>1. Alone(r) /\ ReadStep(r)
    BY <1>8, QuietMoves DEF ReaderMove, Order, MovesQuietly, ReadStep
  <2> QED
    BY <1>8, <2>1 DEF ReaderActs, Alone
<1>9. CASE Poll \/ PutVideo \/ SaveVideo
  BY <1>9, PollerStep DEF ReaderActs, Alone, Doing
<1>10. ASSUME NEW kind \in {"image", "video"}, Delete(kind) PROVE ReaderActs
  BY <1>10, DeleteStep DEF ReaderActs, Alone, Doing
<1>11. CASE Hide
  BY <1>11, HideStep DEF ReaderActs, Alone, Doing, NoTask
<1>12. CASE RemovePictures \/ RemoveVideo
  BY <1>12, RemoveStep DEF ReaderActs, Alone, Doing, NoTask
<1>13. CASE Migrate
  BY <1>13, MigrateStep DEF ReaderActs, Alone, Doing
<1>14. CASE MigrateNext
  BY <1>14, MigrateNextStep DEF ReaderActs, Alone, Doing
<1>15. CASE Upload
  BY <1>15, UploadStep DEF ReaderActs, Alone, Doing
<1>16. CASE Migrated \/ Recover \/ RecoverRow
  <2>1. Alone("migrator") \/ Alone("recoverer")
    BY <1>16, OtherSteps
  <2> QED
    BY <2>1 DEF ReaderActs, Alone
<1>17. CASE SwitchMedia \/ LinksExpire \/ Damage
  BY <1>17, AroundStep DEF ReaderActs, Alone, Doing
<1>18. CASE ServerDies
  BY <1>18, DiesStep DEF ReaderActs, Alone, Doing, NoTask, Archivers, Server, Commands
<1>19. CASE UNCHANGED mediaVars
  BY <1>19 DEF ReaderActs, Alone, Doing, mediaVars, rowVars, envVars, troubleVars
<1> QED
  BY <1>1, <1>2, <1>3, <1>4, <1>5, <1>6, <1>7, <1>8, <1>9, <1>10, <1>11, <1>12, <1>13, <1>14, <1>15,
     <1>16, <1>17, <1>18, <1>19 DEF MediaNext, ArchiveStep, ReadStep, MovesQuietly

TokenActs ==
    /\ image.deleted => image'.deleted
    /\ image'.token # image.token =>
          \/ \E a \in Archivers : /\ Complete(a) /\ image'.token = activity[a].token /\ activity'[a].at = "drop"
                                  /\ image.deleted => leftovers'
          \/ RemovePictures /\ image'.token = 0

LEMMA WhoChangesToken ==
  ASSUME MediaTyped, Order, [MediaNext]_mediaVars
  PROVE  TokenActs
<1> USE Distinct
<1>1. CASE Make
  BY <1>1, MakeStep DEF TokenActs
<1>2. ASSUME NEW a \in Archivers, PutPicture(a) PROVE TokenActs
  BY <1>2, PutPictureStep DEF TokenActs, SameTask
<1>3. ASSUME NEW a \in Archivers, PutFails(a) PROVE TokenActs
  BY <1>3, PutFailsStep DEF TokenActs, SameTask
<1>4. ASSUME NEW a \in Archivers, Complete(a) PROVE TokenActs
  <2>1. \/ image' = image
        \/ /\ image' = [image EXCEPT !.status = "completed", !.token = activity[a].token]
           /\ leftovers' = (leftovers \/ image.deleted) /\ activity'[a].at = "drop"
    BY <1>4, CompleteStep
  <2>2. CASE image' = image
    BY <2>2 DEF TokenActs
  <2>3. CASE /\ image' = [image EXCEPT !.status = "completed", !.token = activity[a].token]
             /\ leftovers' = (leftovers \/ image.deleted) /\ activity'[a].at = "drop"
    <3>1. image'.token = activity[a].token /\ image'.deleted = image.deleted
      BY <2>3 DEF MediaTyped, RowsTyped
    <3>2. image.deleted => leftovers'
      BY <2>3
    <3> QED
      BY <1>4, <2>3, <3>1, <3>2 DEF TokenActs
  <2> QED
    BY <2>1, <2>2, <2>3
<1>5. ASSUME NEW a \in Archivers, Clean(a) PROVE TokenActs
  BY <1>5, CleanStep DEF TokenActs, MediaTyped, RowsTyped
<1>6. ASSUME NEW a \in Archivers, Drop(a) PROVE TokenActs
  BY <1>6, DropStep DEF TokenActs, NoTask
<1>7. ASSUME NEW r \in Readers, Restore(r) PROVE TokenActs
  BY <1>7, RestoreStep DEF TokenActs
<1>8. ASSUME NEW r \in Readers, MovesQuietly(r) PROVE TokenActs
  BY <1>8, QuietMoves DEF TokenActs, ReaderMove, Order
<1>9. CASE Poll \/ PutVideo \/ SaveVideo
  BY <1>9, PollerStep DEF TokenActs
<1>10. ASSUME NEW kind \in {"image", "video"}, Delete(kind) PROVE TokenActs
  BY <1>10, DeleteStep DEF TokenActs
<1>11. CASE Hide
  BY <1>11, HideStep DEF TokenActs, MediaTyped, RowsTyped
<1>12. CASE RemovePictures \/ RemoveVideo
  <2>1. CASE RemovePictures
    BY <2>1 DEF RemovePictures, TokenActs, MediaTyped, RowsTyped
  <2>2. CASE RemoveVideo
    BY <2>2 DEF RemoveVideo, rowVars, TokenActs
  <2> QED
    BY <1>12, <2>1, <2>2
<1>13. CASE Migrate
  BY <1>13, MigrateStep DEF TokenActs
<1>14. CASE MigrateNext
  BY <1>14, MigrateNextStep DEF TokenActs
<1>15. CASE Upload
  BY <1>15, UploadStep DEF TokenActs
<1>16. CASE Migrated \/ Recover \/ RecoverRow
  BY <1>16, OtherSteps DEF TokenActs, NoTask
<1>17. CASE SwitchMedia \/ LinksExpire \/ Damage
  BY <1>17, AroundStep DEF TokenActs
<1>18. CASE ServerDies
  BY <1>18, DiesStep DEF TokenActs, NoTask, Archivers, Server, Commands
<1>19. CASE UNCHANGED mediaVars
  BY <1>19 DEF TokenActs, mediaVars, rowVars, envVars, troubleVars
<1> QED
  BY <1>1, <1>2, <1>3, <1>4, <1>5, <1>6, <1>7, <1>8, <1>9, <1>10, <1>11, <1>12, <1>13, <1>14, <1>15,
     <1>16, <1>17, <1>18, <1>19 DEF MediaNext, ArchiveStep, ReadStep, MovesQuietly

LEMMA PicturesStay ==
  ASSUME MediaTyped, Order, [MediaNext]_mediaVars, ~leftovers', trouble' = trouble,
         NEW t \in Tokens, NEW i \in Pictures, NEW s \in Stores,
         \A a \in Archivers : Clean(a) => t # activity[a].token,
         \A a \in Archivers : Drop(a) => t # activity[a].old,
         RemovePictures => t # image.token
  PROVE  files'[s][Picture(t, i)] = files[s][Picture(t, i)] \/ PutNow(s, Picture(t, i))
<1> SUFFICES ASSUME files'[s][Picture(t, i)] # files[s][Picture(t, i)] PROVE PutNow(s, Picture(t, i))
  OBVIOUS
<1> DEFINE n == Picture(t, i)
<1>1. n \in Names /\ n # VideoName
  BY FileNames
<1>2. Changed(s, n)
  BY <1>1, WhoChanges
<1>3. ~BrokenNow(s, n) /\ ~VideoNow(s, n)
  BY <1>1 DEF BrokenNow, VideoNow
<1>4. ~UploadNow(s, n)
  BY UploadStep DEF UploadNow
<1>5. ~(n \in damaged' /\ (leftovers' \/ (trouble' = trouble + 1 /\ files[s][n] = "whole")))
  <2>1. trouble \in Nat
    BY DEF MediaTyped, RowsTyped
  <2> QED
    BY <2>1
<1>6. ~GoneNow(s, n)
  <2>1. ASSUME NEW a \in Archivers, Clean(a) PROVE n \notin PutSoFar(a)
    BY <2>1, FileNames DEF PutSoFar
  <2>2. ASSUME NEW a \in Archivers, Drop(a) PROVE n \notin FilesOf(activity[a].old)
    BY <2>2, FileNames DEF FilesOf, PicturesOf
  <2>3. RemovePictures => n \notin FilesOf(image.token)
    BY FileNames DEF FilesOf, PicturesOf
  <2> QED
    BY <1>1, <2>1, <2>2, <2>3 DEF GoneNow
<1> QED
  BY <1>2, <1>3, <1>4, <1>5, <1>6 DEF Changed

LEMMA StoredStays ==
  ASSUME MediaTyped, Order, [MediaNext]_mediaVars, MediaTyped', ~leftovers', trouble' = trouble,
         ~RemovePictures, image'.token = image.token
  PROVE  Stored' <=> Stored
<1>1. media' = media /\ media \in {"local", "webdav", "both"}
  BY LeftoversStay DEF LeftBehind, MediaTyped, RowsTyped
<1>2. CASE image.token = 0
  BY <1>2 DEF Stored
<1>3. CASE image.token # 0
  <2>1. image.token \in Tokens
    BY <1>3 DEF MediaTyped, RowsTyped
  <2>2. \A a \in Archivers : Clean(a) => image.token # activity[a].token
    BY DEF Order, TokensFresh, Writes, Clean
  <2>3. \A a \in Archivers : Drop(a) => image.token # activity[a].old
    BY <1>3 DEF Order, TokensFresh, Drop
  <2>4. ASSUME NEW i \in Pictures, NEW s \in Stores
        PROVE  files'[s][Picture(image.token, i)] = files[s][Picture(image.token, i)]
    <3>1. ~PutNow(s, Picture(image.token, i))
      <4>1. ASSUME NEW a \in Archivers, PutPicture(a) PROVE image.token # activity[a].token
        BY <4>1 DEF Order, TokensFresh, Writes, PutPicture
      <4> QED
        BY <4>1, FileNames DEF PutNow
    <3> QED
      BY <2>1, <2>2, <2>3, <3>1, PicturesStay
  <2>5. \A i \in Pictures : Found(Picture(image.token, i))' = Found(Picture(image.token, i))
    <3> SUFFICES ASSUME NEW i \in Pictures
                 PROVE  Sees(media', files', Picture(image'.token, i)) = Sees(media, files, Picture(image.token, i))
      BY <1>1, StackIs, StackIsNext
    <3> QED
      BY <1>1, <2>4 DEF Sees, PrimaryOf, Stores
  <2> QED
    BY <2>5 DEF Stored
<1> QED
  BY <1>2, <1>3

LEMMA StoredUnchanged ==
  ASSUME MediaTyped, UNCHANGED <<media, files, image>>
  PROVE  Stored' <=> Stored
<1>1. media \in {"local", "webdav", "both"}
  BY DEF MediaTyped, RowsTyped
<1>2. \A name : Found(name)' = Found(name)
  BY <1>1, StackIs, StackIsNext
<1>3. \A i \in Pictures : Found(Picture(image.token, i))' = Found(Picture(image.token, i))
  BY <1>1, StackIs, StackIsNext
<1> QED
  BY <1>3 DEF Stored

\* A step of the reader's own keeps its time, unless it is the first.
LEMMA SinceKept ==
  ASSUME MediaTyped, Order, NEW r \in Readers, ReadStep(r) \/ ArchiveStep(r), ~Doing(r, "idle")'
  PROVE  \/ Read(r) /\ activity'[r].since = trouble
         \/ /\ ~Doing(r, "idle") /\ activity'[r].since = activity[r].since
            /\ activity'[r].kind = activity[r].kind
<1> USE Distinct
<1>1. CASE ArchiveStep(r)
  <2>1. CASE PutPicture(r) \/ PutFails(r) \/ Complete(r)
    BY <2>1, PutPictureStep, PutFailsStep, CompleteStep DEF SameTask, Doing
  <2>2. CASE Clean(r)
    BY <2>2, CleanStep DEF SameTask, Doing
  <2>3. CASE Drop(r)
    BY <2>3, DropStep DEF Doing
  <2> QED
    BY <1>1, <2>1, <2>2, <2>3 DEF ArchiveStep
<1>2. CASE Read(r)
  BY <1>2, ReadEffect
<1>3. CASE LookUp(r)
  BY <1>3, LookUpEffect DEF Doing
<1>4. CASE Open(r)
  BY <1>4, OpenEffect DEF Doing, SameTask, NoTask
<1>5. CASE LookAgain(r)
  BY <1>5, LookAgainEffect DEF Doing
<1>6. CASE Restore(r)
  BY <1>6, RestoreStep DEF Doing
<1>7. CASE GiveUp(r) \/ Remote(r) \/ Refuse(r)
  BY <1>7, LeaveEffect DEF Doing, SameTask, NoTask
<1> QED
  BY <1>1, <1>2, <1>3, <1>4, <1>5, <1>6, <1>7 DEF ReadStep

LEMMA SinceStep ==
  ASSUME MediaTyped, Order, SinceOK, [MediaNext]_mediaVars
  PROVE  SinceOK'
<1> SUFFICES ASSUME NEW r \in Readers, ~Doing(r, "idle")' PROVE activity'[r].since <= trouble'
  BY DEF SinceOK
<1>1. trouble \in Nat /\ trouble' \in {trouble, trouble + 1}
  BY TroubleGrows DEF TroubleIs, MediaTyped, RowsTyped
<1>2. CASE activity'[r] = activity[r]
  <2>1. activity[r].since <= trouble /\ activity[r].since \in Nat
    BY <1>2, ArchiverIs, Distinct DEF SinceOK, Doing, MediaTyped
  <2> QED
    BY <1>1, <1>2, <2>1
<1>3. CASE ReadStep(r) \/ ArchiveStep(r)
  <2>1. CASE activity'[r].since = trouble
    BY <1>1, <2>1
  <2>2. CASE ~Doing(r, "idle") /\ activity'[r].since = activity[r].since
    <3>1. activity[r].since <= trouble /\ activity[r].since \in Nat
      BY <2>2, ArchiverIs, Distinct DEF SinceOK, Doing, MediaTyped
    <3> QED
      BY <1>1, <2>2, <3>1
  <2> QED
    BY <1>3, <2>1, <2>2, SinceKept
<1> QED
  BY <1>2, <1>3, WhoReads DEF ReaderActs, Doing, NoTask

\* A reader that is undisturbed after a step was so before, or has just come.
LEMMA StillUndisturbed ==
  ASSUME MediaTyped, Order, SinceOK, [MediaNext]_mediaVars, NEW r \in Readers, Undisturbed(r)'
  PROVE  /\ trouble' = trouble /\ ~leftovers' /\ ~leftovers /\ media' = media
         /\ Undisturbed(r) \/ Read(r)
<1>1. trouble \in Nat /\ trouble' \in {trouble, trouble + 1}
  BY TroubleGrows DEF TroubleIs, MediaTyped, RowsTyped
<1>2. ~leftovers' /\ ~Doing(r, "idle")' /\ activity'[r].since = trouble' /\ activity'[r].kind = "image"
  BY DEF Undisturbed
<1>3. ~leftovers /\ media' = media
  BY <1>2, LeftoversStay DEF LeftBehind
<1>4. \/ Read(r) /\ activity'[r].since = trouble
      \/ /\ ~Doing(r, "idle") /\ activity'[r].since = activity[r].since
         /\ activity'[r].kind = activity[r].kind
  <2>1. CASE activity'[r] = activity[r]
    BY <1>2, <2>1 DEF Doing
  <2>2. CASE ReadStep(r) \/ ArchiveStep(r)
    BY <1>2, <2>2, SinceKept
  <2> QED
    BY <1>2, <2>1, <2>2, WhoReads DEF ReaderActs, Doing, NoTask
<1>5. CASE Read(r) /\ activity'[r].since = trouble
  BY <1>2, <1>3, <1>5
<1>6. CASE /\ ~Doing(r, "idle") /\ activity'[r].since = activity[r].since
           /\ activity'[r].kind = activity[r].kind
  <2>1. activity[r].since <= trouble /\ activity[r].since \in Nat
    BY <1>6, ArchiverIs, Distinct DEF SinceOK, Doing, MediaTyped
  <2>2. trouble' = trouble
    BY <1>1, <1>2, <1>6, <2>1
  <2>3. Undisturbed(r)
    BY <1>2, <1>3, <1>6, <2>2 DEF Undisturbed
  <2> QED
    BY <1>2, <1>3, <2>2, <2>3
<1> QED
  BY <1>4, <1>5, <1>6

\* The pictures that a reader has put stay, while it goes on putting.
LEMMA PutStays ==
  ASSUME MediaTyped, Order, [MediaNext]_mediaVars, ~leftovers', trouble' = trouble,
         NEW r \in Readers, Doing(r, "put"), NEW i \in Pictures, files[Primary][Picture(activity[r].token, i)] = "whole"
  PROVE  files'[Primary][Picture(activity[r].token, i)] = "whole"
<1>1. activity[r].token \in Tokens /\ Writes(r) /\ Archives(r) /\ r \in Archivers
  BY Distinct DEF MediaTyped, ActivityTyped, Writes, Archives
<1>2. ASSUME NEW a \in Archivers, Clean(a) PROVE activity[r].token # activity[a].token
  <2>1. a # r /\ Writes(a)
    BY <1>2 DEF Clean, Doing, Writes
  <2> QED
    BY <1>1, <2>1, Exclusive, Distinct DEF Order
<1>3. ASSUME NEW a \in Archivers, Drop(a) PROVE activity[r].token # activity[a].old
  <2>1. a # r /\ Archives(a)
    BY <1>3 DEF Drop, Doing, Archives
  <2> QED
    BY <1>1, <2>1, Exclusive, MediaConstants DEF Order
<1>4. ~RemovePictures
  BY <1>1, MediaConstants DEF RemovePictures, Order, OneArchives
<1>5. Primary \in Stores
  BY PrimaryInReach DEF MediaTyped, RowsTyped
<1> QED
  BY <1>1, <1>2, <1>3, <1>4, <1>5, PicturesStay DEF PutNow

LEMMA ArchiverIsNext ==
  ASSUME MediaTyped', NEW a \in Archivers, activity'[a].at # "idle"
  PROVE  activity'[a].next \in Nat \ {0}
BY DEF MediaTyped, ActivityTyped, ArchiveTasks, NoTask

\* A reader starts to put only after it has seen that the pictures are not there,
\* unless a store did not tell.
LEMMA StartsPutting ==
  ASSUME MediaTyped, Order, [MediaNext]_mediaVars, trouble' = trouble,
         NEW b \in Readers, Doing(b, "put")', ~Doing(b, "put")
  PROVE  ~Stored
<1>1. activity'[b] # activity[b] /\ activity'[b] # NoTask
  BY DEF Doing, NoTask
<1>2. CASE ArchiveStep(b)
  <2>1. CASE PutPicture(b) \/ PutFails(b) \/ Complete(b)
    BY <2>1, Distinct, PutPictureStep, PutFailsStep, CompleteStep DEF Doing
  <2>2. CASE Clean(b)
    BY <2>2, Distinct, CleanStep DEF Doing
  <2>3. CASE Drop(b)
    BY <2>3, Distinct, DropStep DEF Doing
  <2> QED
    BY <1>2, <2>1, <2>2, <2>3 DEF ArchiveStep
<1>3. CASE ReadStep(b)
  <2>1. CASE Restore(b)
    <3>1. trouble \in Nat
      BY DEF MediaTyped, RowsTyped
    <3> QED
      BY <2>1, <3>1, RestoreStep
  <2>2. CASE MovesQuietly(b)
    BY <2>2, QuietMoves DEF ReaderMove, Archives, Writes, Doing, Order
  <2> QED
    BY <1>3, <2>1, <2>2 DEF ReadStep, MovesQuietly
<1> QED
  BY <1>1, <1>2, <1>3, WhoReads DEF ReaderActs

\* While no reader completes a completed work, its pictures stay stored or not,
\* or it is erased.
LEMMA NobodyCompletes ==
  ASSUME MediaTyped, Order, [MediaNext]_mediaVars, MediaTyped', ~leftovers', trouble' = trouble,
         image.status = "completed", \A a \in Readers : ~Complete(a)
  PROVE  \/ ~RemovePictures /\ image'.token = image.token /\ (Stored' <=> Stored)
         \/ RemovePictures /\ Erased' /\ ~Stored'
<1>1. \A a \in Archivers : ~Complete(a)
  <2>1. ~Doing("maker", "put")
    BY DEF Order, OneArchives, Writes
  <2> QED
    BY <2>1 DEF Archivers, Complete
<1>2. CASE RemovePictures
  <2>1. image'.token = 0 /\ image.deleted
    BY <1>2 DEF RemovePictures, Order, DeletionOrder, Row, MediaTyped, RowsTyped
  <2>2. image'.deleted
    BY <2>1, WhoChangesToken DEF TokenActs
  <2> QED
    BY <1>2, <2>1, <2>2 DEF Erased, Stored
<1>3. CASE ~RemovePictures
  <2>1. image'.token = image.token
    BY <1>1, <1>3, WhoChangesToken DEF TokenActs
  <2> QED
    BY <1>3, <2>1, StoredStays
<1> QED
  BY <1>2, <1>3

LEMMA ErasedStays ==
  ASSUME MediaTyped, Order, [MediaNext]_mediaVars, MediaTyped', ~leftovers', Erased
  PROVE  Erased'
<1>1. image.deleted /\ image.token = 0
  BY DEF Erased
<1>2. image'.deleted /\ image'.token = 0
  BY <1>1, WhoChangesToken DEF TokenActs
<1> QED
  BY <1>2 DEF Erased

LEMMA OthersShow ==
  ASSUME MediaTyped, Order, Served, [MediaNext]_mediaVars, MediaTyped', Order',
         NEW r \in Readers, activity'[r] = activity[r], Undisturbed(r)'
  PROVE  Shown(r)'
<1> USE Distinct
<1>1. trouble' = trouble /\ ~leftovers' /\ ~leftovers /\ media' = media
  BY StillUndisturbed DEF Served
<1>2. Undisturbed(r) /\ Shown(r) /\ image.status = "completed"
  <2>1. ~Read(r)
    BY ReadEffect DEF Undisturbed, Doing
  <2>2. Undisturbed(r)
    BY <2>1, StillUndisturbed DEF Served
  <2> QED
    BY <2>2 DEF Served, Order, OneArchives, Undisturbed
<1>3. ~Complete(r) /\ Primary' = Primary
  <2>1. ~Complete(r)
    BY CompleteStep DEF Complete, Doing
  <2> QED
    BY <1>1, <2>1, StackIs, StackIsNext DEF MediaTyped, RowsTyped
<1>4. Archives(r) => ~RemovePictures /\ image'.token = image.token /\ (Stored' <=> Stored)
  <2> SUFFICES ASSUME Archives(r)
               PROVE  ~RemovePictures /\ image'.token = image.token /\ (Stored' <=> Stored)
    OBVIOUS
  <2>1. lock = r
    BY DEF Order, OneArchives
  <2>2. ~RemovePictures
    BY <2>1, MediaConstants DEF RemovePictures
  <2>3. \A a \in Readers : ~Complete(a)
    BY <1>3, <2>1 DEF Complete, Order, OneArchives, Archives, Writes
  <2> QED
    BY <1>1, <1>2, <2>2, <2>3, NobodyCompletes
<1>5. Writes(r)' => ~Stored'
  BY <1>2, <1>4 DEF Shown, Archives, Writes, Doing
<1>6. ASSUME Doing(r, "put")', NEW i \in Pictures, i < activity'[r].next
      PROVE  files'[Primary'][Picture(activity'[r].token, i)] = "whole"
  <2>1. Doing(r, "put") /\ files[Primary][Picture(activity[r].token, i)] = "whole"
    BY <1>2, <1>6 DEF Shown, Doing
  <2> QED
    BY <1>1, <1>3, <2>1, PutStays
<1>7. ~linked => ~linked'
  BY TroubleGrows DEF SwitchedOff
<1>8. Doing(r, "clean")' => ~linked'
  BY <1>2, <1>7 DEF Shown, Doing
<1>9. Doing(r, "drop")' => Stored'
  BY <1>2, <1>4 DEF Shown, Archives, Doing
<1>10. ASSUME ~activity'[r].again, Doing(r, "remote")' \/ Doing(r, "refused")'
       PROVE  ~Stored' /\ ~linked' /\ \A b \in Readers : Doing(b, "put")' => activity'[b].next = 1
  <2>1. ~Stored /\ ~linked /\ \A b \in Readers : Doing(b, "put") => activity[b].next = 1
    BY <1>2, <1>10 DEF Shown, Doing
  <2>2. \A a \in Readers : ~Complete(a)
    BY <2>1, MediaConstants DEF Complete
  <2>3. ~Stored'
    BY <1>1, <1>2, <2>1, <2>2, NobodyCompletes
  <2>4. ASSUME NEW b \in Readers, Doing(b, "put")' PROVE activity'[b].next = 1
    <3>1. activity'[b].next \in Nat \ {0} /\ 1 \in Pictures
      BY <2>4, ArchiverIsNext, MediaConstants DEF Doing
    <3>2. ~PutPicture(b)
      BY <2>1 DEF PutPicture
    <3>3. ~(1 < activity'[b].next)
      BY <2>1, <2>4, <3>1, <3>2, WhoPuts DEF PutsOn
    <3> QED
      BY <3>1, <3>3
  <2> QED
    BY <1>7, <2>1, <2>3, <2>4
<1>11. ASSUME activity'[r].again, Doing(r, "row")' \/ Doing(r, "open")'
       PROVE  /\ Erased' \/ (Stored' /\ \A b \in Readers : ~Doing(b, "put")')
              /\ Doing(r, "open")' => Erased' \/ activity'[r].token = image'.token
  <2>1. CASE Erased
    BY <1>1, <2>1, ErasedStays
  <2>2. CASE ~Erased /\ Stored /\ \A b \in Readers : ~Doing(b, "put")
    <3>1. \A a \in Readers : ~Complete(a)
      BY <2>2 DEF Complete
    <3>2. \A b \in Readers : ~Doing(b, "put")'
      BY <1>1, <2>2, StartsPutting
    <3>3. Doing(r, "open")' => activity'[r].token = image.token
      BY <1>2, <1>11, <2>2 DEF Shown, Doing
    <3> QED
      BY <1>1, <1>2, <2>2, <3>1, <3>2, <3>3, NobodyCompletes
  <2> QED
    BY <1>2, <1>11, <2>1, <2>2 DEF Shown, Doing
<1>12. ASSUME activity'[r].again, Doing(r, "gone")' \/ Doing(r, "remote")' \/ Doing(r, "refused")'
       PROVE  Erased'
  <2>1. Erased
    BY <1>2, <1>12 DEF Shown, Doing
  <2> QED
    BY <1>1, <2>1, ErasedStays
<1> QED
  BY <1>5, <1>6, <1>8, <1>9, <1>10, <1>11, <1>12 DEF Shown

LEMMA ArchiverShows ==
  ASSUME MediaTyped, Order, Served, [MediaNext]_mediaVars, MediaTyped', Order',
         NEW r \in Readers, ArchiveStep(r), Undisturbed(r)'
  PROVE  Shown(r)'
<1> USE Distinct
<1>1. trouble' = trouble /\ ~leftovers' /\ ~leftovers /\ media' = media
  BY StillUndisturbed DEF Served
<1>2. Undisturbed(r) /\ Shown(r) /\ image.status = "completed"
  <2>1. ~Read(r)
    BY ReadEffect DEF ArchiveStep, PutPicture, PutFails, Complete, Clean, Drop, Doing
  <2>2. Undisturbed(r)
    BY <2>1, StillUndisturbed DEF Served
  <2> QED
    BY <2>2 DEF Served, Order, OneArchives, Undisturbed
<1>3. Archives(r) /\ lock = r /\ activity[r].kind = "image" /\ ~activity[r].again
  <2>1. Archives(r)
    BY DEF ArchiveStep, PutPicture, PutFails, Complete, Clean, Drop, Archives, Writes
  <2> QED
    BY <2>1 DEF Order, OneArchives
<1>4. ~RemovePictures
  BY <1>3, MediaConstants DEF RemovePictures
<1>5. /\ \A b \in Readers \ {r} : ~Archives(b) /\ ~Complete(b)
      /\ Primary' = Primary /\ Primary \in Stores /\ trouble \in Nat
  <2>1. \A b \in Readers \ {r} : ~Archives(b)
    BY <1>3 DEF Order, OneArchives
  <2>2. \A b \in Readers \ {r} : ~Complete(b)
    BY <2>1 DEF Complete, Archives, Writes
  <2> QED
    BY <1>1, <2>1, <2>2, StackIs, StackIsNext, PrimaryInReach DEF MediaTyped, RowsTyped
<1>6. ~Complete(r) => image'.token = image.token /\ (Stored' <=> Stored)
  BY <1>1, <1>2, <1>4, <1>5, NobodyCompletes
<1>7. CASE PutPicture(r)
  <2>1. /\ activity[r].at = "put" /\ activity'[r].at = "put" /\ activity'[r].next = activity[r].next + 1
        /\ activity'[r].token = activity[r].token /\ ~activity'[r].again
        /\ activity[r].next \in Pictures /\ activity[r].token \in Tokens
        /\ PutAt(Primary, Picture(activity[r].token, activity[r].next))
    BY <1>3, <1>7, PutPictureStep DEF SameTask
  <2>2. ~Stored'
    BY <1>2, <1>6, <1>7, <2>1 DEF Shown, Writes, Doing, Complete
  <2>3. ASSUME NEW i \in Pictures, i < activity[r].next + 1
        PROVE  files'[Primary][Picture(activity[r].token, i)] = "whole"
    <3>1. i < activity[r].next \/ i = activity[r].next
      BY <2>1, <2>3, MediaConstants
    <3>2. CASE i < activity[r].next
      BY <1>1, <1>2, <2>1, <3>2, PutStays DEF Shown, Doing
    <3>3. CASE i = activity[r].next
      BY <1>5, <2>1, <3>3, PutEffect, FileNames DEF MediaTyped, RowsTyped, FilesTyped
    <3> QED
      BY <3>1, <3>2, <3>3
  <2> QED
    BY <1>5, <2>1, <2>2, <2>3 DEF Shown, Writes, Doing
<1>8. CASE PutFails(r)
  <2>1. activity[r].at = "put" /\ activity'[r].at = "clean" /\ ~activity'[r].again /\ ~linked /\ linked' = linked
    BY <1>1, <1>3, <1>5, <1>8, PutFailsStep DEF SameTask
  <2>2. ~Stored'
    BY <1>2, <1>6, <1>8, <2>1, PutFailsStep, CompleteStep DEF Shown, Writes, Doing, Complete, PutFails
  <2> QED
    BY <2>1, <2>2 DEF Shown, Writes, Doing
<1>9. CASE Complete(r)
  <2>1. /\ activity[r].at = "put" /\ activity'[r].at = "drop" /\ ~activity'[r].again
        /\ activity[r].token \in Tokens /\ files' = files /\ \A i \in Pictures : i < activity[r].next
        /\ image' = [image EXCEPT !.status = "completed", !.token = activity[r].token]
    <3>1. /\ activity'[r].at = "drop"
          /\ image' = [image EXCEPT !.status = "completed", !.token = activity[r].token]
      <4>1. ~(trouble' = trouble + 1)
        BY <1>1, <1>5
      <4>2. \/ /\ activity'[r].at = "drop"
               /\ image' = [image EXCEPT !.status = "completed", !.token = activity[r].token]
            \/ trouble' = trouble + 1
        BY <1>9, CompleteStep
      <4> QED
        BY <4>1, <4>2
    <3>2. ~activity'[r].again
      BY <1>3, <1>9, CompleteStep DEF SameTask
    <3> QED
      BY <1>9, <3>1, <3>2, CompleteStep
  <2>2. image'.token = activity[r].token /\ image'.token # 0
    BY <2>1, MediaConstants DEF MediaTyped, RowsTyped
  <2>3. ASSUME NEW i \in Pictures PROVE Found(Picture(image.token, i))' = "whole"
    <3>1. files[Primary][Picture(activity[r].token, i)] = "whole"
      BY <1>2, <2>1 DEF Shown, Doing
    <3>2. Sees(media', files', Picture(image'.token, i)) = "whole"
      BY <1>1, <2>1, <2>2, <3>1, StackIs DEF Sees, PrimaryOf, MediaTyped, RowsTyped
    <3> QED
      BY <3>2, StackIsNext DEF MediaTyped, RowsTyped
  <2>4. Stored'
    BY <2>2, <2>3 DEF Stored
  <2> QED
    BY <2>1, <2>4 DEF Shown, Writes, Doing
<1>10. CASE Clean(r)
  <2>1. /\ activity[r].at = "clean" /\ activity'[r].at = "remote" /\ ~activity'[r].again /\ linked' = linked
        /\ Alone(r)
    BY <1>3, <1>10, CleanStep, MediaConstants DEF SameTask
  <2>2. ~Stored' /\ ~linked'
    BY <1>2, <1>6, <2>1 DEF Shown, Writes, Doing, Complete
  <2>3. \A b \in Readers : ~Doing(b, "put")'
    BY <1>5, <2>1 DEF Alone, Archives, Writes, Doing
  <2> QED
    BY <2>1, <2>2, <2>3 DEF Shown, Writes, Doing
<1>11. CASE Drop(r)
  <2>1. activity[r].at = "drop" /\ activity'[r].at = "row" /\ Alone(r)
    BY <1>11, DropStep, MediaConstants
  <2>2. Stored'
    BY <1>2, <1>6, <2>1 DEF Shown, Doing, Complete
  <2>3. \A b \in Readers : ~Doing(b, "put")'
    BY <1>5, <2>1 DEF Alone, Archives, Writes, Doing
  <2> QED
    BY <2>1, <2>2, <2>3 DEF Shown, Writes, Doing
<1> QED
  BY <1>7, <1>8, <1>9, <1>10, <1>11 DEF ArchiveStep

LEMMA ReaderShows ==
  ASSUME MediaTyped, Order, Served, [MediaNext]_mediaVars, MediaTyped', Order',
         NEW r \in Readers, ReadStep(r), Undisturbed(r)'
  PROVE  Shown(r)'
<1> USE Distinct
<1>1. trouble' = trouble /\ ~leftovers' /\ ~leftovers /\ media' = media /\ trouble \in Nat
  BY StillUndisturbed DEF Served, MediaTyped, RowsTyped
<1>2. ~Read(r) => Undisturbed(r) /\ Shown(r)
  BY StillUndisturbed DEF Served
<1>3. CASE Restore(r)
  <2>1. \A i \in Pictures : ~(i < 1)
    BY MediaConstants
  <2>2. ~Stored'
    BY <1>1, <1>3, RestoreStep, StoredUnchanged
  <2> QED
    BY <1>3, <2>1, <2>2, RestoreStep DEF Shown, Writes, Doing
<1>4. CASE MovesQuietly(r)
  <2>1. UNCHANGED <<media, files, image, linked>> /\ (Stored' <=> Stored) /\ (Erased' <=> Erased)
    BY <1>4, QuietMoves, StoredUnchanged DEF ReaderMove, Order, Erased
  <2>2. Alone(r) /\ ~Archives(r)'
    BY <1>4, QuietMoves DEF ReaderMove, Order
  <2>3. \A b \in Readers : Doing(b, "put")' => Doing(b, "put") /\ activity'[b].next = activity[b].next
    BY <2>2 DEF Alone, Archives, Writes, Doing
  <2>4. CASE Read(r)
    <3>1. activity'[r].at = "row" /\ ~activity'[r].again
      BY <2>4, ReadEffect
    <3> QED
      BY <3>1 DEF Shown, Writes, Doing
  <2>5. CASE LookUp(r)
    <3>1. /\ activity[r].at = "row" /\ activity[r].kind = "image" /\ activity'[r].again = activity[r].again
          /\ activity'[r].token = image.token
          /\ activity'[r].at = IF image.token # 0 THEN "open" ELSE "gone"
      BY <2>5, LookUpEffect DEF Undisturbed, Doing
    <3>2. Shown(r)
      BY <1>2, <3>1, ReadEffect DEF Doing
    <3>3. activity[r].again => Erased \/ (Stored /\ \A b \in Readers : ~Doing(b, "put"))
      BY <3>1, <3>2 DEF Shown, Doing
    <3>4. Stored => image.token # 0
      BY DEF Stored
    <3>5. image'.token = image.token
      BY <2>1
    <3>6. CASE activity'[r].at = "open"
      BY <2>1, <2>3, <3>1, <3>3, <3>5, <3>6 DEF Shown, Writes, Doing
    <3>7. CASE activity'[r].at = "gone"
      BY <2>1, <3>1, <3>3, <3>4, <3>7 DEF Shown, Writes, Doing
    <3> QED
      BY <3>1, <3>6, <3>7
  <2>6. CASE Open(r)
    <3>1. /\ activity[r].at = "open" /\ activity'[r].at = "gone" /\ SameTask(r)
          /\ Found(NameFor(r)) # "whole"
      BY <1>1, <2>6, OpenEffect DEF Undisturbed, Doing, NoTask
    <3>2. Shown(r) /\ activity[r].kind = "image"
      BY <1>2, <3>1, ReadEffect DEF Doing, Undisturbed
    <3>3. activity[r].again => Erased
      <4> SUFFICES ASSUME activity[r].again, ~Erased PROVE FALSE
        OBVIOUS
      <4>1. Stored /\ activity[r].token = image.token
        BY <3>1, <3>2 DEF Shown, Doing
      <4>2. activity[r].i \in Pictures
        BY <3>1, ArchiverIs DEF MediaTyped
      <4>3. Found(NameFor(r)) = "whole"
        BY <3>2, <4>1, <4>2 DEF Stored, NameFor
      <4> QED
        BY <3>1, <4>3
    <3> QED
      BY <2>1, <3>1, <3>3 DEF Shown, Writes, Doing, SameTask
  <2>7. CASE LookAgain(r)
    <3>1. activity'[r].at = "row" /\ activity'[r].again = TRUE /\ Stored /\ lock = "free"
      BY <2>7, LookAgainEffect
    <3>2. \A b \in Readers : ~Doing(b, "put")
      BY <3>1, MediaConstants DEF Order, OneArchives, Archives, Writes
    <3> QED
      BY <2>1, <2>3, <3>1, <3>2 DEF Shown, Writes, Doing
  <2>8. CASE GiveUp(r) \/ Remote(r) \/ Refuse(r)
    <3>1. SameTask(r) /\ activity'[r].kind = "image" /\ activity[r].kind = "image"
      BY <2>8, LeaveEffect DEF Undisturbed, SameTask, Doing, NoTask
    <3>2. /\ ~Doing(r, "idle")
          /\ \/ activity[r].at = "gone" /\ activity'[r].at = "remote" /\ activity[r].again
             \/ activity[r].at = "remote" /\ activity'[r].at = "refused"
      BY <1>1, <2>8, <3>1, LeaveEffect DEF Undisturbed, Doing, NoTask
    <3>3. Shown(r) /\ activity'[r].again = activity[r].again
      BY <1>2, <3>1, <3>2, ReadEffect DEF SameTask
    <3>4. CASE activity[r].again
      <4>1. Erased
        BY <3>2, <3>3, <3>4 DEF Shown, Doing
      <4> QED
        BY <2>1, <3>2, <3>3, <3>4, <4>1 DEF Shown, Writes, Doing
    <3>5. CASE ~activity[r].again
      <4>1. ~Stored /\ ~linked /\ \A b \in Readers : Doing(b, "put") => activity[b].next = 1
        BY <3>2, <3>3, <3>5 DEF Shown, Doing
      <4> QED
        BY <2>1, <2>3, <3>2, <3>3, <3>5, <4>1 DEF Shown, Writes, Doing
    <3> QED
      BY <3>4, <3>5
  <2> QED
    BY <1>4, <2>4, <2>5, <2>6, <2>7, <2>8 DEF MovesQuietly
<1> QED
  BY <1>3, <1>4 DEF ReadStep, MovesQuietly

LEMMA StepServed == MediaTyped /\ Order /\ Served /\ [MediaNext]_mediaVars => Served'
<1> SUFFICES ASSUME MediaTyped, Order, Served, [MediaNext]_mediaVars PROVE Served'
  OBVIOUS
<1>1. MediaTyped' /\ Order' /\ SinceOK'
  BY StepTyped, StepOrder, SinceStep DEF Served
<1>2. ASSUME NEW r \in Readers, Undisturbed(r)' PROVE Shown(r)'
  <2>1. activity'[r] = activity[r] \/ ReadStep(r) \/ ArchiveStep(r)
    BY <1>2, WhoReads DEF ReaderActs, Undisturbed, Doing, NoTask
  <2> QED
    BY <1>1, <1>2, <2>1, OthersShow, ArchiverShows, ReaderShows
<1> QED
  BY <1>1, <1>2 DEF Served

LEMMA InitServed == MediaInit => Served
BY Distinct DEF MediaInit, Served, SinceOK, Undisturbed, Doing, NoTask

\* OpenJobContent refuses a reader of pictures that nothing disturbed only if there is nothing
\* to show: when they were archived anew while it looked, it finds them under the new token.
THEOREM ReadersSeeWhatIsThere == MediaSpec => []ReadersAreServed
<1>1. MediaInit => MediaTyped /\ Order /\ Served
  BY InitTyped, InitOrder, InitServed
<1>2. MediaTyped /\ Order /\ Served /\ [MediaNext]_mediaVars => (MediaTyped /\ Order /\ Served)'
  BY StepTyped, StepOrder, StepServed
<1>3. ASSUME MediaTyped, Served PROVE ReadersAreServed
  <2> SUFFICES ASSUME NEW r \in Readers, Doing(r, "refused"), activity[r].kind = "image",
                      activity[r].since = trouble, ~leftovers, Stored
               PROVE  FALSE
    BY DEF ReadersAreServed
  <2>1. Undisturbed(r)
    BY DEF Undisturbed, Doing
  <2>2. Shown(r)
    BY <1>3, <2>1 DEF Served
  <2>3. activity[r].again => image.token = 0
    BY <2>2 DEF Shown, Doing, Erased
  <2> QED
    BY <2>2, <2>3 DEF Shown, Doing, Stored
<1> QED
  BY <1>1, <1>2, <1>3, PTL DEF MediaSpec

-----------------------------------------------------------------------------
(***************************************************************************)
(* The jobs and their money.                                               *)
(***************************************************************************)
UpKeyOf == [k \in Keys |-> k]

P == INSTANCE Payout_proofs WITH
    Workers <- Actors, UpKeys <- Keys, Requests <- [key : Keys, delta : {-Price, Price}],
    Mistakable <- {RefundKey(j) : j \in Lookalikes}

JobFields == {"key", "kind", "billed", "refunded", "submitted", "charge", "status"}
WorkerFields == {"at", "id", "job"}
PollerFields == {"at", "phase", "todo", "id", "job"}

\* What a row or a copy of job j says of its charge is true.
JobOK(j, job) ==
    /\ job = [f \in JobFields |-> job[f]]
    /\ job.charge \in {"charged", "refund_pending"} => j \in JobIds /\ Taken(j)

RowsOK ==
    /\ rows = [j \in JobIds |-> rows[j]]
    /\ \A j \in JobIds : rows[j] = NoJob \/ JobOK(j, rows[j])

\* A request that waits for its charge has a row and a call under the charge's key.
Charging(t, c) ==
    /\ t.id \in JobIds
    /\ rows[t.id] # NoJob
    /\ c # P!Idle
    /\ c.req.key = ChargeKey(t.id)

TaskOK(a, t, c) ==
    \/ t = Idle
    \/ /\ IF a = Poller THEN t = [f \in PollerFields |-> t[f]]
                        ELSE t = [f \in WorkerFields |-> t[f]]
       /\ t.at # "next" => JobOK(t.id, t.job)
       /\ t.at = "insert" => t.job.charge \in {"pending", "upstream"}
       /\ t.at = "charging" => Charging(t, c)
       /\ a = Poller => \A x \in t.todo : JobOK(x.id, x.job)

TasksOK ==
    /\ tasks = [a \in Actors |-> tasks[a]]
    /\ \A a \in Actors : TaskOK(a, tasks[a], calls[a])

\* Refunds called for, on their way or made are of charges that were taken.
RefundOK(key) == \A j \in JobIds : key = RefundKey(j) => Taken(j)

RefundsOK ==
    /\ \A a \in Actors : calls[a] # P!Idle => RefundOK(calls[a].req.key)
    /\ \A m \in sent : RefundOK(m.up)
    /\ \A j \in JobIds : GivenBack(j) => Taken(j)

ChargeInv == P!PayoutOK /\ RefundsOK /\ RowsOK /\ TasksOK

-----------------------------------------------------------------------------
LEMMA MappedHolds == P!Mapped
  BY DEF P!Mapped, UpKeyOf

LEMMA KeysAreKeys ==
  ASSUME NEW j \in JobIds
  PROVE  ChargeKey(j) \in Keys /\ RefundKey(j) \in Keys
  BY DEF ChargeKey, RefundKey, Keys

LEMMA ChargeInit == ASSUME Init PROVE ChargeInv
<1>1. P!Init
  BY DEF Init, Credit!Init, P!Init, Credit!Idle, P!Idle
<1>2. P!PayoutOK
  BY <1>1, P!PayoutInit
<1>3. RefundsOK
  BY <1>1, KeysAreKeys DEF P!Init, RefundsOK, GivenBack
<1>4. RowsOK /\ TasksOK
  BY DEF Init, RowsOK, TasksOK, TaskOK
<1> QED
  BY <1>2, <1>3, <1>4 DEF ChargeInv

-----------------------------------------------------------------------------
(***************************************************************************)
(* The payout service.                                                      *)
(***************************************************************************)
\* A step of the studio asks for one payment, takes one result, or neither; every
\* refund it asks for is of a charge that was taken.
AsksFor(a, key, delta) ==
    /\ key \in Keys
    /\ RefundOK(key)
    /\ delta # 0
    /\ Credit!Call(a, [key |-> key, delta |-> delta])
    /\ UNCHANGED <<final, applied, sent>>

CreditMove ==
    \/ UNCHANGED creditVars
    \/ \E a \in Actors : Credit!WorkerStep(a)
    \/ \E a \in Actors : \E key, delta : AsksFor(a, key, delta)
    \/ \E a \in Actors : Credit!Return(a) /\ UNCHANGED <<final, applied, sent>>
    \/ Credit!Upstream
    \/ Credit!Crash

LEMMA MoveIsMove == ASSUME CreditMove PROVE P!Move
<1> USE DEF UpKeyOf
<1>1. \A a \in Actors : Credit!WorkerStep(a) => P!WorkerStep(a)
  BY DEF Credit!WorkerStep, Credit!Send, Credit!Succeed, Credit!Skip, Credit!Fail, Credit!End,
     Credit!Request, Credit!Final, P!WorkerStep, P!Send, P!Succeed, P!Skip, P!Fail, P!End,
     P!Request, P!Final
<1>2. \A a \in Actors : \A r : Credit!Call(a, r) => P!Call(a, r)
  BY DEF Credit!Call, P!Call, Credit!Idle, P!Idle
<1>3. \A a \in Actors : Credit!Return(a) => P!Return(a)
  BY DEF Credit!Return, P!Return, Credit!Idle, P!Idle, Credit!Returned, P!Returned
<1>4. Credit!Upstream => P!Upstream
  BY DEF Credit!Upstream, Credit!Apply, Credit!Lose, P!Upstream, P!Apply, P!Lose
<1>5. Credit!Crash => P!Crash
  BY DEF Credit!Crash, P!Crash, Credit!Idle, P!Idle
<1> QED
  BY <1>1, <1>2, <1>3, <1>4, <1>5 DEF CreditMove, AsksFor, P!Move, P!Pay, P!vars, creditVars

LEMMA TakenStays ==
  ASSUME P!PayoutOK, CreditMove, NEW j \in JobIds, Taken(j)
  PROVE  Taken(j)'
<1>1. P!Move
  BY MoveIsMove
<1> QED
  BY <1>1, P!AppliedStays, MappedHolds, KeysAreKeys DEF Taken

LEMMA RefundOKStays ==
  ASSUME P!PayoutOK, CreditMove, NEW key, RefundOK(key)
  PROVE  RefundOK(key)'
  BY TakenStays DEF RefundOK, RefundKey

LEMMA JobOKStays ==
  ASSUME P!PayoutOK, CreditMove, NEW j, NEW job, JobOK(j, job)
  PROVE  JobOK(j, job)'
  BY TakenStays DEF JobOK

LEMMA RefundsStay ==
  ASSUME P!PayoutOK, RefundsOK, CreditMove
  PROVE  RefundsOK'
<1>1. ASSUME NEW key, RefundOK(key) PROVE RefundOK(key)'
  BY <1>1, RefundOKStays
<1>2. ASSUME NEW a \in Actors, NEW c, c = calls'[a], c # P!Idle
      PROVE  RefundOK(c.req.key)'
  <2>1. CASE calls[a] # P!Idle /\ c.req = calls[a].req
    <3>1. PICK key : key = calls[a].req.key
      OBVIOUS
    <3> QED
      BY <1>1, <2>1, <3>1 DEF RefundsOK
  <2>2. CASE \E key, delta : AsksFor(a, key, delta)
    <3>1. PICK key, delta : AsksFor(a, key, delta)
      BY <2>2
    <3>2. c = [pc |-> "running", req |-> [key |-> key, delta |-> delta]]
      BY <1>2, <3>1 DEF AsksFor, Credit!Call, P!PayoutOK, P!CallsOK
    <3> QED
      BY <1>1, <3>1, <3>2 DEF AsksFor
  <2>3. QED
    <3>1. CASE UNCHANGED creditVars \/ Credit!Upstream \/ \E b \in Actors : Credit!WorkerStep(b)
      <4>1. calls' = calls \/ \E b \in Actors : \E pc : calls' = [calls EXCEPT ![b] = [pc |-> pc, req |-> calls[b].req]]
                                   /\ calls[b].pc = "running"
        BY <3>1 DEF creditVars, Credit!Upstream, Credit!Apply, Credit!Lose, Credit!WorkerStep,
           Credit!Send, Credit!Succeed, Credit!Skip, Credit!Fail, Credit!End
      <4>2. calls[a] # P!Idle /\ c.req = calls[a].req
        BY <1>2, <4>1 DEF P!PayoutOK, P!CallsOK, P!Idle
      <4> QED
        BY <2>1, <4>2
    <3>2. CASE \E b \in Actors : \E key, delta : AsksFor(b, key, delta)
      <4>1. PICK b, key, delta : b \in Actors /\ AsksFor(b, key, delta)
        BY <3>2
      <4>2. CASE b = a
        BY <2>2, <4>1, <4>2
      <4>3. CASE b # a
        <5>1. calls'[a] = calls[a]
          BY <4>1, <4>3 DEF AsksFor, Credit!Call, P!PayoutOK, P!CallsOK
        <5> QED
          BY <1>2, <2>1, <5>1
      <4> QED
        BY <4>2, <4>3
    <3>3. CASE \E b \in Actors : Credit!Return(b)
      <4>1. PICK b \in Actors : calls' = [calls EXCEPT ![b] = P!Idle]
        BY <3>3 DEF Credit!Return, Credit!Idle, P!Idle
      <4>2. calls'[a] = calls[a]
        BY <1>2, <4>1 DEF P!PayoutOK, P!CallsOK
      <4> QED
        BY <1>2, <2>1, <4>2
    <3>4. CASE Credit!Crash
      BY <1>2, <3>4 DEF Credit!Crash, Credit!Idle, P!Idle
    <3> QED
      BY <3>1, <3>2, <3>3, <3>4 DEF CreditMove
<1>3. ASSUME NEW m \in sent' PROVE RefundOK(m.up)'
  <2>1. CASE m \in sent
    BY <1>1, <2>1 DEF RefundsOK
  <2>2. CASE m \notin sent
    <3>1. PICK a \in Actors : Credit!Send(a)
      BY <2>2 DEF CreditMove, creditVars, AsksFor, Credit!Upstream, Credit!Apply, Credit!Lose,
         Credit!Crash, Credit!WorkerStep, Credit!Succeed, Credit!Skip, Credit!Fail
    <3>2. PICK c : c = calls[a]
      OBVIOUS
    <3>3. m = [up |-> UpKeyOf[c.req.key], delta |-> c.req.delta] /\ c # P!Idle
      BY <2>2, <3>1, <3>2 DEF Credit!Send, Credit!Request, UpKeyOf, P!Idle
    <3>4. c.req.key \in Keys /\ RefundOK(c.req.key)
      BY <3>2, <3>3 DEF P!PayoutOK, P!CallsOK, P!CallOK, RefundsOK
    <3> QED
      BY <1>1, <3>3, <3>4 DEF UpKeyOf
  <2> QED
    BY <2>1, <2>2
<1>4. ASSUME NEW j \in JobIds, applied'[RefundKey(j)] # 0 PROVE Taken(j)'
  <2>1. CASE applied[RefundKey(j)] # 0
    BY <2>1, TakenStays DEF RefundsOK, GivenBack
  <2>2. CASE applied[RefundKey(j)] = 0
    <3>1. PICK m \in sent : Credit!Apply(m)
      BY <1>4, <2>2 DEF CreditMove, creditVars, AsksFor, Credit!Upstream, Credit!Lose,
         Credit!Crash, Credit!WorkerStep, Credit!Send, Credit!Succeed, Credit!Skip, Credit!Fail
    <3>2. m.up = RefundKey(j)
      BY <1>4, <2>2, <3>1, KeysAreKeys DEF Credit!Apply, P!PayoutOK
    <3>3. Taken(j)
      BY <3>1, <3>2 DEF RefundsOK, RefundOK
    <3> QED
      BY <3>3, TakenStays
  <2> QED
    BY <2>1, <2>2
<1> QED
  BY <1>2, <1>3, <1>4 DEF RefundsOK, GivenBack, RefundOK

-----------------------------------------------------------------------------
(***************************************************************************)
(* Rows and copies.                                                         *)
(***************************************************************************)
LEMMA RowsStay ==
  ASSUME P!PayoutOK, RowsOK, CreditMove, UNCHANGED rows
  PROVE  RowsOK' /\ \A j \in JobIds : rows[j] # NoJob => rows'[j] # NoJob
<1>1. ASSUME NEW j \in JobIds, NEW job, job = rows[j], job # NoJob
      PROVE  JobOK(j, job)'
  BY <1>1, JobOKStays DEF RowsOK
<1> QED
  BY <1>1 DEF RowsOK, JobOK

LEMMA RowWritten ==
  ASSUME P!PayoutOK, RowsOK, CreditMove, NEW j, NEW job, JobOK(j, job)',
         rows' = [rows EXCEPT ![j] = job]
  PROVE  RowsOK' /\ \A i \in JobIds : rows[i] # NoJob => rows'[i] # NoJob
<1>1. job # NoJob
  <2>1. job = [f \in JobFields |-> job[f]]
    BY DEF JobOK
  <2>2. DOMAIN job = JobFields /\ "key" \in JobFields
    BY <2>1 DEF JobFields
  <2>3. DOMAIN NoJob = {"status"}
    BY DEF NoJob
  <2> QED
    BY <2>2, <2>3
<1>2. ASSUME NEW i \in JobIds, NEW old, old = rows[i], old # NoJob
      PROVE  JobOK(i, old)'
  BY <1>2, JobOKStays DEF RowsOK
<1>3. \A i \in JobIds : rows'[i] = IF i = j THEN job ELSE rows[i]
  BY DEF RowsOK
<1>4. rows' = [i \in JobIds |-> rows'[i]]
  BY DEF RowsOK
<1>5. ASSUME NEW i \in JobIds
      PROVE  rows'[i] = NoJob \/ JobOK(i, rows[i])'
  BY <1>2, <1>3, <1>5 DEF JobOK
<1> QED
  BY <1>1, <1>3, <1>4, <1>5 DEF RowsOK

\* An actor that takes no step keeps what it holds.
LEMMA TaskStays ==
  ASSUME P!PayoutOK, CreditMove, NEW a, NEW t, NEW c, NEW d,
         TaskOK(a, t, c),
         \A j \in JobIds : rows[j] # NoJob => rows'[j] # NoJob,
         c # P!Idle => d # P!Idle /\ d.req = c.req
  PROVE  TaskOK(a, t, d)'
<1>1. \A j, job : JobOK(j, job) => JobOK(j, job)'
  BY JobOKStays
<1> QED
  BY <1>1 DEF TaskOK, Charging

\* One actor takes a step.
LEMMA ActorStep ==
  ASSUME ChargeInv, CreditMove, NEW a \in Actors, NEW t,
         tasks' = [tasks EXCEPT ![a] = t],
         \A b \in Actors \ {a} : calls'[b] = calls[b],
         RowsOK', \A j \in JobIds : rows[j] # NoJob => rows'[j] # NoJob,
         TaskOK(a, t, calls[a])'
  PROVE  ChargeInv'
<1>1. P!PayoutOK /\ RefundsOK /\ TasksOK
  BY DEF ChargeInv
<1>2. P!PayoutOK' /\ RefundsOK'
  BY <1>1, RefundsStay, MoveIsMove, P!PayoutStep, MappedHolds
<1>3. tasks' = [b \in Actors |-> tasks'[b]]
  BY <1>1 DEF TasksOK
<1>4. ASSUME NEW b \in Actors
      PROVE  TaskOK(b, tasks[b], calls[b])'
  <2>1. CASE b = a
    BY <1>1, <2>1 DEF TasksOK
  <2>2. CASE b # a
    <3>1. PICK u, c : u = tasks[b] /\ c = calls[b]
      OBVIOUS
    <3>2. TaskOK(b, u, c)'
      BY <1>1, <3>1, TaskStays DEF TasksOK
    <3>3. tasks'[b] = u /\ calls'[b] = c
      BY <1>1, <2>2, <3>1 DEF TasksOK
    <3> QED
      BY <3>2, <3>3
  <2> QED
    BY <2>1, <2>2
<1> QED
  BY <1>2, <1>3, <1>4 DEF ChargeInv, TasksOK

\* What an actor with a task knows of it.
LEMMA TaskShape ==
  ASSUME ChargeInv, NEW a \in Actors, tasks[a] # Idle, tasks[a].at # "next"
  PROVE  /\ a = Poller => tasks[a] = [f \in PollerFields |-> tasks[a][f]]
         /\ a # Poller => tasks[a] = [f \in WorkerFields |-> tasks[a][f]]
         /\ a = Poller => \A x \in tasks[a].todo : JobOK(x.id, x.job)
         /\ JobOK(Id(a), Job(a))
         /\ tasks[a].at = "insert" => Job(a).charge \in {"pending", "upstream"}
         /\ tasks[a].at = "charging" => Charging(tasks[a], calls[a])
  BY DEF ChargeInv, TasksOK, TaskOK, Id, Job

\* The actor holds a copy of its job and says of it what is true.
LEMMA HoldingIsOK ==
  ASSUME ChargeInv, CreditMove, NEW a \in Actors, tasks[a] # Idle, tasks[a].at # "next",
         NEW at, at \notin {"next", "insert", "charging"}, NEW job, JobOK(Id(a), job),
         Holding(a, at, job)
  PROVE  \E t : tasks' = [tasks EXCEPT ![a] = t] /\ TaskOK(a, t, calls[a])'
<1>1. PICK t : t = [tasks[a] EXCEPT !.at = at, !.job = job]
  OBVIOUS
<1>2. tasks' = [tasks EXCEPT ![a] = t]
  BY <1>1 DEF Holding, ChargeInv, TasksOK
<1>3. PICK id : id = Id(a)
  OBVIOUS
<1>4. /\ IF a = Poller THEN t = [f \in PollerFields |-> t[f]] ELSE t = [f \in WorkerFields |-> t[f]]
      /\ t.at = at /\ t.job = job /\ t.id = id
      /\ a = Poller => t.todo = tasks[a].todo
  BY <1>1, <1>3, TaskShape DEF PollerFields, WorkerFields, Id
<1>5. JobOK(id, job)'
  BY <1>3, JobOKStays DEF ChargeInv
<1>6. a = Poller => \A x \in t.todo : JobOK(x.id, x.job)'
  <2>1. \A j, k : JobOK(j, k) => JobOK(j, k)'
    BY JobOKStays DEF ChargeInv
  <2> QED
    BY <1>4, <2>1, TaskShape
<1> QED
  BY <1>2, <1>4, <1>5, <1>6 DEF TaskOK

\* The request is answered, or the poller goes on to its next job.
LEMMA LeavingIsOK ==
  ASSUME ChargeInv, CreditMove, NEW a \in Actors, tasks[a] # Idle, tasks[a].at # "next", Leave(a)
  PROVE  \E t : tasks' = [tasks EXCEPT ![a] = t] /\ TaskOK(a, t, calls[a])'
<1>1. CASE a # Poller
  BY <1>1 DEF Leave, TaskOK
<1>2. CASE a = Poller
  <2>1. PICK t : t = [tasks[a] EXCEPT !.at = "next"]
    OBVIOUS
  <2>2. tasks' = [tasks EXCEPT ![a] = t]
    BY <1>2, <2>1 DEF Leave
  <2>3. t = [f \in PollerFields |-> t[f]] /\ t.at = "next" /\ t.todo = tasks[a].todo
    BY <1>2, <2>1, TaskShape DEF PollerFields
  <2>4. \A j, k : JobOK(j, k) => JobOK(j, k)'
    BY JobOKStays DEF ChargeInv
  <2>5. \A x \in t.todo : JobOK(x.id, x.job)'
    BY <1>2, <2>3, <2>4, TaskShape
  <2> QED
    BY <1>2, <2>2, <2>3, <2>5 DEF TaskOK
<1> QED
  BY <1>1, <1>2

\* The row is written with a copy that is true, or is left alone.
LEMMA WrittenIsOK ==
  ASSUME ChargeInv, CreditMove, NEW j, NEW job, JobOK(j, job),
         rows' = [rows EXCEPT ![j] = job] \/ UNCHANGED rows
  PROVE  RowsOK' /\ \A i \in JobIds : rows[i] # NoJob => rows'[i] # NoJob
<1>1. JobOK(j, job)'
  BY JobOKStays DEF ChargeInv
<1> QED
  BY <1>1, RowsStay, RowWritten DEF ChargeInv

LEMMA FailedIsOK ==
  ASSUME NEW j, NEW job, JobOK(j, job)
  PROVE  JobOK(j, Failed(job))
<1>1. PICK ch : ch = (IF job.charge = "charged" /\ ~job.refunded THEN "refund_pending" ELSE job.charge)
  OBVIOUS
<1>2. Failed(job) = [job EXCEPT !.status = "failed", !.charge = ch]
  BY <1>1 DEF Failed
<1>3. Failed(job) = [f \in JobFields |-> Failed(job)[f]] /\ Failed(job).charge = ch
  BY <1>2 DEF JobOK, JobFields
<1> QED
  BY <1>1, <1>3 DEF JobOK

\* A refund is called only if the copy says charged, and then it was.
LEMMA RefundJobIsOK ==
  ASSUME ChargeInv, NEW a \in Actors, tasks[a] # Idle, tasks[a].at # "next",
         NEW job, JobOK(Id(a), job), RefundJob(a, Id(a), job),
         UNCHANGED <<final, applied, sent>>
  PROVE  /\ CreditMove
         /\ \A b \in Actors \ {a} : calls'[b] = calls[b]
         /\ \E t : tasks' = [tasks EXCEPT ![a] = t] /\ TaskOK(a, t, calls[a])'
<1>1. CASE NeedsRefund(job)
  <2>1. Holding(a, "refunding", job) /\ Credit!Call(a, [key |-> RefundKey(Id(a)), delta |-> Price])
    BY <1>1 DEF RefundJob
  <2>2. Id(a) \in JobIds /\ Taken(Id(a))
    BY <1>1 DEF NeedsRefund, JobOK
  <2>3. RefundOK(RefundKey(Id(a))) /\ RefundKey(Id(a)) \in Keys
    BY <2>2, KeysAreKeys DEF RefundOK, RefundKey
  <2>4. CreditMove
    BY <2>1, <2>3, CreativeAssumption DEF CreditMove, AsksFor
  <2>5. \A b \in Actors \ {a} : calls'[b] = calls[b]
    BY <2>1 DEF Credit!Call, ChargeInv, P!PayoutOK, P!CallsOK
  <2> QED
    BY <2>1, <2>4, <2>5, HoldingIsOK
<1>2. CASE ~NeedsRefund(job)
  <2>1. Leave(a) /\ UNCHANGED creditVars
    BY <1>2 DEF RefundJob, creditVars
  <2> QED
    BY <2>1, LeavingIsOK DEF CreditMove, creditVars
<1> QED
  BY <1>1, <1>2

\* A step without the payout service.
LEMMA QuietStep ==
  ASSUME ChargeInv, UNCHANGED creditVars, NEW a \in Actors, tasks[a] # Idle, tasks[a].at # "next",
         \/ Leave(a)
         \/ \E at, job : /\ at \notin {"next", "insert", "charging"}
                         /\ JobOK(Id(a), job)
                         /\ Holding(a, at, job),
         \/ UNCHANGED rows
         \/ \E j, job : JobOK(j, job) /\ rows' = [rows EXCEPT ![j] = job]
  PROVE  ChargeInv'
<1>1. CreditMove /\ \A b \in Actors \ {a} : calls'[b] = calls[b]
  BY DEF CreditMove, creditVars
<1>2. RowsOK' /\ \A i \in JobIds : rows[i] # NoJob => rows'[i] # NoJob
  BY <1>1, RowsStay, WrittenIsOK DEF ChargeInv
<1>3. \E t : tasks' = [tasks EXCEPT ![a] = t] /\ TaskOK(a, t, calls[a])'
  BY <1>1, HoldingIsOK, LeavingIsOK
<1> QED
  BY <1>1, <1>2, <1>3, ActorStep

\* The row is written, or not, with the copy of a failed job, which is refunded.
LEMMA FailStep ==
  ASSUME ChargeInv, NEW a \in Actors, tasks[a] # Idle, tasks[a].at # "next",
         NEW job, JobOK(Id(a), job), RefundJob(a, Id(a), job),
         rows' = [rows EXCEPT ![Id(a)] = job] \/ UNCHANGED rows,
         UNCHANGED <<final, applied, sent>>
  PROVE  ChargeInv'
<1>1. /\ CreditMove
      /\ \A b \in Actors \ {a} : calls'[b] = calls[b]
      /\ \E t : tasks' = [tasks EXCEPT ![a] = t] /\ TaskOK(a, t, calls[a])'
  BY RefundJobIsOK
<1>2. RowsOK' /\ \A i \in JobIds : rows[i] # NoJob => rows'[i] # NoJob
  BY <1>1, WrittenIsOK DEF ChargeInv
<1> QED
  BY <1>1, <1>2, ActorStep

\* A copy of which other fields than the charge are changed.
LEMMA OtherFields ==
  ASSUME NEW j, NEW job, JobOK(j, job), NEW st
  PROVE  /\ JobOK(j, [job EXCEPT !.status = st])
         /\ JobOK(j, [job EXCEPT !.submitted = TRUE, !.status = st])
         /\ JobOK(j, [job EXCEPT !.charge = "refunded", !.status = st, !.refunded = TRUE])
<1>1. /\ [job EXCEPT !.status = st] = [f \in JobFields |-> [job EXCEPT !.status = st][f]]
      /\ [job EXCEPT !.status = st].charge = job.charge
  BY DEF JobOK, JobFields
<1>2. PICK k : k = [job EXCEPT !.submitted = TRUE, !.status = st]
  OBVIOUS
<1>3. k = [f \in JobFields |-> k[f]] /\ k.charge = job.charge
  BY <1>2 DEF JobOK, JobFields
<1>4. PICK r : r = [job EXCEPT !.charge = "refunded", !.status = st, !.refunded = TRUE]
  OBVIOUS
<1>5. r = [f \in JobFields |-> r[f]] /\ r.charge = "refunded"
  BY <1>4 DEF JobOK, JobFields
<1> QED
  BY <1>1, <1>2, <1>3, <1>4, <1>5 DEF JobOK

LEMMA ChargedIsOK ==
  ASSUME NEW j \in JobIds, NEW job, JobOK(j, job), Taken(j)
  PROVE  JobOK(j, Charged(job)) /\ JobOK(j, [job EXCEPT !.charge = "refund_pending"])
<1>1. PICK c : c = Charged(job)
  OBVIOUS
<1>2. c = [f \in JobFields |-> c[f]]
  BY <1>1 DEF JobOK, JobFields, Charged
<1>3. PICK r : r = [job EXCEPT !.charge = "refund_pending"]
  OBVIOUS
<1>4. r = [f \in JobFields |-> r[f]]
  BY <1>3 DEF JobOK, JobFields
<1> QED
  BY <1>1, <1>2, <1>3, <1>4 DEF JobOK

-----------------------------------------------------------------------------
(***************************************************************************)
(* Requests.                                                                *)
(***************************************************************************)
LEMMA WorkersAreActors ==
  ASSUME NEW w \in Workers
  PROVE  w \in Actors /\ w # Poller
  BY PollerIsNoWorker DEF Actors

LEMMA RequestKeeps ==
  ASSUME ChargeInv, NEW w \in Workers, Request(w)
  PROVE  ChargeInv'
<1>1. PICK key, kind, billed :
         tasks' = [tasks EXCEPT ![w] = [at |-> "insert", id |-> 0, job |-> NewJob(key, kind, billed)]]
  BY DEF Request
<1>2. UNCHANGED creditVars /\ UNCHANGED rows
  BY DEF Request
<1>3. PICK job : job = NewJob(key, kind, billed)
  OBVIOUS
<1>4. job = [f \in JobFields |-> job[f]] /\ job.charge \in {"pending", "upstream"}
  BY <1>3 DEF NewJob, JobFields
<1>5. PICK t : t = [at |-> "insert", id |-> 0, job |-> job]
  OBVIOUS
<1>6. t = [f \in WorkerFields |-> t[f]] /\ t.at = "insert" /\ t.job = job
  BY <1>5 DEF WorkerFields
<1>7. CreditMove
  BY <1>2 DEF CreditMove
<1>8. TaskOK(w, t, calls[w])'
  BY <1>4, <1>6, WorkersAreActors DEF TaskOK, JobOK
<1> QED
  BY <1>1, <1>2, <1>3, <1>5, <1>7, <1>8, ActorStep, RowsStay, WorkersAreActors
     DEF ChargeInv, creditVars

\* The row is there before its charge is called.
LEMMA InsertKeeps ==
  ASSUME ChargeInv, NEW w \in Workers, Insert(w)
  PROVE  ChargeInv'
<1>1. /\ w \in Actors /\ w # Poller /\ tasks[w] # Idle /\ tasks[w].at = "insert"
      /\ UNCHANGED <<final, applied, sent>>
  BY WorkersAreActors DEF Insert, At, Idle
<1>2. /\ JobOK(Id(w), Job(w)) /\ Job(w).charge \in {"pending", "upstream"}
      /\ tasks[w] = [f \in WorkerFields |-> tasks[w][f]]
  BY <1>1, TaskShape
<1>3. CASE Leave(w) /\ UNCHANGED <<rows, calls>>
  BY <1>1, <1>3, QuietStep DEF creditVars
<1>4. ASSUME NEW j \in JobIds, NEW at \in {"charging", "generate"},
             rows' = [rows EXCEPT ![j] = Job(w)],
             tasks' = [tasks EXCEPT ![w].id = j, ![w].at = at],
             at = "charging" => Credit!Call(w, [key |-> ChargeKey(j), delta |-> -Price]),
             at # "charging" => UNCHANGED calls
      PROVE  ChargeInv'
  <2>1. PICK job : job = Job(w)
    OBVIOUS
  <2>2. JobOK(j, job)
    BY <1>2, <2>1 DEF JobOK
  <2>3. PICK t : t = [tasks[w] EXCEPT !.id = j, !.at = at]
    OBVIOUS
  <2>4. tasks' = [tasks EXCEPT ![w] = t]
    BY <1>1, <1>4, <2>3 DEF ChargeInv, TasksOK
  <2>5. t = [f \in WorkerFields |-> t[f]] /\ t.id = j /\ t.at = at /\ t.job = job
    BY <1>2, <2>1, <2>3 DEF WorkerFields, Job
  <2>6. CreditMove
    <3>1. CASE at = "charging"
      <4>1. RefundOK(ChargeKey(j)) /\ ChargeKey(j) \in Keys
        BY KeysAreKeys DEF RefundOK, ChargeKey, RefundKey
      <4>2. -Price # 0
        BY CreativeAssumption
      <4> QED
        BY <1>1, <1>4, <3>1, <4>1, <4>2 DEF CreditMove, AsksFor
    <3>2. CASE at # "charging"
      BY <1>1, <1>4, <3>2 DEF CreditMove, creditVars
    <3> QED
      BY <3>1, <3>2
  <2>7. \A b \in Actors \ {w} : calls'[b] = calls[b]
    BY <1>1, <1>4 DEF Credit!Call, ChargeInv, P!PayoutOK, P!CallsOK
  <2>8. JobOK(j, job)'
    BY <2>2, <2>6, JobOKStays DEF ChargeInv
  <2>9. RowsOK' /\ \A i \in JobIds : rows[i] # NoJob => rows'[i] # NoJob
    BY <1>4, <2>1, <2>6, <2>8, RowWritten DEF ChargeInv
  <2>10. rows'[j] # NoJob
    <3>1. rows'[j] = job /\ job = [f \in JobFields |-> job[f]]
      BY <1>4, <2>1, <2>2 DEF ChargeInv, RowsOK, JobOK
    <3>2. DOMAIN job = JobFields /\ "key" \in JobFields /\ DOMAIN NoJob = {"status"}
      BY <3>1 DEF JobFields, NoJob
    <3> QED
      BY <3>1, <3>2
  <2>11. at = "charging" => calls'[w] # P!Idle /\ calls'[w].req.key = ChargeKey(j)
    BY <1>1, <1>4 DEF Credit!Call, ChargeInv, P!PayoutOK, P!CallsOK, P!Idle
  <2>12. TaskOK(w, t, calls[w])'
    BY <1>1, <1>2, <2>1, <2>5, <2>8, <2>10, <2>11 DEF TaskOK, Charging
  <2> QED
    BY <1>1, <2>4, <2>6, <2>7, <2>9, <2>12, ActorStep
<1>5. QED
  BY <1>3, <1>4 DEF Insert

\* A call under the job's charge that ended well means that it was taken.
LEMMA ChargeIsTaken ==
  ASSUME ChargeInv, NEW w \in Workers, At(w, "charging"), calls[w].pc \in {"ok", "skipped"}
  PROVE  Id(w) \in JobIds /\ Taken(Id(w))
<1>1. w \in Actors /\ tasks[w] # Idle /\ tasks[w].at = "charging"
  BY WorkersAreActors DEF At, Idle
<1>2. Id(w) \in JobIds /\ calls[w] # P!Idle /\ calls[w].req.key = ChargeKey(Id(w))
  BY <1>1, TaskShape DEF Charging, Id
<1>3. P!Served(ChargeKey(Id(w)))
  BY <1>1, <1>2 DEF ChargeInv, P!PayoutOK, P!CallsOK, P!CallOK
<1> QED
  BY <1>2, <1>3, KeysAreKeys DEF P!Served, P!Moved, UpKeyOf, Taken, ChargeKey, RefundKey

LEMMA ReturnIsMove ==
  ASSUME ChargeInv, NEW a \in Actors, Credit!Return(a), UNCHANGED <<final, applied, sent>>
  PROVE  CreditMove /\ \A b \in Actors \ {a} : calls'[b] = calls[b]
  BY DEF CreditMove, Credit!Return, ChargeInv, P!PayoutOK, P!CallsOK

LEMMA ChargeEndsKeeps ==
  ASSUME ChargeInv, NEW w \in Workers, ChargeSucceeds(w) \/ ChargeFails(w)
  PROVE  ChargeInv'
<1>1. /\ w \in Actors /\ tasks[w] # Idle /\ tasks[w].at = "charging"
      /\ Credit!Return(w) /\ UNCHANGED <<final, applied, sent>>
  BY WorkersAreActors DEF ChargeSucceeds, ChargeFails, At, Idle
<1>2. CreditMove /\ \A b \in Actors \ {w} : calls'[b] = calls[b]
  BY <1>1, ReturnIsMove
<1>3. JobOK(Id(w), Job(w)) /\ Id(w) \in JobIds /\ rows[Id(w)] # NoJob
  BY <1>1, TaskShape DEF Charging, Id
<1>4. CASE ChargeSucceeds(w)
  <2>1. JobOK(Id(w), Charged(Job(w)))
    BY <1>3, <1>4, ChargeIsTaken, ChargedIsOK DEF ChargeSucceeds
  <2>2. Holding(w, "charged", Charged(Job(w))) /\ UNCHANGED rows
    BY <1>4 DEF ChargeSucceeds
  <2>3. \E t : tasks' = [tasks EXCEPT ![w] = t] /\ TaskOK(w, t, calls[w])'
    BY <1>1, <1>2, <2>1, <2>2, HoldingIsOK
  <2> QED
    BY <1>1, <1>2, <2>2, <2>3, RowsStay, ActorStep DEF ChargeInv
<1>5. CASE /\ applied[ChargeKey(Id(w))] # 0
           /\ Holding(w, "fail", [Job(w) EXCEPT !.charge = "refund_pending"])
           /\ UNCHANGED rows
  <2>1. JobOK(Id(w), [Job(w) EXCEPT !.charge = "refund_pending"])
    BY <1>3, <1>5, ChargedIsOK DEF Taken
  <2>2. \E t : tasks' = [tasks EXCEPT ![w] = t] /\ TaskOK(w, t, calls[w])'
    BY <1>1, <1>2, <1>5, <2>1, HoldingIsOK
  <2> QED
    BY <1>1, <1>2, <1>5, <2>2, RowsStay, ActorStep DEF ChargeInv
<1>6. CASE Leave(w) /\ (UNCHANGED rows \/ rows' = [rows EXCEPT ![Id(w)].status = "failed"])
  <2>1. \E t : tasks' = [tasks EXCEPT ![w] = t] /\ TaskOK(w, t, calls[w])'
    BY <1>1, <1>2, <1>6, LeavingIsOK
  <2>2. PICK i, job : i = Id(w) /\ job = [rows[Id(w)] EXCEPT !.status = "failed"]
    OBVIOUS
  <2>3. JobOK(i, job)
    BY <1>3, <2>2, OtherFields DEF ChargeInv, RowsOK
  <2>4. UNCHANGED rows \/ rows' = [rows EXCEPT ![i] = job]
    BY <1>6, <2>2
  <2>5. RowsOK' /\ \A j \in JobIds : rows[j] # NoJob => rows'[j] # NoJob
    BY <1>2, <2>3, <2>4, WrittenIsOK
  <2> QED
    BY <1>1, <1>2, <2>1, <2>5, ActorStep
<1> QED
  BY <1>4, <1>5, <1>6 DEF ChargeFails

LEMMA WorkerKeeps ==
  ASSUME ChargeInv, NEW w \in Workers, WorkerStep(w)
  PROVE  ChargeInv'
<1> USE DEF At, Written, Lost, WrittenOrLost
<1>1. w \in Actors /\ w # Poller
  BY WorkersAreActors
<1>2. CASE SaveCharge(w)
  <2>1. tasks[w] # Idle /\ tasks[w].at # "next" /\ UNCHANGED creditVars
    BY <1>2 DEF SaveCharge, Idle
  <2>2. JobOK(Id(w), Job(w))
    BY <1>1, <2>1, TaskShape
  <2> QED
    BY <1>1, <1>2, <2>1, <2>2, QuietStep DEF SaveCharge
<1>3. CASE Fail(w)
  <2>1. tasks[w] # Idle /\ tasks[w].at # "next" /\ UNCHANGED <<final, applied, sent>>
    BY <1>3 DEF Fail, Idle
  <2>2. JobOK(Id(w), Failed(Job(w)))
    BY <1>1, <2>1, TaskShape, FailedIsOK
  <2> QED
    BY <1>1, <1>3, <2>1, <2>2, FailStep DEF Fail, FailAndRefund
<1>4. CASE ProviderFails(w)
  <2>1. tasks[w] # Idle /\ tasks[w].at # "next" /\ UNCHANGED creditVars
    BY <1>4 DEF ProviderFails, Idle
  <2>2. JobOK(Id(w), Job(w))
    BY <1>1, <2>1, TaskShape
  <2> QED
    BY <1>1, <1>4, <2>1, <2>2, QuietStep DEF ProviderFails
<1>5. CASE CompleteImage(w)
  <2>1. tasks[w] # Idle /\ tasks[w].at # "next" /\ UNCHANGED creditVars
    BY <1>5 DEF CompleteImage, Idle
  <2>2. JobOK(Id(w), Job(w)) /\ JobOK(Id(w), [Job(w) EXCEPT !.status = "completed"])
    BY <1>1, <2>1, TaskShape, OtherFields
  <2> QED
    BY <1>1, <1>5, <2>1, <2>2, QuietStep DEF CompleteImage
<1>6. CASE VideoAccepted(w)
  <2>1. tasks[w] # Idle /\ tasks[w].at # "next" /\ UNCHANGED creditVars
    BY <1>6 DEF VideoAccepted, Idle
  <2>2. JobOK(Id(w), [Job(w) EXCEPT !.submitted = TRUE, !.status = "processing"])
    BY <1>1, <2>1, TaskShape, OtherFields
  <2> QED
    BY <1>1, <1>6, <2>1, <2>2, QuietStep DEF VideoAccepted
<1>7. CASE SaveSubmitted(w)
  <2>1. tasks[w] # Idle /\ tasks[w].at # "next" /\ UNCHANGED creditVars
    BY <1>7 DEF SaveSubmitted, Idle
  <2>2. JobOK(Id(w), Job(w))
    BY <1>1, <2>1, TaskShape
  <2> QED
    BY <1>1, <1>7, <2>1, <2>2, QuietStep DEF SaveSubmitted
<1> QED
  BY <1>2, <1>3, <1>4, <1>5, <1>6, <1>7, InsertKeeps, ChargeEndsKeeps DEF WorkerStep

-----------------------------------------------------------------------------
(***************************************************************************)
(* The poller.                                                              *)
(***************************************************************************)
LEMMA CopiesAreOK ==
  ASSUME RowsOK, NEW S, S \subseteq Rows
  PROVE  \A x \in Copies(S) : JobOK(x.id, x.job)
  BY DEF Copies, Rows, RowsOK

\* The poller between two jobs.
LEMMA PollerShape ==
  ASSUME ChargeInv, tasks[Poller] # Idle
  PROVE  /\ tasks[Poller] = [f \in PollerFields |-> tasks[Poller][f]]
         /\ \A x \in tasks[Poller].todo : JobOK(x.id, x.job)
  BY DEF ChargeInv, TasksOK, TaskOK, Actors

\* A step of the poller that neither pays nor writes.
LEMMA PollerMoves ==
  ASSUME ChargeInv, UNCHANGED <<creditVars, rows>>, NEW t,
         tasks' = [tasks EXCEPT ![Poller] = t],
         t = Idle \/ t = [f \in PollerFields |-> t[f]],
         t # Idle => /\ t.at \notin {"insert", "charging"}
                     /\ t.at # "next" => JobOK(t.id, t.job)
                     /\ \A x \in t.todo : JobOK(x.id, x.job)
  PROVE  ChargeInv'
<1>1. CreditMove /\ \A b \in Actors \ {Poller} : calls'[b] = calls[b]
  BY DEF CreditMove, creditVars
<1>2. \A j, k : JobOK(j, k) => JobOK(j, k)'
  BY <1>1, JobOKStays DEF ChargeInv
<1>3. TaskOK(Poller, t, calls[Poller])'
  BY <1>2 DEF TaskOK
<1>4. RowsOK' /\ \A j \in JobIds : rows[j] # NoJob => rows'[j] # NoJob
  BY <1>1, RowsStay DEF ChargeInv
<1> QED
  BY <1>1, <1>3, <1>4, ActorStep DEF Actors

LEMMA PollKeeps ==
  ASSUME ChargeInv, PollStep
  PROVE  ChargeInv'
<1> USE DEF At, Written, Lost, WrittenOrLost
<1>0. Poller \in Actors
  BY DEF Actors
<1>1. CASE PollBegins
  <2>1. PICK t : t = [at |-> "next", phase |-> "videos", todo |-> Copies(PendingVideos),
                      id |-> 0, job |-> NoJob]
    OBVIOUS
  <2>2. /\ tasks' = [tasks EXCEPT ![Poller] = t] /\ UNCHANGED <<creditVars, rows>>
        /\ t = [f \in PollerFields |-> t[f]] /\ t.at = "next" /\ t.todo = Copies(PendingVideos)
    BY <1>1, <2>1 DEF PollBegins, PollerFields
  <2>3. \A x \in t.todo : JobOK(x.id, x.job)
    BY <2>2, CopiesAreOK DEF ChargeInv, PendingVideos
  <2> QED
    BY <2>2, <2>3, PollerMoves
<1>2. CASE PhaseEnds
  <2>1. tasks[Poller] # Idle /\ tasks[Poller].at = "next" /\ UNCHANGED <<creditVars, rows>>
    BY <1>2 DEF PhaseEnds, Idle
  <2>2. CASE tasks' = [tasks EXCEPT ![Poller] = Idle]
    BY <2>1, <2>2, PollerMoves
  <2>3. CASE tasks' = [tasks EXCEPT ![Poller].phase = "refunds", ![Poller].todo = Copies(PendingRefunds)]
    <3>1. PICK t : t = [tasks[Poller] EXCEPT !.phase = "refunds", !.todo = Copies(PendingRefunds)]
      OBVIOUS
    <3>2. tasks' = [tasks EXCEPT ![Poller] = t]
      BY <1>0, <2>3, <3>1 DEF ChargeInv, TasksOK
    <3>3. t = [f \in PollerFields |-> t[f]] /\ t.at = "next" /\ t.todo = Copies(PendingRefunds)
      BY <2>1, <3>1, PollerShape DEF PollerFields
    <3>4. \A x \in t.todo : JobOK(x.id, x.job)
      BY <3>3, CopiesAreOK DEF ChargeInv, PendingRefunds
    <3> QED
      BY <2>1, <3>2, <3>3, <3>4, PollerMoves
  <2> QED
    BY <1>2, <2>2, <2>3 DEF PhaseEnds
<1>3. CASE TakeJob
  <2>1. tasks[Poller] # Idle /\ UNCHANGED <<creditVars, rows>>
    BY <1>3 DEF TakeJob, Idle
  <2>2. PICK x \in tasks[Poller].todo, at \in {"ask", "refund"} :
           tasks' = [tasks EXCEPT ![Poller].at = at, ![Poller].todo = @ \ {x},
                                  ![Poller].id = x.id, ![Poller].job = x.job]
    BY <1>3 DEF TakeJob
  <2>3. PICK t : t = [tasks[Poller] EXCEPT !.at = at, !.todo = @ \ {x}, !.id = x.id, !.job = x.job]
    OBVIOUS
  <2>4. tasks' = [tasks EXCEPT ![Poller] = t]
    BY <1>0, <2>2, <2>3 DEF ChargeInv, TasksOK
  <2>5. /\ t = [f \in PollerFields |-> t[f]]
        /\ t.at = at /\ t.todo = tasks[Poller].todo \ {x} /\ t.id = x.id /\ t.job = x.job
    BY <2>1, <2>3, PollerShape DEF PollerFields
  <2> QED
    BY <2>1, <2>4, <2>5, PollerShape, PollerMoves
<1>4. CASE RetryRefund
  <2>1. tasks[Poller] # Idle /\ tasks[Poller].at # "next" /\ UNCHANGED <<final, applied, sent>>
    BY <1>4 DEF RetryRefund, Idle
  <2>2. JobOK(Id(Poller), Job(Poller))
    BY <1>0, <2>1, TaskShape
  <2> QED
    BY <1>0, <1>4, <2>1, <2>2, FailStep DEF RetryRefund
<1>5. CASE PassOver
  <2>1. tasks[Poller] # Idle /\ tasks[Poller].at # "next"
    BY <1>5 DEF PassOver, Idle
  <2> QED
    BY <1>0, <1>5, <2>1, QuietStep DEF PassOver
<1>6. CASE VideoRuns \/ VideoDone
  <2>1. tasks[Poller] # Idle /\ tasks[Poller].at # "next" /\ UNCHANGED creditVars /\ Leave(Poller)
    BY <1>6 DEF VideoRuns, VideoDone, Asks, Idle
  <2>2. JobOK(Id(Poller), Job(Poller)) /\ JobOK(Id(Poller), [Job(Poller) EXCEPT !.status = "completed"])
    BY <1>0, <2>1, TaskShape, OtherFields
  <2> QED
    BY <1>0, <1>6, <2>1, <2>2, QuietStep DEF VideoRuns, VideoDone
<1>7. CASE VideoFailed
  <2>1. tasks[Poller] # Idle /\ tasks[Poller].at # "next" /\ UNCHANGED <<final, applied, sent>>
    BY <1>7 DEF VideoFailed, Asks, Idle
  <2>2. JobOK(Id(Poller), Failed(Job(Poller)))
    BY <1>0, <2>1, TaskShape, FailedIsOK
  <2> QED
    BY <1>0, <1>7, <2>1, <2>2, FailStep DEF VideoFailed, FailAndRefund
<1>8. CASE ArchiveFails
  <2>1. tasks[Poller] # Idle /\ tasks[Poller].at # "next" /\ UNCHANGED <<final, applied, sent>>
    BY <1>8 DEF ArchiveFails, Asks, Idle
  <2>2. JobOK(Id(Poller), Job(Poller)) /\ JobOK(Id(Poller), Failed(Job(Poller)))
    BY <1>0, <2>1, TaskShape, FailedIsOK
  <2>3. CASE Leave(Poller) /\ UNCHANGED calls /\ rows' = [rows EXCEPT ![Id(Poller)] = Job(Poller)]
    BY <1>0, <2>1, <2>2, <2>3, QuietStep DEF creditVars
  <2>4. CASE /\ rows' = [rows EXCEPT ![Id(Poller)] = Failed(Job(Poller))]
             /\ RefundJob(Poller, Id(Poller), Failed(Job(Poller)))
    BY <1>0, <2>1, <2>2, <2>4, FailStep
  <2> QED
    BY <1>8, <2>3, <2>4 DEF ArchiveFails
<1> QED
  BY <1>1, <1>2, <1>3, <1>4, <1>5, <1>6, <1>7, <1>8 DEF PollStep

LEMMA RefundEndsKeeps ==
  ASSUME ChargeInv, NEW a \in Actors, RefundEnds(a)
  PROVE  ChargeInv'
<1>1. /\ tasks[a] # Idle /\ tasks[a].at # "next" /\ Credit!Return(a) /\ Leave(a)
      /\ UNCHANGED <<final, applied, sent>>
  BY DEF RefundEnds, At, Idle
<1>2. CreditMove /\ \A b \in Actors \ {a} : calls'[b] = calls[b]
  BY <1>1, ReturnIsMove
<1>3. PICK job : job = [Job(a) EXCEPT !.charge = "refunded", !.status = "refunded", !.refunded = TRUE]
  OBVIOUS
<1>4. JobOK(Id(a), job)
  BY <1>1, <1>3, TaskShape, OtherFields
<1>5. UNCHANGED rows \/ rows' = [rows EXCEPT ![Id(a)] = job]
  BY <1>3 DEF RefundEnds, WrittenOrLost, Written, Lost
<1>6. RowsOK' /\ \A j \in JobIds : rows[j] # NoJob => rows'[j] # NoJob
  BY <1>2, <1>4, <1>5, WrittenIsOK
<1>7. \E t : tasks' = [tasks EXCEPT ![a] = t] /\ TaskOK(a, t, calls[a])'
  BY <1>1, <1>2, LeavingIsOK
<1> QED
  BY <1>2, <1>6, <1>7, ActorStep

\* Nobody takes a step but the payout service.
LEMMA CreditKeeps ==
  ASSUME ChargeInv,
         UNCHANGED creditVars \/ Credit!Upstream \/ \E a \in Actors : Credit!WorkerStep(a),
         UNCHANGED <<rows, tasks>>
  PROVE  ChargeInv'
<1>1. P!PayoutOK /\ RefundsOK /\ RowsOK /\ TasksOK /\ CreditMove
  BY DEF ChargeInv, CreditMove
<1>2. P!PayoutOK' /\ RefundsOK'
  BY <1>1, RefundsStay, MoveIsMove, P!PayoutStep, MappedHolds
<1>3. RowsOK' /\ \A j \in JobIds : rows[j] # NoJob => rows'[j] # NoJob
  BY <1>1, RowsStay
<1>4. UNCHANGED P!vars \/ P!Upstream \/ \E a \in Actors : P!WorkerStep(a)
  BY DEF UpKeyOf, creditVars, P!vars, Credit!Upstream, Credit!Apply, Credit!Lose, P!Upstream,
     P!Apply, P!Lose, Credit!WorkerStep, Credit!Send, Credit!Succeed, Credit!Skip, Credit!Fail,
     Credit!End, Credit!Request, Credit!Final, P!WorkerStep, P!Send, P!Succeed, P!Skip,
     P!Fail, P!End, P!Request, P!Final
<1>5. ASSUME NEW a \in Actors
      PROVE  TaskOK(a, tasks[a], calls[a])'
  <2>1. PICK t, c, d : t = tasks[a] /\ c = calls[a] /\ d = calls'[a]
    OBVIOUS
  <2>2. c # P!Idle => d # P!Idle /\ d.req = c.req
    BY <1>1, <1>4, <2>1, P!RequestsStay
  <2>3. TaskOK(a, t, d)'
    BY <1>1, <1>3, <2>1, <2>2, TaskStays DEF TasksOK
  <2> QED
    BY <2>1, <2>3
<1>6. TasksOK'
  BY <1>1, <1>5 DEF TasksOK
<1> QED
  BY <1>2, <1>3, <1>6 DEF ChargeInv

LEMMA ChargeStep ==
  ASSUME ChargeInv, [Next]_vars
  PROVE  ChargeInv'
<1>1. ASSUME NEW a \in Actors, Succeed(a) \/ Skip(a) \/ Send(a) \/ CreditFails(a)
      PROVE  ChargeInv'
  <2>1. Credit!WorkerStep(a) /\ UNCHANGED <<rows, tasks>>
    BY <1>1 DEF Succeed, Skip, Send, CreditFails, Credit!WorkerStep
  <2> QED
    BY <2>1, CreditKeeps
<1>2. ASSUME NEW m \in sent, Apply(m) \/ Lose(m)
      PROVE  ChargeInv'
  <2>1. Credit!Upstream /\ UNCHANGED <<rows, tasks>>
    BY <1>2 DEF Apply, Lose, Credit!Upstream
  <2> QED
    BY <2>1, CreditKeeps
<1>3. ASSUME NEW j \in JobIds, VideoEnds(j)
      PROVE  ChargeInv'
  BY <1>3, CreditKeeps DEF VideoEnds
<1>4. CASE Crash
  <2>1. Credit!Crash /\ tasks' = [a \in Actors |-> Idle] /\ UNCHANGED rows
    BY <1>4 DEF Crash
  <2>2. CreditMove
    BY <2>1 DEF CreditMove
  <2>3. TasksOK'
    BY <2>1 DEF TasksOK, TaskOK
  <2> QED
    BY <2>1, <2>2, <2>3, RowsStay, RefundsStay, MoveIsMove, P!PayoutStep, MappedHolds DEF ChargeInv
<1>5. CASE UNCHANGED vars
  BY <1>5, CreditKeeps DEF vars
<1> QED
  BY <1>1, <1>2, <1>3, <1>4, <1>5, RequestKeeps, WorkerKeeps, PollKeeps, RefundEndsKeeps DEF Next

\* The studio (creative/service.go) refunds no order that was not charged, however
\* often a refund is tried and by whom, with stale copies, lost updates and crashes.
THEOREM RefundsAlwaysFollowCharges == Spec => []RefundsFollowCharges
<1>1. Init => ChargeInv
  BY ChargeInit
<1>2. ChargeInv /\ [Next]_vars => ChargeInv'
  BY ChargeStep
<1>3. ChargeInv => RefundsFollowCharges
  BY DEF ChargeInv, RefundsOK, RefundsFollowCharges
<1> QED
  BY <1>1, <1>2, <1>3, PTL DEF Spec

-----------------------------------------------------------------------------
(***************************************************************************)
(* What becomes of a job.  Of a job of which no update was lost and no      *)
(* charge is unclear, everybody who will still write the row knows enough   *)
(* of it: the request until it has handed over, by the submitted row or by  *)
(* the failed one; the poller only from copies that say submitted, which    *)
(* are the row as it is; and after that those who refund it, who can only   *)
(* write that they did.                                                     *)
(***************************************************************************)
Fresh(k) == applied[k] = 0 /\ P!Calm(k)

\* The statuses of a job of which no refund was called.
Unsettled == {"created", "processing", "completed"}

ChargeFits(r) ==
    /\ r.status = "processing" => ~r.refunded
    /\ r.billed /\ r.status \in {"processing", "completed"} => r.charge = "charged"
    /\ r.billed /\ r.status = "failed" => r.charge = "refund_pending" /\ ~r.refunded

JobState(j, r) ==
    /\ r = NoJob => Fresh(ChargeKey(j)) /\ Fresh(RefundKey(j))
    /\ r # NoJob =>
          /\ r.status \in Unsettled => Fresh(RefundKey(j))
          /\ ~r.billed => Fresh(ChargeKey(j))
          /\ ChargeFits(r)

Holds(t, j) == t.at \notin {"idle", "insert"} /\ t.id = j

\* What a request that works on a job with the copy c knows of the row r.
Fits(at, c, r) ==
    /\ r # NoJob
    /\ at \in {"charging", "charged", "generate", "submitted", "fail", "refunding"}
    /\ c.billed = r.billed
    /\ at # "refunding" => ~c.refunded /\ ~r.submitted
    /\ at \in {"charging", "charged"} => r.status = "created" /\ c.billed /\ ~c.submitted
    /\ at \in {"charged", "generate", "submitted"} =>
          c.status = "processing" /\ (c.billed => c.charge = "charged")
    /\ at \in {"generate", "submitted"} => r.status = "processing"
    /\ at = "fail" => r.status \in {"created", "processing"}
                        /\ (c.billed => c.charge \in {"charged", "refund_pending"})
    /\ at = "refunding" => r.status \in {"failed", "refunded"}

\* The task t of a request fits job j whose row is r.
WorkerSits(t, j, r) ==
    /\ t.at # "next"
    /\ t.at = "insert" => \E key, kind, billed : billed \in BOOLEAN /\ t.job = NewJob(key, kind, billed)
    /\ Holds(t, j) => Fits(t.at, t.job, r)

VideoCopy(c, r) == r # NoJob /\ (c.submitted => c = r /\ r.status = "processing")
RefundCopy(c, r) == r # NoJob /\ c.billed = r.billed /\ r.status \in {"failed", "refunded"}

\* The same for the task t of the poller.
PollerSits(t, j, r) ==
    t.at # "idle" =>
      /\ t.at \notin {"insert", "charging"}
      /\ \A x \in t.todo : x.id = j =>
            IF t.phase = "videos" THEN VideoCopy(x.job, r) ELSE RefundCopy(x.job, r)
      /\ \A x, y \in t.todo : x.id = j /\ y.id = j => x = y
      /\ t.at # "next" /\ t.id = j => \A x \in t.todo : x.id # j
      /\ t.at = "ask" /\ t.id = j => VideoCopy(t.job, r)
      /\ t.at \in {"refund", "refunding"} /\ t.id = j => RefundCopy(t.job, r)

Sits(a, t, j, r) == IF a = Poller THEN PollerSits(t, j, r) ELSE WorkerSits(t, j, r)

JobInv(j) ==
    /\ JobState(j, rows[j])
    /\ \A a \in Actors : Sits(a, tasks[a], j, rows[j])
    /\ \A v, w \in Workers : Holds(tasks[v], j) /\ Holds(tasks[w], j) => v = w

\* A call is that of the actor's task.
Placed(t, c) ==
    c # P!Idle =>
        \/ t.at = "charging" /\ c.req.key = ChargeKey(t.id)
        \/ t.at = "refunding" /\ c.req.key = RefundKey(t.id)

CallsPlaced == \A a \in Actors : Placed(tasks[a], calls[a])

StudioInv ==
    /\ ChargeInv
    /\ CallsPlaced
    /\ \A j \in JobIds \ troubled : JobInv(j)

-----------------------------------------------------------------------------
(***************************************************************************)
(* Slots that nobody has called stay as they are.                           *)
(***************************************************************************)
LEMMA FreshStays ==
  ASSUME ChargeInv, CreditMove, NEW k \in Keys, Fresh(k),
         \A a \in Actors : calls[a] # P!Idle => calls[a].req.key # k
  PROVE  Fresh(k)'
<1>1. P!PayoutOK /\ P!Move
  BY MoveIsMove DEF ChargeInv
<1>2. \A a \in Actors : ~P!Under(a, k)
  BY <1>1 DEF P!Under, P!PayoutOK, P!CallsOK, P!CallOK, UpKeyOf
<1> QED
  BY <1>1, <1>2, MappedHolds, P!CalmStays DEF Fresh

LEMMA FreshRefund ==
  ASSUME StudioInv, CreditMove, NEW j \in JobIds \ troubled,
         rows[j] = NoJob \/ rows[j].status \in Unsettled
  PROVE  Fresh(RefundKey(j))'
<1>1. JobInv(j) /\ ChargeInv
  BY DEF StudioInv
<1>2. Fresh(RefundKey(j))
  BY <1>1 DEF JobInv, JobState
<1>3. ASSUME NEW a \in Actors, calls[a] # P!Idle, calls[a].req.key = RefundKey(j)
      PROVE  FALSE
  <2>1. tasks[a].at = "refunding" /\ tasks[a].id = j
    BY <1>3 DEF StudioInv, CallsPlaced, Placed, ChargeKey, RefundKey
  <2>2. rows[j] # NoJob /\ rows[j].status \in {"failed", "refunded"}
    BY <1>1, <2>1 DEF JobInv, Sits, PollerSits, WorkerSits, Fits, RefundCopy, Holds
  <2> QED
    BY <2>2 DEF Unsettled
<1> QED
  BY <1>1, <1>2, <1>3, FreshStays, KeysAreKeys

LEMMA FreshCharge ==
  ASSUME StudioInv, CreditMove, NEW j \in JobIds \ troubled,
         rows[j] = NoJob \/ ~rows[j].billed
  PROVE  Fresh(ChargeKey(j))'
<1>1. JobInv(j) /\ ChargeInv
  BY DEF StudioInv
<1>2. Fresh(ChargeKey(j))
  BY <1>1 DEF JobInv, JobState
<1>3. ASSUME NEW a \in Actors, calls[a] # P!Idle, calls[a].req.key = ChargeKey(j)
      PROVE  FALSE
  <2>1. tasks[a].at = "charging" /\ tasks[a].id = j
    BY <1>3 DEF StudioInv, CallsPlaced, Placed, ChargeKey, RefundKey
  <2>2. a # Poller
    BY <1>1, <2>1 DEF JobInv, Sits, PollerSits
  <2>3. rows[j] # NoJob /\ rows[j].billed
    BY <1>1, <2>1, <2>2 DEF JobInv, Sits, WorkerSits, Fits, Holds
  <2> QED
    BY <2>3
<1> QED
  BY <1>1, <1>2, <1>3, FreshStays, KeysAreKeys

\* The state of a job after a step that may write its row.
LEMMA StateMoves ==
  ASSUME StudioInv, CreditMove, NEW j \in JobIds \ troubled, NEW r,
         \/ r = rows[j]
         \/ /\ r # NoJob /\ ChargeFits(r)
            /\ rows[j] # NoJob =>
                  /\ r.status \in Unsettled => rows[j].status \in Unsettled
                  /\ r.billed = rows[j].billed
  PROVE  JobState(j, r)'
<1>1. JobState(j, rows[j])
  BY DEF StudioInv, JobInv
<1>2. CASE r = rows[j]
  BY <1>1, <1>2, FreshRefund, FreshCharge DEF JobState
<1>3. CASE /\ r # NoJob /\ ChargeFits(r)
           /\ rows[j] # NoJob =>
                 /\ r.status \in Unsettled => rows[j].status \in Unsettled
                 /\ r.billed = rows[j].billed
  BY <1>3, FreshRefund, FreshCharge DEF JobState
<1> QED
  BY <1>2, <1>3

(***************************************************************************)
(* One actor takes a step; what the others hold still fits the row.         *)
(***************************************************************************)
LEMMA OneSits ==
  ASSUME StudioInv, CreditMove, NEW j \in JobIds \ troubled, NEW a \in Actors, NEW t, NEW r,
         tasks' = [tasks EXCEPT ![a] = t], rows'[j] = r,
         JobState(j, r)', Sits(a, t, j, r),
         \A b \in Actors \ {a} : Sits(b, tasks[b], j, rows[j]) => Sits(b, tasks[b], j, r),
         a \in Workers /\ Holds(t, j) =>
             Holds(tasks[a], j) \/ \A v \in Workers : ~Holds(tasks[v], j)
  PROVE  JobInv(j)'
<1>1. JobInv(j)
  BY DEF StudioInv
<1>2. tasks'[a] = t /\ \A b \in Actors \ {a} : tasks'[b] = tasks[b]
  BY DEF StudioInv, ChargeInv, TasksOK
<1>3. \A b \in Actors : Sits(b, tasks'[b], j, r)
  BY <1>1, <1>2 DEF JobInv
<1>4. \A v, w \in Workers : Holds(tasks'[v], j) /\ Holds(tasks'[w], j) => v = w
  <2>1. \A v \in Workers \ {a} : tasks'[v] = tasks[v]
    BY <1>2, WorkersAreActors
  <2> QED
    BY <1>1, <1>2, <2>1 DEF JobInv
<1>5. ASSUME NEW b \in Actors
      PROVE  Sits(b, tasks[b], j, rows[j])'
  <2>1. PICK u, q : u = tasks'[b] /\ q = rows'[j]
    OBVIOUS
  <2>2. Sits(b, u, j, q)
    BY <1>3, <2>1
  <2>3. Sits(b, u, j, q)'
    BY <2>2 DEF Sits, PollerSits, WorkerSits, Fits, VideoCopy, RefundCopy, Holds, NewJob, NoJob
  <2> QED
    BY <2>1, <2>3
<1>6. (\A v, w \in Workers : Holds(tasks[v], j) /\ Holds(tasks[w], j) => v = w)'
  BY <1>4 DEF Holds
<1>7. JobState(j, rows[j])'
  BY DEF JobState
<1> QED
  BY <1>5, <1>6, <1>7 DEF JobInv

LEMMA OnePlaced ==
  ASSUME StudioInv, NEW a \in Actors, NEW t, tasks' = [tasks EXCEPT ![a] = t],
         \A b \in Actors \ {a} : calls'[b] = calls[b],
         NEW c, calls'[a] = c, Placed(t, c)
  PROVE  CallsPlaced'
<1>1. tasks'[a] = t /\ \A b \in Actors \ {a} : tasks'[b] = tasks[b]
  BY DEF StudioInv, ChargeInv, TasksOK
<1>2. ASSUME NEW b \in Actors
      PROVE  Placed(tasks[b], calls[b])'
  <2>1. PICK u, d : u = tasks'[b] /\ d = calls'[b]
    OBVIOUS
  <2>2. Placed(u, d)
    BY <1>1, <2>1 DEF StudioInv, CallsPlaced
  <2> QED
    BY <2>1, <2>2 DEF Placed, P!Idle, ChargeKey, RefundKey
<1> QED
  BY <1>2 DEF CallsPlaced

\* What a row may become by the hand of actor a, so that it still fits what the
\* others hold.
Becomes(a, r, s) ==
    \/ s = r
    \/ /\ s # NoJob /\ ChargeFits(s) /\ s.billed = r.billed
       /\ \/ /\ r.status \in {"created", "processing"}
             /\ a # Poller => ~r.submitted
             /\ a = Poller => r.submitted
          \/ r.status \in {"failed", "refunded"} /\ s.status \in {"failed", "refunded"}

\* The actor stays with its job or leaves it.
Goes(a, t) ==
    IF a = Poller
    THEN t.at \notin {"idle", "insert", "charging"} /\ t.todo = tasks[a].todo /\ t.phase = tasks[a].phase
         /\ (t.at = "next" \/ t.id = Id(a))
    ELSE t.at = "idle" \/ (t.at \notin {"insert", "next"} /\ t.id = Id(a))

LEMMA OthersSit ==
  ASSUME StudioInv, NEW j \in JobIds \ troubled, NEW a \in Actors, tasks[a].id = j,
         tasks[a].at \notin {"idle", "insert", "next"},
         NEW r, Becomes(a, rows[j], r), NEW b \in Actors \ {a}
  PROVE  Sits(b, tasks[b], j, r)
<1>1. JobInv(j)
  BY DEF StudioInv
<1>2. CASE r = rows[j]
  BY <1>1, <1>2 DEF JobInv
<1>3. ASSUME r # NoJob, r.billed = rows[j].billed, rows[j].status \in {"created", "processing"}
      PROVE  (a # Poller => ~rows[j].submitted) /\ (a = Poller => rows[j].submitted) => Sits(b, tasks[b], j, r)
  <2>1. CASE b = Poller
    <3>1. Sits(Poller, tasks[b], j, rows[j])
      BY <1>1, <2>1 DEF JobInv
    <3> QED
      BY <1>3, <2>1, <3>1 DEF Sits, PollerSits, VideoCopy, RefundCopy
  <2>2. CASE b # Poller
    <3>1. Sits(b, tasks[b], j, rows[j])
      BY <1>1 DEF JobInv
    <3>2. ~Holds(tasks[b], j) \/ a = Poller
      BY <1>1, <2>2 DEF JobInv, Holds, Actors
    <3>3. a = Poller /\ rows[j].submitted => ~Holds(tasks[b], j)
      BY <1>3, <2>2, <3>1 DEF Sits, WorkerSits, Fits
    <3> QED
      BY <2>2, <3>1, <3>2, <3>3 DEF Sits, WorkerSits, Fits
  <2> QED
    BY <2>1, <2>2
<1>4. ASSUME r # NoJob, r.billed = rows[j].billed,
             rows[j].status \in {"failed", "refunded"}, r.status \in {"failed", "refunded"}
      PROVE  Sits(b, tasks[b], j, r)
  <2>1. Sits(b, tasks[b], j, rows[j])
    BY <1>1 DEF JobInv
  <2>2. CASE b = Poller
    BY <1>4, <2>1, <2>2 DEF Sits, PollerSits, VideoCopy, RefundCopy
  <2>3. CASE b # Poller
    <3>1. Holds(tasks[b], j) => tasks[b].at = "refunding"
      <4>1. Holds(tasks[b], j) => tasks[b].at \in {"charging", "charged", "generate", "submitted", "fail", "refunding"}
        BY <2>1, <2>3 DEF Sits, WorkerSits, Fits
      <4> QED
        BY <1>4, <2>1, <2>3, <4>1 DEF Sits, WorkerSits, Fits
    <3> QED
      BY <1>4, <2>1, <2>3, <3>1 DEF Sits, WorkerSits, Fits, Holds
  <2> QED
    BY <2>2, <2>3
<1> QED
  BY <1>2, <1>3, <1>4 DEF Becomes

OnlyRow(i, r) == \A j \in JobIds : rows'[j] = IF j = i THEN r ELSE rows[j]

Busy(a) == tasks[a].at \notin {"idle", "insert", "next"}

\* A step of an actor with the job it works on.
LEMMA JobStep ==
  ASSUME StudioInv, ChargeInv', CreditMove, NEW a \in Actors, Busy(a),
         NEW t, Goes(a, t), tasks' = [tasks EXCEPT ![a] = t],
         NEW r, OnlyRow(Id(a), r), troubled \subseteq troubled',
         \A b \in Actors \ {a} : calls'[b] = calls[b],
         NEW c, calls'[a] = c, Placed(t, c),
         Id(a) \in JobIds \ troubled' => Becomes(a, rows[Id(a)], r) /\ Sits(a, t, Id(a), r)
  PROVE  StudioInv'
<1>1. CallsPlaced'
  BY OnePlaced
<1>2. ASSUME NEW j \in JobIds \ troubled'
      PROVE  JobInv(j)'
  <2>1. JobInv(j) /\ j \notin troubled
    BY DEF StudioInv
  <2>2. CASE j = Id(a)
    <3>1. Becomes(a, rows[j], r) /\ Sits(a, t, j, r) /\ rows'[j] = r
      BY <2>2 DEF OnlyRow
    <3>2. rows[j] = r \/ rows[j] # NoJob
      BY <3>1, <2>1 DEF Becomes, NoJob
    <3>3. JobState(j, r)'
      BY <2>1, <3>1, StateMoves DEF Becomes, Unsettled
    <3>4. \A b \in Actors \ {a} : Sits(b, tasks[b], j, r)
      BY <2>1, <2>2, <3>1, OthersSit DEF Busy, Id
    <3>5. a \in Workers => Holds(tasks[a], j)
      BY <2>2 DEF Holds, Busy, Id
    <3> QED
      BY <2>1, <3>1, <3>3, <3>4, <3>5, OneSits
  <2>3. CASE j # Id(a)
    <3>1. PICK q : q = rows[j]
      OBVIOUS
    <3>2. rows'[j] = q
      BY <2>3, <3>1 DEF OnlyRow
    <3>3. Sits(a, tasks[a], j, q)
      BY <2>1, <3>1 DEF JobInv
    <3>4. Sits(a, t, j, q)
      <4>1. CASE a = Poller
        <5>1. PollerSits(tasks[a], j, q) /\ tasks[a].at # "idle"
          BY <3>3, <4>1 DEF Sits, Busy
        <5>2. /\ t.todo = tasks[a].todo /\ t.phase = tasks[a].phase
              /\ t.at \notin {"insert", "charging"} /\ (t.at = "next" \/ t.id # j)
          BY <2>3, <4>1 DEF Goes
        <5>3. PollerSits(t, j, q)
          BY <5>1, <5>2 DEF PollerSits
        <5> QED
          BY <4>1, <5>3 DEF Sits
      <4>2. CASE a # Poller
        <5>1. t.at = "idle" \/ (t.at \notin {"insert", "next"} /\ t.id # j)
          BY <2>3, <4>2 DEF Goes
        <5> QED
          BY <4>2, <5>1 DEF Sits, WorkerSits, Holds
      <4> QED
        BY <4>1, <4>2
    <3>5. JobState(j, q)'
      BY <2>1, <3>1, StateMoves
    <3>6. a \in Workers => ~Holds(t, j)
      BY <2>3, WorkersAreActors DEF Goes, Holds
    <3> QED
      BY <2>1, <3>1, <3>2, <3>4, <3>5, <3>6, OneSits
  <2> QED
    BY <2>2, <2>3
<1> QED
  BY <1>1, <1>2 DEF StudioInv

\* The actor is done with its job.
LEMMA LeaveStep ==
  ASSUME StudioInv, ChargeInv', CreditMove, NEW a \in Actors, Busy(a), Leave(a),
         NEW r, OnlyRow(Id(a), r), troubled \subseteq troubled',
         \A b \in Actors \ {a} : calls'[b] = calls[b], calls'[a] = P!Idle,
         Id(a) \in JobIds \ troubled' => Becomes(a, rows[Id(a)], r)
  PROVE  StudioInv'
<1>1. tasks[a] # Idle /\ tasks[a].at # "next"
  BY DEF Busy, Idle
<1>2. CASE a # Poller
  <2>1. PICK t : t = Idle
    OBVIOUS
  <2>2. tasks' = [tasks EXCEPT ![a] = t] /\ t.at = "idle"
    BY <1>2, <2>1 DEF Leave, Idle
  <2>3. Goes(a, t) /\ \A j, q : Sits(a, t, j, q)
    BY <1>2, <2>2 DEF Goes, Sits, WorkerSits, Holds
  <2>4. Placed(t, P!Idle)
    BY DEF Placed
  <2> QED
    BY <2>2, <2>3, <2>4, JobStep
<1>3. CASE a = Poller
  <2>1. PICK t : t = [tasks[a] EXCEPT !.at = "next"]
    OBVIOUS
  <2>2. tasks' = [tasks EXCEPT ![a] = t]
    BY <1>3, <2>1 DEF Leave
  <2>3. t.at = "next" /\ t.todo = tasks[a].todo /\ t.phase = tasks[a].phase
    BY <1>1, <1>3, <2>1, TaskShape DEF PollerFields, StudioInv
  <2>4. Goes(a, t)
    BY <1>3, <2>3 DEF Goes
  <2>5. Placed(t, P!Idle)
    BY DEF Placed
  <2>6. Id(a) \in JobIds \ troubled' => Sits(a, t, Id(a), r)
    <3>1. SUFFICES ASSUME Id(a) \in JobIds \ troubled'
                   PROVE  Sits(a, t, Id(a), r)
      OBVIOUS
    <3>2. Sits(a, tasks[a], Id(a), rows[Id(a)])
      BY <3>1 DEF StudioInv, JobInv
    <3> QED
      BY <1>3, <2>3, <3>2 DEF Sits, PollerSits, Busy, Id
  <2> QED
    BY <2>2, <2>4, <2>5, <2>6, JobStep
<1> QED
  BY <1>2, <1>3

\* The actor holds its job at another step.
LEMMA HoldStep ==
  ASSUME StudioInv, ChargeInv', CreditMove, NEW a \in Actors, Busy(a), NEW at, NEW job, Holding(a, at, job),
         at \notin {"idle", "insert", "next", "charging"},
         NEW r, OnlyRow(Id(a), r), troubled \subseteq troubled',
         \A b \in Actors \ {a} : calls'[b] = calls[b],
         calls'[a] # P!Idle => at = "refunding" /\ calls'[a].req.key = RefundKey(Id(a)),
         Id(a) \in JobIds \ troubled' =>
             /\ Becomes(a, rows[Id(a)], r)
             /\ a # Poller => Fits(at, job, r)
             /\ a = Poller => at = "refunding" /\ RefundCopy(job, r)
  PROVE  StudioInv'
<1>1. tasks[a] # Idle /\ tasks[a].at # "next"
  BY DEF Busy, Idle
<1>2. PICK t, id : t = [tasks[a] EXCEPT !.at = at, !.job = job] /\ id = Id(a)
  OBVIOUS
<1>3. tasks' = [tasks EXCEPT ![a] = t]
  BY <1>2 DEF Holding, StudioInv, ChargeInv, TasksOK
<1>4. /\ t.at = at /\ t.job = job /\ t.id = id
      /\ a = Poller => t.todo = tasks[a].todo /\ t.phase = tasks[a].phase
  BY <1>1, <1>2, TaskShape DEF PollerFields, WorkerFields, Id, StudioInv
<1>5. Goes(a, t)
  BY <1>2, <1>4 DEF Goes
<1>6. PICK c : c = calls'[a]
  OBVIOUS
<1>7. Placed(t, c)
  BY <1>2, <1>4, <1>6 DEF Placed
<1>8. id \in JobIds \ troubled' => Sits(a, t, id, r)
  <2>1. SUFFICES ASSUME id \in JobIds \ troubled'
                 PROVE  Sits(a, t, id, r)
    OBVIOUS
  <2>2. Sits(a, tasks[a], id, rows[id])
    BY <2>1 DEF StudioInv, JobInv
  <2>3. CASE a = Poller
    BY <1>2, <1>4, <2>1, <2>2, <2>3 DEF Sits, PollerSits, Busy, Id
  <2>4. CASE a # Poller
    BY <1>2, <1>4, <2>1, <2>4 DEF Sits, WorkerSits, Holds
  <2> QED
    BY <2>3, <2>4
<1> QED
  BY <1>2, <1>3, <1>5, <1>6, <1>7, <1>8, JobStep

\* The job is refunded by who has just marked it, or found it marked, as failed.
LEMMA RefundStep ==
  ASSUME StudioInv, ChargeInv', NEW a \in Actors, Busy(a), calls[a] = P!Idle,
         NEW job, JobOK(Id(a), job), RefundJob(a, Id(a), job),
         UNCHANGED <<final, applied, sent>>,
         NEW r, OnlyRow(Id(a), r), troubled \subseteq troubled',
         Id(a) \in JobIds \ troubled' =>
             Becomes(a, rows[Id(a)], r) /\ RefundCopy(job, r)
  PROVE  StudioInv'
<1>1. tasks[a] # Idle /\ tasks[a].at # "next" /\ ChargeInv
  BY DEF Busy, Idle, StudioInv
<1>2. CreditMove /\ \A b \in Actors \ {a} : calls'[b] = calls[b]
  BY <1>1, RefundJobIsOK
<1>3. CASE NeedsRefund(job)
  <2>1. Holding(a, "refunding", job) /\ Credit!Call(a, [key |-> RefundKey(Id(a)), delta |-> Price])
    BY <1>3 DEF RefundJob
  <2>2. calls'[a].req.key = RefundKey(Id(a))
    BY <1>1, <2>1 DEF Credit!Call, ChargeInv, P!PayoutOK, P!CallsOK
  <2>3. Id(a) \in JobIds \ troubled' => Fits("refunding", job, r)
    BY DEF Fits, RefundCopy
  <2> QED
    BY <1>2, <2>1, <2>2, <2>3, HoldStep
<1>4. CASE ~NeedsRefund(job)
  <2>1. Leave(a) /\ UNCHANGED calls
    BY <1>4 DEF RefundJob
  <2> QED
    BY <1>2, <2>1, LeaveStep
<1> QED
  BY <1>3, <1>4

-----------------------------------------------------------------------------
(***************************************************************************)
(* What is written.                                                         *)
(***************************************************************************)
LEMMA IsNoNoJob ==
  ASSUME NEW c, c = [f \in JobFields |-> c[f]]
  PROVE  c # NoJob
<1>1. DOMAIN c = JobFields /\ "key" \in JobFields
  BY DEF JobFields
<1>2. DOMAIN NoJob = {"status"}
  BY DEF NoJob
<1> QED
  BY <1>1, <1>2

LEMMA FailedFits ==
  ASSUME NEW c, c = [f \in JobFields |-> c[f]], ~c.refunded,
         c.billed => c.charge \in {"charged", "refund_pending"}, NEW r, r = Failed(c)
  PROVE  r # NoJob /\ ChargeFits(r) /\ r.billed = c.billed /\ r.status = "failed"
<1>1. PICK ch : ch = (IF c.charge = "charged" /\ ~c.refunded THEN "refund_pending" ELSE c.charge)
  OBVIOUS
<1>2. r = [c EXCEPT !.status = "failed", !.charge = ch]
  BY <1>1 DEF Failed
<1>3. /\ r = [f \in JobFields |-> r[f]] /\ r.charge = ch
      /\ r.status = "failed" /\ r.billed = c.billed /\ r.refunded = c.refunded
  BY <1>2 DEF JobFields
<1> QED
  BY <1>1, <1>3, IsNoNoJob DEF ChargeFits

LEMMA CompletedFits ==
  ASSUME NEW c, c = [f \in JobFields |-> c[f]],
         c.billed => c.charge = "charged", NEW r, r = [c EXCEPT !.status = "completed"]
  PROVE  r # NoJob /\ ChargeFits(r) /\ r.billed = c.billed /\ r.status = "completed"
<1>1. /\ r = [f \in JobFields |-> r[f]] /\ r.charge = c.charge
      /\ r.status = "completed" /\ r.billed = c.billed
  BY DEF JobFields
<1> QED
  BY <1>1, IsNoNoJob DEF ChargeFits

LEMMA RefundedFits ==
  ASSUME NEW c, c = [f \in JobFields |-> c[f]],
         NEW r, r = [c EXCEPT !.charge = "refunded", !.status = "refunded", !.refunded = TRUE]
  PROVE  r # NoJob /\ ChargeFits(r) /\ r.billed = c.billed /\ r.status = "refunded"
<1>1. r = [f \in JobFields |-> r[f]] /\ r.status = "refunded" /\ r.billed = c.billed
  BY DEF JobFields
<1> QED
  BY <1>1, IsNoNoJob DEF ChargeFits

\* What an actor at work has in hand.
LEMMA InHand ==
  ASSUME StudioInv, NEW a \in Actors, Busy(a)
  PROVE  /\ ChargeInv /\ tasks[a] # Idle /\ tasks[a].at # "next"
         /\ JobOK(Id(a), Job(a)) /\ Job(a) = [f \in JobFields |-> Job(a)[f]]
         /\ tasks[a].at \notin {"charging", "refunding"} => calls[a] = P!Idle
         /\ Id(a) \in JobIds \ troubled =>
               /\ a # Poller => Fits(tasks[a].at, Job(a), rows[Id(a)])
               /\ a = Poller /\ tasks[a].at = "ask" => VideoCopy(Job(a), rows[Id(a)])
               /\ a = Poller /\ tasks[a].at \in {"refund", "refunding"} => RefundCopy(Job(a), rows[Id(a)])
<1>1. tasks[a] # Idle /\ tasks[a].at # "next" /\ ChargeInv
  BY DEF Busy, Idle, StudioInv
<1>2. JobOK(Id(a), Job(a))
  BY <1>1, TaskShape
<1>3. Job(a) = [f \in JobFields |-> Job(a)[f]]
  BY <1>2 DEF JobOK
<1>4. tasks[a].at \notin {"charging", "refunding"} => calls[a] = P!Idle
  BY DEF StudioInv, CallsPlaced, Placed
<1>5. Id(a) \in JobIds \ troubled => Sits(a, tasks[a], Id(a), rows[Id(a)])
  BY DEF StudioInv, JobInv
<1>6. Id(a) \in JobIds \ troubled =>
               /\ a # Poller => Fits(tasks[a].at, Job(a), rows[Id(a)])
               /\ a = Poller /\ tasks[a].at = "ask" => VideoCopy(Job(a), rows[Id(a)])
               /\ a = Poller /\ tasks[a].at \in {"refund", "refunding"} => RefundCopy(Job(a), rows[Id(a)])
  BY <1>5 DEF Sits, PollerSits, WorkerSits, Holds, Busy, Id, Job
<1> QED
  BY <1>1, <1>2, <1>3, <1>4, <1>6

LEMMA RowIsWritten ==
  ASSUME StudioInv, NEW i, NEW r, rows' = [rows EXCEPT ![i] = r]
  PROVE  OnlyRow(i, r)
  BY DEF OnlyRow, StudioInv, ChargeInv, RowsOK

LEMMA RowIsLeft ==
  ASSUME UNCHANGED rows, NEW i
  PROVE  OnlyRow(i, rows[i])
  BY DEF OnlyRow

\* A step without the payout service.
LEMMA QuietJob ==
  ASSUME StudioInv, ChargeInv', UNCHANGED creditVars, NEW a \in Actors, Busy(a),
         tasks[a].at \notin {"charging", "refunding"},
         NEW r, OnlyRow(Id(a), r), troubled \subseteq troubled',
         Id(a) \in JobIds \ troubled' => Becomes(a, rows[Id(a)], r),
         \/ Leave(a)
         \/ \E at, job : /\ Holding(a, at, job) /\ a # Poller
                         /\ at \in {"generate", "submitted", "fail"}
                         /\ Id(a) \in JobIds \ troubled' => Fits(at, job, r)
  PROVE  StudioInv'
<1>1. CreditMove /\ \A b \in Actors : calls'[b] = calls[b]
  BY DEF CreditMove, creditVars
<1>2. calls'[a] = P!Idle
  BY <1>1, InHand
<1>3. CASE Leave(a)
  BY <1>1, <1>2, <1>3, LeaveStep
<1>4. ASSUME NEW at \in {"generate", "submitted", "fail"}, NEW job, Holding(a, at, job), a # Poller,
             Id(a) \in JobIds \ troubled' => Fits(at, job, r)
      PROVE  StudioInv'
  BY <1>1, <1>2, <1>4, HoldStep
<1> QED
  BY <1>3, <1>4

LEMMA StudioWorker ==
  ASSUME StudioInv, ChargeInv', NEW w \in Workers,
         \/ SaveCharge(w) \/ Fail(w) \/ ProviderFails(w)
         \/ CompleteImage(w) \/ VideoAccepted(w) \/ SaveSubmitted(w)
  PROVE  StudioInv'
<1> USE DEF At, Written, Lost, WrittenOrLost
<1> DEFINE i == Id(w)
           c == Job(w)
<1>1. /\ w \in Actors /\ w # Poller /\ Busy(w)
      /\ tasks[w].at \in {"charged", "fail", "generate", "submitted"}
  BY WorkersAreActors DEF SaveCharge, Fail, ProviderFails, CompleteImage, VideoAccepted,
     SaveSubmitted, Busy
<1>2. /\ c = [f \in JobFields |-> c[f]] /\ JobOK(i, c) /\ calls[w] = P!Idle
      /\ i \in JobIds \ troubled => Fits(tasks[w].at, c, rows[i])
  BY <1>1, InHand
<1>3. CASE SaveCharge(w)
  <2>1. UNCHANGED creditVars /\ tasks[w].at = "charged"
    BY <1>3 DEF SaveCharge
  <2>2. CASE Written(i, c) /\ Holding(w, "generate", c)
    <3>1. OnlyRow(i, c) /\ troubled \subseteq troubled'
      BY <2>2, RowIsWritten DEF historyVars
    <3>2. i \in JobIds \ troubled' => Becomes(w, rows[i], c) /\ Fits("generate", c, c)
      BY <1>1, <1>2, <2>1, <3>1, IsNoNoJob DEF Fits, Becomes, ChargeFits
    <3> QED
      BY <1>1, <2>1, <2>2, <3>1, <3>2, QuietJob
  <2>3. CASE Holding(w, "fail", c) /\ UNCHANGED <<rows, troubled>>
    <3>1. OnlyRow(i, rows[i])
      BY <2>3, RowIsLeft
    <3>2. i \in JobIds \ troubled' => Becomes(w, rows[i], rows[i]) /\ Fits("fail", c, rows[i])
      BY <1>1, <1>2, <2>1, <2>3 DEF Fits, Becomes
    <3> QED
      BY <1>1, <2>1, <2>3, <3>1, <3>2, QuietJob
  <2> QED
    BY <1>3, <2>2, <2>3 DEF SaveCharge
<1>4. CASE Fail(w)
  <2>1. PICK r : r = Failed(c)
    OBVIOUS
  <2>2. /\ UNCHANGED <<final, applied, sent>> /\ tasks[w].at = "fail"
        /\ Written(i, r) \/ Lost(i)
        /\ RefundJob(w, i, r)
    BY <1>4, <2>1 DEF Fail, FailAndRefund
  <2>3. JobOK(i, r)
    BY <1>2, <2>1, FailedIsOK
  <2>4. CASE Written(i, r)
    <3>1. OnlyRow(i, r) /\ troubled \subseteq troubled'
      BY <2>4, RowIsWritten DEF historyVars
    <3>2. i \in JobIds \ troubled' => Becomes(w, rows[i], r) /\ RefundCopy(r, r)
      <4>1. SUFFICES ASSUME i \in JobIds \ troubled
                     PROVE  Becomes(w, rows[i], r) /\ RefundCopy(r, r)
        BY <3>1
      <4>2. Fits("fail", c, rows[i])
        BY <1>2, <2>2, <4>1
      <4>3. r # NoJob /\ ChargeFits(r) /\ r.billed = c.billed /\ r.status = "failed"
        BY <1>2, <2>1, <4>2, FailedFits DEF Fits
      <4> QED
        BY <1>1, <4>2, <4>3 DEF Fits, Becomes, RefundCopy
    <3> QED
      BY <1>1, <1>2, <2>2, <2>3, <3>1, <3>2, RefundStep
  <2>5. CASE Lost(i)
    <3>1. OnlyRow(i, rows[i]) /\ troubled \subseteq troubled' /\ i \in troubled'
      BY <2>5, RowIsLeft
    <3> QED
      BY <1>1, <1>2, <2>2, <2>3, <3>1, RefundStep
  <2> QED
    BY <2>2, <2>4, <2>5
<1>5. CASE ProviderFails(w)
  <2>1. OnlyRow(i, rows[i]) /\ UNCHANGED <<creditVars, troubled>> /\ tasks[w].at = "generate" /\ Holding(w, "fail", c)
    BY <1>5, RowIsLeft DEF ProviderFails
  <2>2. i \in JobIds \ troubled' => Becomes(w, rows[i], rows[i]) /\ Fits("fail", c, rows[i])
    BY <1>2, <2>1 DEF Fits, Becomes
  <2> QED
    BY <1>1, <2>1, <2>2, QuietJob
<1>6. CASE CompleteImage(w)
  <2>1. UNCHANGED creditVars /\ tasks[w].at = "generate"
    BY <1>6 DEF CompleteImage
  <2>2. CASE Written(i, [c EXCEPT !.status = "completed"]) /\ Leave(w)
    <3>1. PICK r : r = [c EXCEPT !.status = "completed"]
      OBVIOUS
    <3>2. OnlyRow(i, r) /\ troubled \subseteq troubled'
      BY <2>2, <3>1, RowIsWritten DEF historyVars
    <3>3. i \in JobIds \ troubled' => Becomes(w, rows[i], r)
      <4>1. SUFFICES ASSUME i \in JobIds \ troubled
                     PROVE  Becomes(w, rows[i], r)
        BY <3>2
      <4>2. Fits("generate", c, rows[i])
        BY <1>2, <2>1, <4>1
      <4>3. r # NoJob /\ ChargeFits(r) /\ r.billed = c.billed
        BY <1>2, <3>1, <4>2, CompletedFits DEF Fits
      <4> QED
        BY <1>1, <4>2, <4>3 DEF Fits, Becomes
    <3> QED
      BY <1>1, <2>1, <2>2, <3>2, <3>3, QuietJob
  <2>3. CASE Holding(w, "fail", c) /\ UNCHANGED <<rows, troubled>>
    <3>1. OnlyRow(i, rows[i])
      BY <2>3, RowIsLeft
    <3>2. i \in JobIds \ troubled' => Becomes(w, rows[i], rows[i]) /\ Fits("fail", c, rows[i])
      BY <1>2, <2>1, <2>3 DEF Fits, Becomes
    <3> QED
      BY <1>1, <2>1, <2>3, <3>1, <3>2, QuietJob
  <2> QED
    BY <1>6, <2>2, <2>3 DEF CompleteImage
<1>7. CASE VideoAccepted(w)
  <2>1. PICK k : k = [c EXCEPT !.submitted = TRUE, !.status = "processing"]
    OBVIOUS
  <2>2. OnlyRow(i, rows[i]) /\ UNCHANGED <<creditVars, historyVars>> /\ tasks[w].at = "generate" /\ Holding(w, "submitted", k)
    BY <1>7, <2>1, RowIsLeft DEF VideoAccepted
  <2>3. k.status = "processing" /\ k.billed = c.billed /\ k.refunded = c.refunded /\ k.charge = c.charge
    BY <1>2, <2>1 DEF JobFields
  <2>4. i \in JobIds \ troubled' => Becomes(w, rows[i], rows[i]) /\ Fits("submitted", k, rows[i])
    BY <1>2, <2>2, <2>3 DEF Fits, Becomes, historyVars
  <2> QED
    BY <1>1, <2>2, <2>4, QuietJob DEF historyVars
<1>8. CASE SaveSubmitted(w)
  <2>1. UNCHANGED creditVars /\ tasks[w].at = "submitted"
    BY <1>8 DEF SaveSubmitted
  <2>2. CASE Written(i, c) /\ Leave(w)
    <3>1. OnlyRow(i, c) /\ troubled \subseteq troubled'
      BY <2>2, RowIsWritten DEF historyVars
    <3>2. i \in JobIds \ troubled' => Becomes(w, rows[i], c)
      BY <1>1, <1>2, <2>1, <3>1, IsNoNoJob DEF Fits, Becomes, ChargeFits
    <3> QED
      BY <1>1, <2>1, <2>2, <3>1, <3>2, QuietJob
  <2>3. CASE Holding(w, "fail", c) /\ UNCHANGED <<rows, troubled>>
    <3>1. OnlyRow(i, rows[i])
      BY <2>3, RowIsLeft
    <3>2. i \in JobIds \ troubled' => Becomes(w, rows[i], rows[i]) /\ Fits("fail", c, rows[i])
      BY <1>2, <2>1, <2>3 DEF Fits, Becomes
    <3> QED
      BY <1>1, <2>1, <2>3, <3>1, <3>2, QuietJob
  <2> QED
    BY <1>8, <2>2, <2>3 DEF SaveSubmitted
<1> QED
  BY <1>3, <1>4, <1>5, <1>6, <1>7, <1>8

LEMMA StudioCharge ==
  ASSUME StudioInv, ChargeInv', NEW w \in Workers, ChargeSucceeds(w) \/ ChargeFails(w)
  PROVE  StudioInv'
<1> DEFINE i == Id(w)
           c == Job(w)
<1>1. /\ w \in Actors /\ w # Poller /\ Busy(w) /\ tasks[w].at = "charging"
      /\ Credit!Return(w) /\ UNCHANGED <<final, applied, sent>>
  BY WorkersAreActors DEF ChargeSucceeds, ChargeFails, At, Busy
<1>2. /\ c = [f \in JobFields |-> c[f]] /\ ChargeInv
      /\ i \in JobIds \ troubled => Fits("charging", c, rows[i])
  BY <1>1, InHand
<1>3. CreditMove /\ \A b \in Actors \ {w} : calls'[b] = calls[b]
  BY <1>1, <1>2, ReturnIsMove
<1>4. calls'[w] = P!Idle
  BY <1>1, <1>2 DEF Credit!Return, Credit!Idle, P!Idle, ChargeInv, P!PayoutOK, P!CallsOK
<1>5. CASE ChargeSucceeds(w)
  <2>1. PICK k : k = Charged(c)
    OBVIOUS
  <2>2. /\ k.charge = "charged" /\ k.status = "processing" /\ k.billed = c.billed
        /\ k.refunded = c.refunded /\ k.submitted = c.submitted
    BY <1>2, <2>1 DEF Charged, JobFields
  <2>3. OnlyRow(i, rows[i]) /\ UNCHANGED troubled /\ Holding(w, "charged", k)
    BY <1>5, <2>1, RowIsLeft DEF ChargeSucceeds, historyVars
  <2>4. i \in JobIds \ troubled' => Becomes(w, rows[i], rows[i]) /\ Fits("charged", k, rows[i])
    BY <1>2, <2>2, <2>3 DEF Fits, Becomes
  <2> QED
    BY <1>1, <1>3, <1>4, <2>3, <2>4, HoldStep
<1>6. CASE Holding(w, "fail", [c EXCEPT !.charge = "refund_pending"]) /\ UNCHANGED <<rows, historyVars>>
  <2>1. PICK k : k = [c EXCEPT !.charge = "refund_pending"]
    OBVIOUS
  <2>2. k.charge = "refund_pending" /\ k.billed = c.billed /\ k.refunded = c.refunded
    BY <1>2, <2>1 DEF JobFields
  <2>3. OnlyRow(i, rows[i]) /\ UNCHANGED troubled /\ Holding(w, "fail", k)
    BY <1>6, <2>1, RowIsLeft DEF historyVars
  <2>4. i \in JobIds \ troubled' => Becomes(w, rows[i], rows[i]) /\ Fits("fail", k, rows[i])
    BY <1>2, <2>2, <2>3 DEF Fits, Becomes
  <2> QED
    BY <1>1, <1>3, <1>4, <2>3, <2>4, HoldStep
<1>7. CASE /\ troubled' = troubled \cup {i} /\ Leave(w)
           /\ rows' = [rows EXCEPT ![i].status = "failed"] \/ UNCHANGED rows
  <2>1. PICK r : OnlyRow(i, r)
    <3>1. CASE UNCHANGED rows
      BY <3>1, RowIsLeft
    <3>2. CASE rows' = [rows EXCEPT ![i].status = "failed"]
      <4>1. PICK r : r = [rows[i] EXCEPT !.status = "failed"]
        OBVIOUS
      <4>2. OnlyRow(i, r)
        BY <1>2, <3>2, <4>1 DEF OnlyRow, ChargeInv, RowsOK
      <4> QED
        BY <4>2
    <3> QED
      BY <1>7, <3>1, <3>2
  <2> QED
    BY <1>1, <1>3, <1>4, <1>7, <2>1, LeaveStep
<1> QED
  BY <1>5, <1>6, <1>7 DEF ChargeFails

LEMMA StudioRefund ==
  ASSUME StudioInv, ChargeInv', NEW a \in Actors, RefundEnds(a)
  PROVE  StudioInv'
<1> DEFINE i == Id(a)
           c == Job(a)
<1>1. /\ Busy(a) /\ tasks[a].at = "refunding" /\ Leave(a)
      /\ Credit!Return(a) /\ UNCHANGED <<final, applied, sent>>
  BY DEF RefundEnds, At, Busy
<1>2. /\ c = [f \in JobFields |-> c[f]] /\ ChargeInv
      /\ i \in JobIds \ troubled =>
            rows[i] # NoJob /\ c.billed = rows[i].billed /\ rows[i].status \in {"failed", "refunded"}
  BY <1>1, InHand DEF Fits, RefundCopy
<1>3. CreditMove /\ \A b \in Actors \ {a} : calls'[b] = calls[b]
  BY <1>1, <1>2, ReturnIsMove
<1>4. calls'[a] = P!Idle
  BY <1>1, <1>2 DEF Credit!Return, Credit!Idle, P!Idle, ChargeInv, P!PayoutOK, P!CallsOK
<1>5. PICK r : r = [c EXCEPT !.charge = "refunded", !.status = "refunded", !.refunded = TRUE]
  OBVIOUS
<1>6. CASE UNCHANGED <<rows, historyVars>>
  <2>1. OnlyRow(i, rows[i]) /\ Becomes(a, rows[i], rows[i]) /\ UNCHANGED troubled
    BY <1>6, RowIsLeft DEF Becomes, historyVars
  <2> QED
    BY <1>1, <1>3, <1>4, <2>1, LeaveStep
<1>7. CASE Lost(i)
  <2>1. OnlyRow(i, rows[i]) /\ Becomes(a, rows[i], rows[i]) /\ troubled \subseteq troubled'
    BY <1>7, RowIsLeft DEF Becomes, Lost
  <2> QED
    BY <1>1, <1>3, <1>4, <2>1, LeaveStep
<1>8. CASE Written(i, r)
  <2>1. OnlyRow(i, r) /\ UNCHANGED troubled
    BY <1>8, RowIsWritten DEF Written, historyVars
  <2>2. r # NoJob /\ ChargeFits(r) /\ r.billed = c.billed /\ r.status = "refunded"
    BY <1>2, <1>5, RefundedFits
  <2>3. i \in JobIds \ troubled' => Becomes(a, rows[i], r)
    BY <1>2, <2>1, <2>2 DEF Becomes
  <2> QED
    BY <1>1, <1>3, <1>4, <2>1, <2>3, LeaveStep
<1> QED
  BY <1>5, <1>6, <1>7, <1>8 DEF RefundEnds, WrittenOrLost

\* The poller with one of its copies.
LEMMA StudioPolled ==
  ASSUME StudioInv, ChargeInv',
         RetryRefund \/ PassOver \/ VideoRuns \/ VideoDone \/ VideoFailed \/ ArchiveFails
  PROVE  StudioInv'
<1> USE DEF At, Written, Lost, WrittenOrLost
<1> DEFINE i == Id(Poller)
           c == Job(Poller)
<1>1. Poller \in Actors /\ Busy(Poller) /\ tasks[Poller].at \in {"refund", "ask"}
  BY DEF Actors, RetryRefund, PassOver, VideoRuns, VideoDone, VideoFailed, ArchiveFails, Asks, Busy
<1>2. /\ c = [f \in JobFields |-> c[f]] /\ JobOK(i, c) /\ ChargeInv /\ calls[Poller] = P!Idle
      /\ i \in JobIds \ troubled =>
            /\ tasks[Poller].at = "ask" => VideoCopy(c, rows[i])
            /\ tasks[Poller].at = "refund" => RefundCopy(c, rows[i])
  BY <1>1, InHand
<1>3. ASSUME i \in JobIds \ troubled, tasks[Poller].at = "ask", c.submitted
      PROVE  c = rows[i] /\ c.status = "processing" /\ ~c.refunded /\ (c.billed => c.charge = "charged")
  <2>1. c = rows[i] /\ rows[i] # NoJob /\ c.status = "processing"
    BY <1>2, <1>3 DEF VideoCopy
  <2>2. ChargeFits(rows[i])
    BY <1>3, <2>1 DEF StudioInv, JobInv, JobState
  <2> QED
    BY <2>1, <2>2 DEF ChargeFits
<1>4. PICK failed : failed = Failed(c)
  OBVIOUS
<1>5. JobOK(i, failed)
  BY <1>2, <1>4, FailedIsOK
<1>6. ASSUME i \in JobIds \ troubled, tasks[Poller].at = "ask", c.submitted
      PROVE  Becomes(Poller, rows[i], failed) /\ RefundCopy(failed, failed)
  <2>1. failed # NoJob /\ ChargeFits(failed) /\ failed.billed = c.billed /\ failed.status = "failed"
    BY <1>2, <1>3, <1>4, <1>6, FailedFits
  <2> QED
    BY <1>3, <1>6, <2>1 DEF Becomes, RefundCopy
<1>7. CASE RetryRefund
  <2>1. /\ tasks[Poller].at = "refund" /\ RefundJob(Poller, i, c) /\ UNCHANGED <<final, applied, sent, troubled>>
        /\ OnlyRow(i, rows[i])
    BY <1>7, RowIsLeft DEF RetryRefund, historyVars
  <2>2. i \in JobIds \ troubled' => Becomes(Poller, rows[i], rows[i]) /\ RefundCopy(c, rows[i])
    BY <1>2, <2>1 DEF Becomes
  <2> QED
    BY <1>1, <1>2, <2>1, <2>2, RefundStep
<1>8. CASE PassOver \/ VideoRuns \/ VideoDone
  <2>1. UNCHANGED creditVars /\ Leave(Poller) /\ tasks[Poller].at = "ask"
    BY <1>8 DEF PassOver, VideoRuns, VideoDone, Asks
  <2>2. CASE UNCHANGED rows /\ troubled \subseteq troubled'
    <3>1. OnlyRow(i, rows[i]) /\ Becomes(Poller, rows[i], rows[i])
      BY <2>2, RowIsLeft DEF Becomes
    <3> QED
      BY <1>1, <2>1, <2>2, <3>1, QuietJob
  <2>3. CASE Written(i, c) /\ c.submitted
    <3>1. OnlyRow(i, c) /\ UNCHANGED troubled
      BY <2>3, RowIsWritten DEF historyVars
    <3>2. i \in JobIds \ troubled' => Becomes(Poller, rows[i], c)
      BY <1>3, <2>1, <2>3, <3>1 DEF Becomes
    <3> QED
      BY <1>1, <2>1, <3>1, <3>2, QuietJob
  <2>4. CASE Written(i, [c EXCEPT !.status = "completed"]) /\ c.submitted
    <3>1. PICK r : r = [c EXCEPT !.status = "completed"]
      OBVIOUS
    <3>2. OnlyRow(i, r) /\ UNCHANGED troubled
      BY <2>4, <3>1, RowIsWritten DEF historyVars
    <3>3. i \in JobIds \ troubled' => Becomes(Poller, rows[i], r)
      <4>1. SUFFICES ASSUME i \in JobIds \ troubled
                     PROVE  Becomes(Poller, rows[i], r)
        BY <3>2
      <4>2. c = rows[i] /\ c.status = "processing" /\ (c.billed => c.charge = "charged")
        BY <1>3, <2>1, <2>4, <4>1
      <4>3. r # NoJob /\ ChargeFits(r) /\ r.billed = c.billed
        BY <1>2, <3>1, <4>2, CompletedFits
      <4> QED
        BY <2>4, <4>2, <4>3 DEF Becomes
    <3> QED
      BY <1>1, <2>1, <3>2, <3>3, QuietJob
  <2> QED
    BY <1>8, <2>2, <2>3, <2>4 DEF PassOver, VideoRuns, VideoDone, Asks
<1>9. CASE VideoFailed
  <2>1. /\ tasks[Poller].at = "ask" /\ c.submitted /\ UNCHANGED <<final, applied, sent>>
        /\ RefundJob(Poller, i, failed) /\ (Written(i, failed) \/ Lost(i))
    BY <1>4, <1>9 DEF VideoFailed, FailAndRefund, Asks
  <2>2. CASE Written(i, failed)
    <3>1. OnlyRow(i, failed) /\ UNCHANGED troubled
      BY <2>2, RowIsWritten DEF historyVars
    <3> QED
      BY <1>1, <1>2, <1>5, <1>6, <2>1, <3>1, RefundStep
  <2>3. CASE Lost(i)
    <3>1. OnlyRow(i, rows[i]) /\ troubled \subseteq troubled' /\ i \in troubled'
      BY <2>3, RowIsLeft
    <3> QED
      BY <1>1, <1>2, <1>5, <2>1, <3>1, RefundStep
  <2> QED
    BY <2>1, <2>2, <2>3
<1>10. CASE ArchiveFails
  <2>1. tasks[Poller].at = "ask" /\ c.submitted /\ UNCHANGED <<final, applied, sent, troubled>>
    BY <1>10 DEF ArchiveFails, Asks
  <2>2. CASE rows' = [rows EXCEPT ![i] = c] /\ Leave(Poller) /\ UNCHANGED calls
    <3>1. OnlyRow(i, c) /\ UNCHANGED creditVars
      BY <2>1, <2>2, RowIsWritten DEF creditVars
    <3>2. i \in JobIds \ troubled' => Becomes(Poller, rows[i], c)
      BY <1>3, <2>1 DEF Becomes
    <3> QED
      BY <1>1, <2>1, <2>2, <3>1, <3>2, QuietJob
  <2>3. CASE rows' = [rows EXCEPT ![i] = failed] /\ RefundJob(Poller, i, failed)
    <3>1. OnlyRow(i, failed)
      BY <2>3, RowIsWritten
    <3> QED
      BY <1>1, <1>2, <1>5, <1>6, <2>1, <2>3, <3>1, RefundStep
  <2> QED
    BY <1>4, <1>10, <2>2, <2>3 DEF ArchiveFails
<1> QED
  BY <1>7, <1>8, <1>9, <1>10

-----------------------------------------------------------------------------
(***************************************************************************)
(* Steps outside the jobs.                                                  *)
(***************************************************************************)
LEMMA FreeStep ==
  ASSUME StudioInv, ChargeInv', NEW a \in Actors, NEW t, tasks' = [tasks EXCEPT ![a] = t],
         UNCHANGED <<creditVars, rows, troubled>>, calls[a] = P!Idle,
         \A j \in JobIds \ troubled : Sits(a, t, j, rows[j]),
         a \in Workers => \A j \in JobIds : ~Holds(t, j)
  PROVE  StudioInv'
<1>1. CreditMove /\ \A b \in Actors : calls'[b] = calls[b]
  BY DEF CreditMove, creditVars
<1>2. CallsPlaced'
  BY <1>1, OnePlaced DEF Placed
<1>3. ASSUME NEW j \in JobIds \ troubled'
      PROVE  JobInv(j)'
  <2>1. PICK r : r = rows[j]
    OBVIOUS
  <2>2. JobState(j, r)'
    BY <1>1, <2>1, StateMoves
  <2> QED
    BY <1>1, <2>1, <2>2, OneSits
<1> QED
  BY <1>2, <1>3 DEF StudioInv

LEMMA StudioRequest ==
  ASSUME StudioInv, ChargeInv', NEW w \in Workers, Request(w)
  PROVE  StudioInv'
<1>0. PICK key \in RequestKeys, kind \in {"image", "video"}, billed \in BOOLEAN :
         tasks' = [tasks EXCEPT ![w] =
            [at |-> "insert", id |-> 0, job |-> NewJob(key, kind, billed)]]
  BY DEF Request
<1>1. PICK t : /\ t = [at |-> "insert", id |-> 0, job |-> NewJob(key, kind, billed)]
               /\ tasks' = [tasks EXCEPT ![w] = t]
  BY <1>0
<1>2. UNCHANGED <<creditVars, rows, troubled>> /\ tasks[w].at = "idle"
  <2>1. UNCHANGED <<creditVars, rows, troubled>>
    BY DEF Request, creditVars
  <2>2. tasks[w] = Idle
    BY DEF Request
  <2> QED
    BY <2>1, <2>2 DEF Idle
<1>3. calls[w] = P!Idle
  BY <1>2, WorkersAreActors DEF StudioInv, CallsPlaced, Placed
<1>4. t.at = "insert" /\ t.job = NewJob(key, kind, billed)
  BY <1>1
<1>5. \A j, r : Sits(w, t, j, r) /\ ~Holds(t, j)
  BY <1>1, <1>4, WorkersAreActors DEF Sits, WorkerSits, Holds
<1> QED
  BY <1>1, <1>2, <1>3, <1>5, FreeStep, WorkersAreActors

\* The row is new, nobody else has the job, and nothing was called for it.
LEMMA StudioInsert ==
  ASSUME StudioInv, ChargeInv', NEW w \in Workers, Insert(w)
  PROVE  StudioInv'
<1>1. /\ w \in Actors /\ w # Poller /\ tasks[w] # Idle /\ tasks[w].at = "insert"
      /\ UNCHANGED <<final, applied, sent, troubled>> /\ ChargeInv
  BY WorkersAreActors DEF Insert, At, Idle, StudioInv
<1>2. calls[w] = P!Idle
  BY <1>1 DEF StudioInv, CallsPlaced, Placed
<1>3. CASE Leave(w) /\ UNCHANGED <<rows, calls>>
  <2>1. PICK t : t = Idle
    OBVIOUS
  <2>2. tasks' = [tasks EXCEPT ![w] = t] /\ t.at = "idle"
    BY <1>1, <1>3, <2>1 DEF Leave, Idle
  <2>3. \A j, r : Sits(w, t, j, r) /\ ~Holds(t, j)
    BY <1>1, <2>2 DEF Sits, WorkerSits, Holds
  <2> QED
    BY <1>1, <1>2, <1>3, <2>2, <2>3, FreeStep DEF creditVars
<1>4. ASSUME NEW i \in JobIds, rows[i] = NoJob,
             rows' = [rows EXCEPT ![i] = Job(w)],
             NEW at, at = (IF Job(w).billed THEN "charging" ELSE "generate"),
             tasks' = [tasks EXCEPT ![w].id = i, ![w].at = at],
             IF Job(w).billed THEN Credit!Call(w, [key |-> ChargeKey(i), delta |-> -Price])
                              ELSE UNCHANGED calls
      PROVE  StudioInv'
  <2>1. PICK job : job = Job(w)
    OBVIOUS
  <2>2. PICK t : t = [tasks[w] EXCEPT !.id = i, !.at = at]
    OBVIOUS
  <2>3. tasks' = [tasks EXCEPT ![w] = t]
    BY <1>1, <1>4, <2>2 DEF ChargeInv, TasksOK
  <2>4. t.id = i /\ t.at = at /\ t.job = job
    BY <1>1, <2>1, <2>2, TaskShape DEF WorkerFields, Job
  <2>5. CreditMove
    <3>1. CASE job.billed
      <4>1. RefundOK(ChargeKey(i)) /\ ChargeKey(i) \in Keys
        BY KeysAreKeys DEF RefundOK, ChargeKey, RefundKey
      <4>2. -Price # 0
        BY CreativeAssumption
      <4> QED
        BY <1>1, <1>4, <2>1, <3>1, <4>1, <4>2 DEF CreditMove, AsksFor
    <3>2. CASE ~job.billed
      BY <1>1, <1>4, <2>1, <3>2 DEF CreditMove, creditVars
    <3> QED
      BY <3>1, <3>2
  <2>6. \A b \in Actors \ {w} : calls'[b] = calls[b]
    BY <1>1, <1>4 DEF Credit!Call, ChargeInv, P!PayoutOK, P!CallsOK
  <2>7. PICK c : c = calls'[w]
    OBVIOUS
  <2>8. Placed(t, c)
    <3>1. CASE job.billed
      BY <1>1, <1>4, <2>1, <2>4, <2>7, <3>1 DEF Placed, Credit!Call, ChargeInv, P!PayoutOK, P!CallsOK
    <3>2. CASE ~job.billed
      BY <1>2, <1>4, <2>1, <2>7, <3>2 DEF Placed
    <3> QED
      BY <3>1, <3>2
  <2>9. CallsPlaced'
    BY <1>1, <2>3, <2>6, <2>7, <2>8, OnePlaced
  <2>10. ASSUME NEW j \in JobIds \ troubled'
         PROVE  JobInv(j)'
    <3>1. JobInv(j) /\ j \notin troubled
      BY <1>1 DEF StudioInv
    <3>2. CASE j = i
      <4>1. PICK key, kind, billed : billed \in BOOLEAN /\ job = NewJob(key, kind, billed)
        BY <1>1, <2>1, <3>1 DEF JobInv, Sits, WorkerSits, Job
      <4>2. /\ job.billed = billed /\ ~job.refunded /\ ~job.submitted
            /\ job.charge = (IF billed THEN "pending" ELSE "upstream")
            /\ job.status = (IF billed THEN "created" ELSE "processing")
        BY <4>1 DEF NewJob
      <4>3. job # NoJob
        BY <1>1, <2>1, TaskShape, IsNoNoJob DEF JobOK
      <4>4. ChargeFits(job)
        BY <4>2 DEF ChargeFits
      <4>5. JobState(j, job)'
        BY <1>4, <2>5, <3>1, <3>2, <4>3, <4>4, StateMoves
      <4>6. Fits(at, job, job)
        BY <1>4, <2>1, <4>1, <4>2, <4>3 DEF Fits
      <4>7. Sits(w, t, j, job)
        BY <1>1, <1>4, <2>4, <4>6 DEF Sits, WorkerSits
      <4>8. ASSUME NEW b \in Actors, Sits(b, tasks[b], j, NoJob)
            PROVE  (Sits(b, tasks[b], j, job) /\ ~Holds(tasks[b], j)) \/ b = Poller
        BY <4>8 DEF Sits, WorkerSits, Fits
      <4>9. \A b \in Actors : Sits(b, tasks[b], j, NoJob) => Sits(b, tasks[b], j, job)
        <5>1. Sits(Poller, tasks[Poller], j, NoJob) => Sits(Poller, tasks[Poller], j, job)
          BY DEF Sits, PollerSits, VideoCopy, RefundCopy
        <5> QED
          BY <4>8, <5>1
      <4>10. \A v \in Workers : ~Holds(tasks[v], j)
        BY <1>4, <3>1, <3>2, <4>8, WorkersAreActors DEF JobInv
      <4>11. rows'[j] = job /\ rows[j] = NoJob
        BY <1>1, <1>4, <2>1, <3>2 DEF ChargeInv, RowsOK
      <4> QED
        BY <1>1, <2>3, <2>5, <3>1, <4>5, <4>7, <4>9, <4>10, <4>11, OneSits
    <3>3. CASE j # i
      <4>1. PICK r : r = rows[j]
        OBVIOUS
      <4>2. rows'[j] = r
        BY <1>1, <1>4, <3>3, <4>1 DEF ChargeInv, RowsOK
      <4>3. ~Holds(t, j) /\ t.at \notin {"insert", "next"}
        BY <1>4, <2>4, <3>3 DEF Holds
      <4>4. Sits(w, t, j, r)
        BY <1>1, <4>3 DEF Sits, WorkerSits
      <4>5. JobState(j, r)'
        BY <2>5, <3>1, <4>1, StateMoves
      <4> QED
        BY <1>1, <2>3, <2>5, <3>1, <4>1, <4>2, <4>3, <4>4, <4>5, OneSits
    <3> QED
      BY <3>2, <3>3
  <2> QED
    BY <2>9, <2>10 DEF StudioInv
<1> QED
  BY <1>3, <1>4 DEF Insert, Rows

\* The poller reads its lists and takes its copies.
LEMMA StudioPolls ==
  ASSUME StudioInv, ChargeInv', PollBegins \/ PhaseEnds \/ TakeJob
  PROVE  StudioInv'
<1>0. /\ Poller \in Actors /\ Poller \notin Workers /\ ChargeInv
      /\ UNCHANGED <<creditVars, rows, troubled>>
  BY PollerIsNoWorker DEF Actors, StudioInv, PollBegins, PhaseEnds, TakeJob, historyVars
<1>1. tasks[Poller].at \in {"idle", "next"}
  <2>1. CASE tasks[Poller] = Idle
    BY <2>1 DEF Idle
  <2>2. CASE tasks[Poller].at = "next"
    BY <2>2
  <2>3. tasks[Poller] = Idle \/ tasks[Poller].at = "next"
    BY DEF PollBegins, PhaseEnds, TakeJob, At
  <2> QED
    BY <2>1, <2>2, <2>3
<1>2. calls[Poller] = P!Idle
  BY <1>0, <1>1 DEF StudioInv, CallsPlaced, Placed
<1>3. \A S : \A x \in Copies(S) : x.job = rows[x.id] /\ x = [id |-> x.id, job |-> rows[x.id]] /\ x.id \in S
  BY DEF Copies
<1>4. CASE PollBegins
  <2>1. PICK t : t = [at |-> "next", phase |-> "videos", todo |-> Copies(PendingVideos),
                      id |-> 0, job |-> NoJob]
    OBVIOUS
  <2>2. tasks' = [tasks EXCEPT ![Poller] = t]
    BY <1>4, <2>1 DEF PollBegins
  <2>3. \A j \in JobIds : Sits(Poller, t, j, rows[j])
    BY <1>3, <2>1 DEF Sits, PollerSits, VideoCopy, PendingVideos, Rows
  <2> QED
    BY <1>0, <1>2, <2>2, <2>3, FreeStep
<1>5. CASE PhaseEnds
  <2>1. tasks[Poller] # Idle /\ tasks[Poller].at = "next"
    BY <1>5 DEF PhaseEnds, At, Idle
  <2>2. CASE tasks' = [tasks EXCEPT ![Poller] = Idle]
    <3>1. PICK t : t = Idle
      OBVIOUS
    <3>2. \A j \in JobIds : Sits(Poller, t, j, rows[j])
      BY <3>1 DEF Sits, PollerSits, Idle
    <3> QED
      BY <1>0, <1>2, <2>2, <3>1, <3>2, FreeStep
  <2>3. CASE tasks' = [tasks EXCEPT ![Poller].phase = "refunds", ![Poller].todo = Copies(PendingRefunds)]
    <3>1. PICK t : t = [tasks[Poller] EXCEPT !.phase = "refunds", !.todo = Copies(PendingRefunds)]
      OBVIOUS
    <3>2. tasks' = [tasks EXCEPT ![Poller] = t]
      BY <1>0, <2>3, <3>1 DEF ChargeInv, TasksOK
    <3>3. t.at = "next" /\ t.phase = "refunds" /\ t.todo = Copies(PendingRefunds)
      BY <1>0, <2>1, <3>1, PollerShape DEF PollerFields
    <3>4. \A j \in JobIds : Sits(Poller, t, j, rows[j])
      BY <1>3, <3>3 DEF Sits, PollerSits, RefundCopy, PendingRefunds, Rows
    <3> QED
      BY <1>0, <1>2, <3>2, <3>4, FreeStep
  <2> QED
    BY <1>5, <2>2, <2>3 DEF PhaseEnds
<1>6. CASE TakeJob
  <2>1. tasks[Poller] # Idle /\ tasks[Poller].at = "next"
    <3>1. tasks[Poller].at = "next"
      BY <1>6 DEF TakeJob, At
    <3> QED
      BY <3>1 DEF Idle
  <2>0. PICK at : at = IF tasks[Poller].phase = "videos" THEN "ask" ELSE "refund"
    OBVIOUS
  <2>2. PICK x \in tasks[Poller].todo :
           tasks' = [tasks EXCEPT ![Poller].at = at, ![Poller].todo = @ \ {x},
                                  ![Poller].id = x.id, ![Poller].job = x.job]
    BY <1>6, <2>0 DEF TakeJob
  <2>3. PICK t : t = [tasks[Poller] EXCEPT !.at = at, !.todo = @ \ {x}, !.id = x.id, !.job = x.job]
    OBVIOUS
  <2>4. tasks' = [tasks EXCEPT ![Poller] = t]
    BY <1>0, <2>2, <2>3 DEF ChargeInv, TasksOK
  <2>5. /\ t.at = at /\ t.todo = tasks[Poller].todo \ {x} /\ t.id = x.id /\ t.job = x.job
        /\ t.phase = tasks[Poller].phase
    BY <1>0, <2>1, <2>3, PollerShape DEF PollerFields
  <2>6. ASSUME NEW j \in JobIds \ troubled
        PROVE  Sits(Poller, t, j, rows[j])
    <3>1. PollerSits(tasks[Poller], j, rows[j])
      BY <1>0 DEF StudioInv, JobInv, Sits
    <3> QED
      BY <2>0, <2>1, <2>2, <2>5, <3>1 DEF Sits, PollerSits
  <2> QED
    BY <1>0, <1>2, <2>4, <2>6, FreeStep
<1> QED
  BY <1>4, <1>5, <1>6

\* Only the service goes on.
LEMMA StudioKept ==
  ASSUME StudioInv, ChargeInv', UNCHANGED <<rows, tasks, troubled>>,
         UNCHANGED creditVars \/ Credit!Upstream \/ \E a \in Actors : Credit!WorkerStep(a)
  PROVE  StudioInv'
<1>1. CreditMove /\ ChargeInv
  BY DEF CreditMove, StudioInv
<1>2. UNCHANGED P!vars \/ P!Upstream \/ \E a \in Actors : P!WorkerStep(a)
  BY DEF UpKeyOf, creditVars, P!vars, Credit!Upstream, Credit!Apply, Credit!Lose, P!Upstream,
     P!Apply, P!Lose, Credit!WorkerStep, Credit!Send, Credit!Succeed, Credit!Skip, Credit!Fail,
     Credit!End, Credit!Request, Credit!Final, P!WorkerStep, P!Send, P!Succeed, P!Skip,
     P!Fail, P!End, P!Request, P!Final
<1>3. ASSUME NEW a \in Actors
      PROVE  Placed(tasks[a], calls[a])'
  <2>1. PICK t, c, d : t = tasks[a] /\ c = calls[a] /\ d = calls'[a]
    OBVIOUS
  <2>2. Placed(t, c)
    BY <2>1 DEF StudioInv, CallsPlaced
  <2>3. c = P!Idle => d = P!Idle
    <3>1. ASSUME NEW b \in Actors, NEW pc, Credit!End(b, pc)
          PROVE  c = P!Idle => d = P!Idle
      <4>1. PICK e : calls' = [calls EXCEPT ![b] = e]
        BY <3>1 DEF Credit!End
      <4>2. calls[b] # P!Idle
        BY <3>1 DEF Credit!End, P!Idle
      <4> QED
        BY <1>1, <2>1, <4>1, <4>2 DEF ChargeInv, P!PayoutOK, P!CallsOK
    <3> QED
      BY <2>1, <3>1 DEF creditVars, Credit!Upstream, Credit!Apply, Credit!Lose, Credit!WorkerStep,
         Credit!Send, Credit!Succeed, Credit!Skip, Credit!Fail
  <2>4. c # P!Idle => d.req = c.req
    BY <1>1, <1>2, <2>1, P!RequestsStay DEF ChargeInv
  <2>5. Placed(t, d)
    BY <2>2, <2>3, <2>4 DEF Placed
  <2> QED
    BY <2>1, <2>5 DEF Placed, P!Idle, ChargeKey, RefundKey
<1>4. ASSUME NEW j \in JobIds \ troubled'
      PROVE  JobInv(j)'
  <2>1. PICK r : r = rows[j]
    OBVIOUS
  <2>2. JobState(j, r)'
    BY <1>1, <2>1, StateMoves
  <2>3. JobInv(j)
    BY DEF StudioInv
  <2>4. ASSUME NEW b \in Actors
        PROVE  Sits(b, tasks[b], j, rows[j])'
    <3>1. PICK u, q : u = tasks'[b] /\ q = rows'[j]
      OBVIOUS
    <3>2. Sits(b, u, j, q)
      BY <2>3, <3>1 DEF JobInv
    <3>3. Sits(b, u, j, q)'
      BY <3>2 DEF Sits, PollerSits, WorkerSits, Fits, VideoCopy, RefundCopy, Holds, NewJob, NoJob
    <3> QED
      BY <3>1, <3>3
  <2> QED
    BY <2>1, <2>2, <2>3, <2>4 DEF JobInv, Holds
<1> QED
  BY <1>3, <1>4 DEF StudioInv, CallsPlaced

LEMMA StudioCrash ==
  ASSUME StudioInv, ChargeInv', Crash
  PROVE  StudioInv'
<1>1. /\ tasks' = [a \in Actors |-> Idle] /\ UNCHANGED <<rows, troubled>>
      /\ calls' = [a \in Actors |-> P!Idle] /\ Credit!Crash
  BY DEF Crash, Credit!Crash, Credit!Idle, P!Idle
<1>2. CallsPlaced'
  BY <1>1 DEF CallsPlaced, Placed, P!Idle
<1>3. CreditMove
  BY <1>1 DEF CreditMove
<1>4. ASSUME NEW j \in JobIds \ troubled'
      PROVE  JobInv(j)'
  <2>1. PICK r : r = rows[j]
    OBVIOUS
  <2>2. JobState(j, r)'
    BY <1>1, <1>3, <2>1, StateMoves
  <2>3. \A a \in Actors : tasks'[a].at = "idle"
    BY <1>1 DEF Idle
  <2>4. \A a \in Actors : Sits(a, tasks'[a], j, r)
    BY <2>3 DEF Sits, PollerSits, WorkerSits, Holds
  <2>5. (\A a \in Actors : Sits(a, tasks[a], j, rows[j]))'
    BY <1>1, <2>1, <2>3 DEF Sits, PollerSits, WorkerSits, Holds
  <2> QED
    BY <1>1, <2>1, <2>2, <2>3, <2>5 DEF JobInv, Holds, Actors
<1> QED
  BY <1>2, <1>4 DEF StudioInv

LEMMA StudioInit == ASSUME Init PROVE StudioInv
<1>1. ChargeInv
  BY ChargeInit
<1>2. \A a \in Actors : tasks[a].at = "idle" /\ calls[a] = P!Idle
  BY DEF Init, Credit!Init, Credit!Idle, P!Idle, Idle
<1>3. ASSUME NEW j \in JobIds
      PROVE  JobInv(j)
  <2>1. rows[j] = NoJob /\ Fresh(ChargeKey(j)) /\ Fresh(RefundKey(j))
    BY KeysAreKeys DEF Init, Credit!Init, Fresh, P!Calm
  <2>2. JobState(j, rows[j])
    BY <2>1 DEF JobState
  <2> QED
    BY <1>2, <2>2 DEF JobInv, Sits, PollerSits, WorkerSits, Holds, Actors
<1> QED
  BY <1>1, <1>2, <1>3 DEF StudioInv, CallsPlaced, Placed

LEMMA StudioStep ==
  ASSUME StudioInv, [Next]_vars
  PROVE  StudioInv'
<1>1. ChargeInv'
  BY ChargeStep DEF StudioInv
<1>2. ASSUME NEW w \in Workers, Request(w) \/ WorkerStep(w)
      PROVE  StudioInv'
  BY <1>1, <1>2, StudioRequest, StudioInsert, StudioCharge, StudioWorker DEF WorkerStep
<1>3. CASE PollStep
  BY <1>1, <1>3, StudioPolls, StudioPolled DEF PollStep
<1>4. ASSUME NEW a \in Actors, Succeed(a) \/ Skip(a) \/ Send(a) \/ CreditFails(a)
      PROVE  StudioInv'
  <2>1. Credit!WorkerStep(a) /\ UNCHANGED <<rows, tasks, troubled>>
    BY <1>4 DEF Succeed, Skip, Send, CreditFails, Credit!WorkerStep, historyVars
  <2> QED
    BY <1>1, <2>1, StudioKept
<1>5. ASSUME NEW m \in sent, Apply(m) \/ Lose(m)
      PROVE  StudioInv'
  <2>1. Credit!Upstream /\ UNCHANGED <<rows, tasks, troubled>>
    BY <1>5 DEF Apply, Lose, Credit!Upstream, historyVars
  <2> QED
    BY <1>1, <2>1, StudioKept
<1>6. ASSUME NEW j \in JobIds, VideoEnds(j)
      PROVE  StudioInv'
  BY <1>1, <1>6, StudioKept DEF VideoEnds, historyVars
<1>7. CASE UNCHANGED vars
  BY <1>1, <1>7, StudioKept DEF vars, historyVars
<1> QED
  BY <1>1, <1>2, <1>3, <1>4, <1>5, <1>6, <1>7, StudioCrash, StudioRefund DEF Next

\* A work that is completed and was billed (creative/service.go) has been paid for,
\* and is not refunded behind its back by a copy of its job that is out of date.
THEOREM CompletedIsAlwaysPaid == Spec => []CompletedIsPaid
<1>1. Init => StudioInv
  BY StudioInit
<1>2. StudioInv /\ [Next]_vars => StudioInv'
  BY StudioStep
<1>3. StudioInv => CompletedIsPaid
  BY DEF StudioInv, JobInv, JobState, ChargeFits, Unsettled, Fresh, CompletedIsPaid, Rows,
     GivenBack, ChargeInv, RowsOK, JobOK
<1> QED
  BY <1>1, <1>2, <1>3, PTL DEF Spec

\* A failed job whose money was taken is among those the poller refunds, and stays
\* there until it says refunded, however many copies of it are about.
THEOREM FailedJobsStayDue == Spec => []FailedJobsAreDue
<1>1. Init => StudioInv
  BY StudioInit
<1>2. StudioInv /\ [Next]_vars => StudioInv'
  BY StudioStep
<1>3. StudioInv => FailedJobsAreDue
  BY DEF StudioInv, JobInv, JobState, ChargeFits, Fresh, FailedJobsAreDue, Rows, Taken,
     PendingRefunds, NeedsRefund
<1> QED
  BY <1>1, <1>2, <1>3, PTL DEF Spec
=============================================================================
