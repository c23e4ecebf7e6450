--------------------------- MODULE WorkerDiskProofs ---------------------------
(***************************************************************************)
(* The files on a worker's disk, for any number of runs, jobs, contents    *)
(* and attempts: the types, that names in the cache keep their files, that *)
(* what runs are given and report can be fetched, and, while Quiet, that   *)
(* the cache holds under each name what has that hash and that containers  *)
(* see their inputs; last, that images are built of their own context.     *)
(***************************************************************************)
EXTENDS WorkerDisk, TLAPS

\* The files that have a name in the cache.
Cached == {cache[c] : c \in Content} \ {NoFile}

-----------------------------------------------------------------------------
(* Whatever programs, clients and the server do.                           *)

\* What a run works with is there to work with.
HasWork(r) ==
  /\ at[r] # "failed" => tries[r] < MaxTry
  /\ at[r] \in {"look", "fetch", "pipe", "hash", "exists", "swap", "relink", "publish"} => Input(r) # NoInput
  /\ at[r] \in {"exists", "swap", "relink", "publish", "name", "send"} => hash[r] \in Content
  /\ at[r] \in {"name", "send"} /\ ~world.clears => outputs[JobOf(r)] # NoFile
  /\ at[r] = "send" => ~world.local

\* What a job was given, and what it told, stays where it can be fetched.
Fetchable(r) ==
  /\ at[r] # "claimed" /\ Input(r).hash =>
       IF world.local THEN Input(r).blob \in sent ELSE store[Whole(Input(r).blob)] # Nothing
  /\ told[r] # Nothing =>
       IF world.local THEN cache[told[r]] # NoFile \/ world.clears ELSE store[told[r]] # Nothing

\* An upload has its name from the beginning, and only a local worker receives one.
UploadsAreNamed ==
  /\ upload # NoUpload => world.local /\ cache[Whole(upload.blob)] = upload.file
  /\ \A b \in sent : cache[Whole(b)] # NoFile
  /\ ~world.local => \A j \in Job : world.input[j].hash => store[Whole(world.input[j].blob)] # Nothing

Basic == TypeOK /\ UploadsAreNamed /\ \A r \in Run : HasWork(r) /\ Fetchable(r)

-----------------------------------------------------------------------------
(* While Quiet.                                                            *)

\* A file with two names in the directories of jobs comes from the cache.
Shared ==
  /\ \A j, k \in Job : inputs[j] = outputs[k] /\ inputs[j] # NoFile => inputs[j] \in Cached
  /\ \A j, k \in Job : j # k /\ inputs[j] = inputs[k] /\ inputs[j] # NoFile => inputs[j] \in Cached
  /\ \A j, k \in Job : j # k /\ outputs[j] = outputs[k] /\ outputs[j] # NoFile => outputs[j] \in Cached

Named == \A c \in Content : cache[c] # NoFile => data[cache[c]] = c \/ Whole(upload.blob) = c

\* The file of an upload has one name, and it is a blob nobody has sent before.
UploadIsNew ==
  upload # NoUpload =>
    /\ upload.blob \notin sent
    /\ \A c \in Content : cache[c] = upload.file => c = Whole(upload.blob)

StoredByName == \A c \in Content : store[c] \in {c, Nothing}

\* Where a run loads its input, which nobody else can reach before it is published.
Loading == {"look", "fetch", "pipe", "hash", "exists", "swap", "publish"}

LoadsAlone(r) ==
  LET i == inputs[JobOf(r)]
      c == Whole(Input(r).blob) IN
  /\ at[r] \in Loading => i \notin Cached
  /\ at[r] = "pipe" => open[r] = i /\ i # NoFile
  /\ at[r] \in {"hash", "exists", "swap", "publish"} => i # NoFile /\ data[i] = c
  /\ at[r] \in {"exists", "swap", "relink", "publish"} => hash[r] = c
  /\ at[r] \in {"swap", "relink"} => cache[hash[r]] # NoFile

\* The input of a run is certain: its reference has the hash, or nobody uploads.
Certain(r) == Input(r).hash \/ ~world.local

Mounts(r) ==
  LET i == inputs[JobOf(r)]
      c == Whole(Input(r).blob) IN
  /\ at[r] = "mounted" => IF Input(r) = NoInput THEN i = NoFile
                          ELSE Certain(r) => i # NoFile /\ i = cache[c]
  /\ at[r] = "running" /\ Certain(r) => saw[r] = c

\* The output of a run is its own until it is done.
Makes(r) ==
  LET i == outputs[JobOf(r)] IN
  /\ at[r] # "done" => i \notin Cached
  /\ at[r] \in {"name", "send"} => i # NoFile /\ data[i] = hash[r]

InOrder(r) == LoadsAlone(r) /\ Mounts(r) /\ Makes(r)

Orderly == Shared /\ Named /\ UploadIsNew /\ StoredByName /\ \A r \in Run : InOrder(r)

IInv == Basic /\ (Quiet => Orderly)

-----------------------------------------------------------------------------
(* What the records of a world say.                                        *)

LEMMA WorldIsKnown ==
  ASSUME TypeOK
  PROVE  /\ \A r \in Run : JobOf(r) \in Job
         /\ \A j \in Job : world.input[j] \in [blob : Blob, hash : BOOLEAN] \cup {NoInput}
         /\ \A r \in Run : Input(r) \in [blob : Blob, hash : BOOLEAN] \cup {NoInput}
         /\ \A r \in Run : Input(r).hash \in BOOLEAN
         /\ \A r \in Run : Input(r).hash => Input(r) # NoInput
         /\ \A r \in Run : Input(r) # NoInput => Input(r).blob \in Blob
         /\ world.local \in BOOLEAN /\ world.clears \in BOOLEAN
<1>1. world \in Worlds
  BY FilesAssumption DEF TypeOK
<1>2. /\ world.of \in [Run -> Job]
      /\ world.input \in [Job -> [blob : Blob, hash : BOOLEAN] \cup {NoInput}]
      /\ world.local \in BOOLEAN /\ world.clears \in BOOLEAN
  BY <1>1 DEF Worlds
<1>3. \A r \in Run : JobOf(r) \in Job
  BY <1>2 DEF JobOf
<1>4. \A r \in Run : Input(r) \in [blob : Blob, hash : BOOLEAN] \cup {NoInput}
  BY <1>2, <1>3 DEF Input
<1>5. NoInput.hash = FALSE
  BY DEF NoInput
<1> QED
  BY <1>2, <1>3, <1>4, <1>5

\* A content is not Nothing, and a blob is known by its whole content.
LEMMA ContentsAreSomething ==
  /\ Nothing \notin Content
  /\ \A b \in Blob : Whole(b) \in Content /\ Torn(b) \in Content
  /\ \A b, c \in Blob : Whole(b) = Whole(c) => b = c
  /\ NoFile \notin File
  /\ Whole(NoUpload.blob) \notin Content
<1>1. 0 \notin Blob
  BY FilesAssumption
<1>2. Nothing \notin Content /\ Whole(NoUpload.blob) \notin Content
  BY <1>1 DEF Nothing, Content, Whole, NoUpload
<1>3. NoFile \notin File
  BY FilesAssumption DEF NoFile
<1> QED
  BY <1>2, <1>3 DEF Content, Whole, Torn

\* A new file is one that nobody has.
LEMMA NewFileIsNew ==
  ASSUME HasRoom
  PROVE  NewFile \in File /\ NewFile \notin InUse
BY DEF HasRoom, NewFile

LEMMA BasicInit == ASSUME Init PROVE Basic
<1> USE DEF Init
<1>1. TypeOK
  <2>1. data \in [File -> Content]
    <3>1. (CHOOSE b \in Blob : TRUE) \in Blob
      BY FilesAssumption
    <3> QED
      BY <3>1, ContentsAreSomething
  <2>2. store \in [Content -> Content \cup {Nothing}]
    OBVIOUS
  <2>3. MaxTry \in Nat \ {0} /\ MaxUploads \in Nat
    BY FilesAssumption
  <2>4. tries \in [Run -> 0 .. MaxTry] /\ uploads \in 0 .. MaxUploads
    BY <2>3
  <2>5. at \in [Run -> Places]
    BY DEF Places
  <2> QED
    BY <2>1, <2>2, <2>4, <2>5 DEF TypeOK
<1>2. UploadsAreNamed
  <2>1. ASSUME NEW j \in Job, world.input[j].hash
        PROVE  store[Whole(world.input[j].blob)] # Nothing
    <3>1. Whole(world.input[j].blob) \in Content
      BY <1>1, <2>1, WorldIsKnown, ContentsAreSomething DEF NoInput
    <3> QED
      BY <3>1, ContentsAreSomething
  <2> QED
    BY <2>1 DEF UploadsAreNamed
<1>3. ASSUME NEW r \in Run
      PROVE  HasWork(r) /\ Fetchable(r)
  BY FilesAssumption DEF HasWork, Fetchable
<1> QED
  BY <1>1, <1>2, <1>3 DEF Basic

\* The next attempt is within bounds.
LEMMA TriesAreLeft ==
  ASSUME Basic, NEW r \in Run, at[r] # "failed"
  PROVE  tries[r] + 1 \in 0 .. MaxTry
<1>1. tries[r] \in 0 .. MaxTry /\ tries[r] < MaxTry
  BY DEF Basic, TypeOK, HasWork
<1> QED
  BY <1>1, FilesAssumption

\* A run that loads an input has one.
LEMMA InputIsContent ==
  ASSUME Basic, NEW r \in Run,
         at[r] \in {"look", "fetch", "pipe", "hash", "exists", "swap", "relink", "publish"}
  PROVE  /\ Input(r).blob \in Blob
         /\ Whole(Input(r).blob) \in Content /\ Torn(Input(r).blob) \in Content
         /\ cache[Whole(Input(r).blob)] \in File \cup {NoFile}
<1>1. TypeOK /\ Input(r) # NoInput
  BY DEF Basic, HasWork
<1>2. Input(r).blob \in Blob
  BY <1>1, WorldIsKnown
<1> QED
  BY <1>1, <1>2, ContentsAreSomething DEF TypeOK

\* The server has what a download asks for.
LEMMA InputIsServed ==
  ASSUME Basic, NEW r \in Run, at[r] \in {"fetch", "pipe"}
  PROVE  Served(r) \in Content
<1> DEFINE c == Whole(Input(r).blob)
<1>1. c \in Content /\ Input(r).blob \in Blob
  BY InputIsContent
<1>2. CASE Input(r).hash
  <2>1. TypeOK /\ Fetchable(r) /\ UploadsAreNamed
    BY DEF Basic
  <2>2. CASE world.local
    <3>1. cache[c] # NoFile
      BY <1>2, <2>1, <2>2 DEF Fetchable, UploadsAreNamed
    <3> QED
      BY <1>1, <1>2, <2>1, <2>2, <3>1 DEF Served, Stored, TypeOK
  <2>3. CASE ~world.local
    <3>1. store[c] # Nothing
      BY <1>2, <2>1, <2>3 DEF Fetchable
    <3> QED
      BY <1>1, <1>2, <2>1, <2>3, <3>1 DEF Served, Stored, TypeOK
  <2> QED
    BY <2>2, <2>3
<1>3. CASE ~Input(r).hash
  BY <1>1, <1>3 DEF Served
<1> QED
  BY <1>2, <1>3

LEMMA BeginIsBasic ==
  ASSUME Basic, NEW r \in Run, Begin(r)
  PROVE  Basic'
<1> USE DEF Basic, Begin, Go, Retry, files, run, sends
<1>1. TypeOK'
  BY WorldIsKnown, ContentsAreSomething, FilesAssumption DEF TypeOK, Places
<1>2. UploadsAreNamed'
  BY DEF UploadsAreNamed, TypeOK
<1>3. \A s \in Run : HasWork(s)'
  BY WorldIsKnown, ContentsAreSomething, FilesAssumption DEF HasWork, TypeOK, JobOf, Input
<1>4. \A s \in Run : Fetchable(s)'
  BY WorldIsKnown DEF Fetchable, UploadsAreNamed, TypeOK, JobOf, Input
<1> QED
  BY <1>1, <1>2, <1>3, <1>4 DEF Basic

LEMMA LookInCacheIsBasic ==
  ASSUME Basic, NEW r \in Run, LookInCache(r)
  PROVE  Basic'
<1> USE DEF Basic, LookInCache, Go, Retry, files, run, sends
<1>1. TypeOK'
  BY WorldIsKnown, InputIsContent DEF TypeOK, Places
<1>2. UploadsAreNamed'
  BY DEF UploadsAreNamed, TypeOK
<1>3. \A s \in Run : HasWork(s)'
  BY WorldIsKnown, ContentsAreSomething, FilesAssumption DEF HasWork, TypeOK, JobOf, Input
<1>4. \A s \in Run : Fetchable(s)'
  BY DEF Fetchable, TypeOK, JobOf, Input
<1> QED
  BY <1>1, <1>2, <1>3, <1>4 DEF Basic

LEMMA FetchFailsIsBasic ==
  ASSUME Basic, NEW r \in Run, FetchFails(r)
  PROVE  Basic'
<1> USE DEF Basic, FetchFails, Go, Retry, files, run, sends
<1>1. TypeOK'
  BY WorldIsKnown, TriesAreLeft DEF TypeOK, Places
<1>2. UploadsAreNamed'
  BY DEF UploadsAreNamed, TypeOK
<1>3. \A s \in Run : HasWork(s)'
  BY WorldIsKnown, ContentsAreSomething, FilesAssumption DEF HasWork, TypeOK, JobOf, Input
<1>4. \A s \in Run : Fetchable(s)'
  BY DEF Fetchable, TypeOK, JobOf, Input
<1> QED
  BY <1>1, <1>2, <1>3, <1>4 DEF Basic

LEMMA FetchOpensIsBasic ==
  ASSUME Basic, NEW r \in Run, FetchOpens(r)
  PROVE  Basic'
<1> USE DEF Basic, FetchOpens, Go, Retry, files, run, sends
<1>1. TypeOK'
  <2> DEFINE i == IF inputs[JobOf(r)] = NoFile THEN NewFile ELSE inputs[JobOf(r)]
  <2>1. i \in File
    BY WorldIsKnown, NewFileIsNew DEF TypeOK
  <2>2. data' = data \/ data' = [data EXCEPT ![i] = Torn(Input(r).blob)]
    OBVIOUS
  <2>3. data' \in [File -> Content]
    BY <2>2, InputIsContent DEF TypeOK
  <2>4. inputs' = [inputs EXCEPT ![JobOf(r)] = i] /\ open' = [open EXCEPT ![r] = i]
    OBVIOUS
  <2> HIDE DEF i
  <2>5. inputs' \in [Job -> File \cup {NoFile}] /\ open' \in [Run -> File \cup {NoFile}]
    BY <2>1, <2>4 DEF TypeOK
  <2> QED
    BY <2>3, <2>5 DEF TypeOK, Places
<1>2. UploadsAreNamed'
  BY DEF UploadsAreNamed, TypeOK
<1>3. \A s \in Run : HasWork(s)'
  BY WorldIsKnown, ContentsAreSomething, FilesAssumption DEF HasWork, TypeOK, JobOf, Input
<1>4. \A s \in Run : Fetchable(s)'
  BY DEF Fetchable, TypeOK, JobOf, Input
<1> QED
  BY <1>1, <1>2, <1>3, <1>4 DEF Basic

LEMMA PipeEndsIsBasic ==
  ASSUME Basic, NEW r \in Run, PipeEnds(r)
  PROVE  Basic'
<1> USE DEF Basic, PipeEnds, Go, Retry, files, run, sends
<1>1. TypeOK'
  BY WorldIsKnown, InputIsServed DEF TypeOK, Places
<1>2. UploadsAreNamed'
  BY DEF UploadsAreNamed, TypeOK
<1>3. \A s \in Run : HasWork(s)'
  BY WorldIsKnown, ContentsAreSomething, FilesAssumption DEF HasWork, TypeOK, JobOf, Input
<1>4. \A s \in Run : Fetchable(s)'
  BY DEF Fetchable, TypeOK, JobOf, Input
<1> QED
  BY <1>1, <1>2, <1>3, <1>4 DEF Basic

LEMMA PipeIsCutIsBasic ==
  ASSUME Basic, NEW r \in Run, PipeIsCut(r)
  PROVE  Basic'
<1> USE DEF Basic, PipeIsCut, Go, Retry, files, run, sends
<1>1. TypeOK'
  BY WorldIsKnown, TriesAreLeft DEF TypeOK, Places
<1>2. UploadsAreNamed'
  BY DEF UploadsAreNamed, TypeOK
<1>3. \A s \in Run : HasWork(s)'
  BY WorldIsKnown, ContentsAreSomething, FilesAssumption DEF HasWork, TypeOK, JobOf, Input
<1>4. \A s \in Run : Fetchable(s)'
  BY DEF Fetchable, TypeOK, JobOf, Input
<1> QED
  BY <1>1, <1>2, <1>3, <1>4 DEF Basic

LEMMA LinkFromCacheIsBasic ==
  ASSUME Basic, NEW r \in Run, LinkFromCache(r)
  PROVE  Basic'
<1> USE DEF Basic, LinkFromCache, Go, Retry, files, run, sends
<1>1. TypeOK'
  <2>1. cache[hash[r]] \in File \cup {NoFile}
    BY DEF HasWork, TypeOK
  <2> QED
    BY <2>1 DEF TypeOK, Places
<1>2. UploadsAreNamed'
  BY DEF UploadsAreNamed, TypeOK
<1>3. \A s \in Run : HasWork(s)'
  BY WorldIsKnown, ContentsAreSomething, FilesAssumption DEF HasWork, TypeOK, JobOf, Input
<1>4. \A s \in Run : Fetchable(s)'
  BY DEF Fetchable, TypeOK, JobOf, Input
<1> QED
  BY <1>1, <1>2, <1>3, <1>4 DEF Basic

LEMMA LinkToCacheIsBasic ==
  ASSUME Basic, NEW r \in Run, LinkToCache(r)
  PROVE  Basic'
<1> USE DEF Basic, LinkToCache, Go, Retry, files, run, sends
<1>1. TypeOK'
  BY WorldIsKnown, ContentsAreSomething, FilesAssumption DEF TypeOK, Places
<1>2. UploadsAreNamed'
  <2>1. \A c \in Content : cache[c] # NoFile => cache'[c] = cache[c]
    BY DEF CanLink, TypeOK
  <2>2. upload # NoUpload => Whole(upload.blob) \in Content
    BY ContentsAreSomething DEF TypeOK
  <2>3. upload # NoUpload => upload.file # NoFile
    BY ContentsAreSomething DEF TypeOK
  <2> QED
    BY <2>1, <2>2, <2>3, ContentsAreSomething DEF UploadsAreNamed, TypeOK
<1>3. \A s \in Run : HasWork(s)'
  BY WorldIsKnown, ContentsAreSomething, FilesAssumption DEF HasWork, TypeOK, JobOf, Input
<1>4. \A s \in Run : Fetchable(s)'
  <2>1. \A c \in Content : cache[c] # NoFile => cache'[c] = cache[c]
    BY DEF CanLink, TypeOK
  <2> QED
    BY <2>1 DEF Fetchable, TypeOK, JobOf, Input
<1> QED
  BY <1>1, <1>2, <1>3, <1>4 DEF Basic

LEMMA HashOutputIsBasic ==
  ASSUME Basic, NEW r \in Run, HashOutput(r)
  PROVE  Basic'
<1> USE DEF Basic, HashOutput, Go, Retry, files, run, sends
<1>1. TypeOK'
  <2>1. 0 \in 0 .. MaxTry
    BY FilesAssumption
  <2>2. outputs[JobOf(r)] \in File \cup {NoFile}
    BY WorldIsKnown DEF TypeOK
  <2> QED
    BY <2>1, <2>2 DEF TypeOK, Places
<1>2. UploadsAreNamed'
  BY DEF UploadsAreNamed, TypeOK
<1>3. \A s \in Run : HasWork(s)'
  <2>1. outputs[JobOf(r)] # NoFile => data[outputs[JobOf(r)]] \in Content
    BY WorldIsKnown DEF TypeOK
  <2>2. 0 < MaxTry
    BY FilesAssumption
  <2> QED
    BY <2>1, <2>2 DEF HasWork, TypeOK, JobOf, Input
<1>4. \A s \in Run : Fetchable(s)'
  BY DEF Fetchable, TypeOK, JobOf, Input
<1> QED
  BY <1>1, <1>2, <1>3, <1>4 DEF Basic

LEMMA GetLocalDataRefIsBasic ==
  ASSUME Basic, NEW r \in Run, GetLocalDataRef(r)
  PROVE  Basic'
<1> USE DEF Basic, GetLocalDataRef, Go, Retry, files, run, sends
<1>1. TypeOK'
  <2>1. hash[r] \in Content /\ JobOf(r) \in Job
    BY WorldIsKnown DEF HasWork
  <2>2. cache[hash[r]] \in File \cup {NoFile} /\ outputs[JobOf(r)] \in File \cup {NoFile}
    BY <2>1 DEF TypeOK
  <2>3. cache' \in [Content -> File \cup {NoFile}] /\ outputs' \in [Job -> File \cup {NoFile}]
    BY <2>1, <2>2 DEF TypeOK
  <2> QED
    BY <2>1, <2>3 DEF TypeOK, Places
<1>2. UploadsAreNamed'
  <2>1. \A c \in Content : cache[c] # NoFile => cache'[c] = cache[c]
    BY DEF CanLink, TypeOK
  <2>2. upload # NoUpload => Whole(upload.blob) \in Content
    BY ContentsAreSomething DEF TypeOK
  <2>3. upload # NoUpload => upload.file # NoFile
    BY ContentsAreSomething DEF TypeOK
  <2> QED
    BY <2>1, <2>2, <2>3, ContentsAreSomething DEF UploadsAreNamed, TypeOK
<1>3. \A s \in Run : HasWork(s)'
  BY WorldIsKnown, ContentsAreSomething, FilesAssumption DEF HasWork, TypeOK, JobOf, Input
<1>4. \A s \in Run : Fetchable(s)'
  <2>1. \A c \in Content : cache[c] # NoFile => cache'[c] = cache[c]
    BY DEF CanLink, TypeOK
  <2>2. hash[r] \in Content
    BY DEF HasWork
  <2>3. world.clears \/ outputs[JobOf(r)] # NoFile
    BY DEF HasWork
  <2>4. world.clears \/ cache'[hash[r]] # NoFile
    BY <2>2, <2>3 DEF CanLink, TypeOK
  <2> QED
    BY <2>1, <2>2, <2>4 DEF Fetchable, TypeOK, JobOf, Input
<1> QED
  BY <1>1, <1>2, <1>3, <1>4 DEF Basic

LEMMA AskExistsIsBasic ==
  ASSUME Basic, NEW r \in Run, AskExists(r)
  PROVE  Basic'
<1> USE DEF Basic, AskExists, Go, Retry, files, run, sends
<1>1. TypeOK'
  BY WorldIsKnown, ContentsAreSomething, FilesAssumption DEF TypeOK, Places
<1>2. UploadsAreNamed'
  BY DEF UploadsAreNamed, TypeOK
<1>3. \A s \in Run : HasWork(s)'
  BY WorldIsKnown, ContentsAreSomething, FilesAssumption DEF HasWork, TypeOK, JobOf, Input
<1>4. \A s \in Run : Fetchable(s)'
  BY DEF Fetchable, TypeOK, JobOf, Input, Exists, Stored, HasWork
<1> QED
  BY <1>1, <1>2, <1>3, <1>4 DEF Basic

LEMMA SendOutputIsBasic ==
  ASSUME Basic, NEW r \in Run, SendOutput(r)
  PROVE  Basic'
<1> USE DEF Basic, SendOutput, Go, Retry, files, run, sends
<1>1. TypeOK'
  BY WorldIsKnown, ContentsAreSomething, FilesAssumption DEF TypeOK, Places
<1>2. UploadsAreNamed'
  <2>1. data[outputs[JobOf(r)]] # Nothing
    BY WorldIsKnown, ContentsAreSomething DEF TypeOK
  <2>2. \A c \in Content : store[c] # Nothing => store'[c] # Nothing
    BY <2>1 DEF TypeOK
  <2>3. \A j \in Job : world.input[j].hash => Whole(world.input[j].blob) \in Content
    BY WorldIsKnown, ContentsAreSomething DEF NoInput
  <2> QED
    BY <2>2, <2>3 DEF UploadsAreNamed
<1>3. \A s \in Run : HasWork(s)'
  BY WorldIsKnown, ContentsAreSomething, FilesAssumption DEF HasWork, TypeOK, JobOf, Input
<1>4. \A s \in Run : Fetchable(s)'
  <2>1. data[outputs[JobOf(r)]] # Nothing
    BY WorldIsKnown, ContentsAreSomething DEF TypeOK
  <2>2. hash[r] \in Content
    BY DEF HasWork
  <2>3. \A c \in Content : store[c] # Nothing => store'[c] # Nothing
    BY <2>1 DEF TypeOK
  <2>4. store'[hash[r]] # Nothing
    BY <2>1, <2>2 DEF TypeOK
  <2>5. \A t \in Run : Input(t).hash => Whole(Input(t).blob) \in Content
    BY WorldIsKnown, ContentsAreSomething
  <2>6. ASSUME NEW t \in Run
        PROVE  Fetchable(t)'
    <3>1. Fetchable(t) /\ told[t] \in Content \cup {Nothing}
      BY DEF TypeOK
    <3>2. at[t] = "claimed" <=> at'[t] = "claimed"
      BY DEF TypeOK
    <3>3. told'[t] = told[t] \/ told'[t] = hash[r]
      BY DEF TypeOK
    <3>4. ~world.local
      BY DEF HasWork
    <3> QED
      BY <2>2, <2>4, <2>5, <3>1, <3>2, <3>3, <3>4 DEF Fetchable, JobOf, Input
  <2> QED
    BY <2>6
<1> QED
  BY <1>1, <1>2, <1>3, <1>4 DEF Basic

LEMMA SendFailsIsBasic ==
  ASSUME Basic, NEW r \in Run, SendFails(r)
  PROVE  Basic'
<1> USE DEF Basic, SendFails, Go, Retry, files, run, sends
<1>1. TypeOK'
  BY WorldIsKnown, TriesAreLeft DEF TypeOK, Places
<1>2. UploadsAreNamed'
  BY DEF UploadsAreNamed, TypeOK
<1>3. \A s \in Run : HasWork(s)'
  BY WorldIsKnown, ContentsAreSomething, FilesAssumption DEF HasWork, TypeOK, JobOf, Input
<1>4. \A s \in Run : Fetchable(s)'
  BY DEF Fetchable, TypeOK, JobOf, Input
<1> QED
  BY <1>1, <1>2, <1>3, <1>4 DEF Basic

LEMMA HashInputIsBasic ==
  ASSUME Basic, NEW r \in Run, HashInput(r)
  PROVE  Basic'
<1> DEFINE i    == inputs[JobOf(r)]
           read == IF Input(r).hash THEN Whole(Input(r).blob)
                   ELSE IF i = NoFile THEN Nothing ELSE data[i]
           next == IF read = Nothing THEN "failed" ELSE "exists"
<1>1. TypeOK /\ UploadsAreNamed /\ (\A s \in Run : HasWork(s) /\ Fetchable(s))
  BY DEF Basic
<1>2. at[r] = "hash" /\ Input(r) # NoInput
  BY <1>1 DEF HashInput, HasWork
<1>3. read \in Content \cup {Nothing}
  <2>1. Input(r).blob \in Blob /\ i \in File \cup {NoFile} /\ data \in [File -> Content]
    BY <1>1, <1>2, WorldIsKnown DEF TypeOK
  <2> QED
    BY <2>1, ContentsAreSomething
<1> HIDE DEF i, read
<1>4. /\ hash' = [hash EXCEPT ![r] = read] /\ at' = [at EXCEPT ![r] = next]
      /\ UNCHANGED <<world, files, tries, open, saw, wrote, told, sends, store>>
  <2>1. hash' = [hash EXCEPT ![r] = read]
    BY DEF HashInput, i, read
  <2>2. hash'[r] = read
    BY <1>1, <2>1 DEF TypeOK
  <2> QED
    BY <2>1, <2>2 DEF HashInput, Go
<1>5. TypeOK'
  <2>1. hash' \in [Run -> Content \cup {Nothing}] /\ at' \in [Run -> Places]
    BY <1>1, <1>3, <1>4 DEF TypeOK, Places
  <2> QED
    BY <1>1, <1>4, <2>1 DEF TypeOK, files, sends
<1>6. UploadsAreNamed'
  BY <1>1, <1>4 DEF UploadsAreNamed, files, sends
<1>7. \A s \in Run : HasWork(s)'
  <2> TAKE s \in Run
  <2>1. CASE s = r
    <3>1. at'[r] = next /\ hash'[r] = read /\ tries' = tries /\ Input(r)' = Input(r)
      BY <1>1, <1>4 DEF TypeOK, Input, JobOf
    <3>2. tries[r] < MaxTry
      BY <1>1, <1>2 DEF HasWork
    <3> QED
      BY <1>2, <1>3, <2>1, <3>1, <3>2 DEF HasWork
  <2>2. CASE s # r
    BY <1>1, <1>4, <2>2 DEF HasWork, TypeOK, Input, JobOf, files
  <2> QED
    BY <2>1, <2>2
<1>8. \A s \in Run : Fetchable(s)'
  <2> TAKE s \in Run
  <2>1. at'[s] # "claimed" => at[s] # "claimed"
    BY <1>1, <1>2, <1>4 DEF TypeOK
  <2> QED
    BY <1>1, <1>4, <2>1 DEF Fetchable, Input, JobOf, files, sends
<1> QED
  BY <1>5, <1>6, <1>7, <1>8 DEF Basic

\* The steps that only move a run, or take its input away.
LEMMA MovesAreBasic ==
  ASSUME Basic, NEW r \in Run,
         \/ FetchRefused(r) \/ ExistsInCache(r) \/ RemoveDownload(r)
         \/ StartContainer(r) \/ ImageFails(r) \/ ContainerEnds(r) \/ Again(r)
  PROVE  Basic'
<1> USE DEF Basic, Go, files, run, sends, FetchRefused, ExistsInCache, RemoveDownload,
            StartContainer, ImageFails, ContainerEnds, Again
<1>1. TypeOK'
  <2>1. CASE RemoveDownload(r)
    BY <2>1 DEF TypeOK, Places
  <2>2. CASE StartContainer(r)
    BY <2>2, WorldIsKnown DEF TypeOK, Places
  <2>3. CASE Again(r)
    BY <2>3, FilesAssumption DEF TypeOK, Places
  <2>4. CASE FetchRefused(r) \/ ExistsInCache(r) \/ ImageFails(r) \/ ContainerEnds(r)
    BY <2>4 DEF TypeOK, Places
  <2> QED
    BY <2>1, <2>2, <2>3, <2>4
<1>2. UploadsAreNamed'
  BY DEF UploadsAreNamed, TypeOK
<1>3. \A s \in Run : HasWork(s)'
  BY SMTT(60), WorldIsKnown, ContentsAreSomething, FilesAssumption DEF HasWork, TypeOK, JobOf, Input
<1>4. \A s \in Run : Fetchable(s)'
  BY DEF Fetchable, TypeOK, JobOf, Input
<1> QED
  BY <1>1, <1>2, <1>3, <1>4 DEF Basic

LEMMA WriteInputIsBasic ==
  ASSUME Basic, NEW r \in Run, NEW b \in Blob, WriteInput(r, b)
  PROVE  Basic'
<1> USE DEF Basic, WriteInput, files, run, sends
<1>1. TypeOK'
  BY WorldIsKnown, ContentsAreSomething DEF TypeOK
<1>2. UploadsAreNamed'
  BY DEF UploadsAreNamed, TypeOK
<1>3. \A s \in Run : HasWork(s)'
  BY WorldIsKnown DEF HasWork, TypeOK, JobOf, Input
<1>4. \A s \in Run : Fetchable(s)'
  BY DEF Fetchable, TypeOK, JobOf, Input
<1> QED
  BY <1>1, <1>2, <1>3, <1>4 DEF Basic

LEMMA WriteOutputIsBasic ==
  ASSUME Basic, NEW r \in Run, NEW b \in Blob, WriteOutput(r, b)
  PROVE  Basic'
<1> USE DEF Basic, WriteOutput, files, run, sends
<1>1. TypeOK'
  <2>1. CASE UNCHANGED <<outputs, data>>
    BY <2>1, ContentsAreSomething DEF TypeOK
  <2>2. CASE ~UNCHANGED <<outputs, data>>
    <3>1. PICK i \in {outputs[JobOf(r)], NewFile} :
            /\ IF i = outputs[JobOf(r)] THEN i # NoFile ELSE HasRoom
            /\ outputs' = [outputs EXCEPT ![JobOf(r)] = i]
            /\ data' = [data EXCEPT ![i] = Whole(b)]
      BY <2>2
    <3>2. i \in File
      BY <3>1, WorldIsKnown, NewFileIsNew DEF TypeOK
    <3> QED
      BY <3>1, <3>2, ContentsAreSomething DEF TypeOK
  <2> QED
    BY <2>1, <2>2
<1>2. UploadsAreNamed'
  BY DEF UploadsAreNamed, TypeOK
<1>3. \A s \in Run : HasWork(s)'
  <2>1. \A j \in Job : outputs[j] # NoFile => outputs'[j] # NoFile
    BY WorldIsKnown, NewFileIsNew, ContentsAreSomething DEF TypeOK
  <2> QED
    BY <2>1, WorldIsKnown DEF HasWork, TypeOK, JobOf, Input
<1>4. \A s \in Run : Fetchable(s)'
  BY DEF Fetchable, TypeOK, JobOf, Input
<1> QED
  BY <1>1, <1>2, <1>3, <1>4 DEF Basic

LEMMA ClearJobCacheIsBasic ==
  ASSUME Basic, NEW j \in Job, ClearJobCache(j)
  PROVE  Basic'
<1> USE DEF Basic, ClearJobCache, files, run, sends
<1>1. TypeOK'
  BY DEF TypeOK
<1>2. UploadsAreNamed'
  BY DEF UploadsAreNamed, TypeOK
<1>3. \A s \in Run : HasWork(s)'
  BY WorldIsKnown DEF HasWork, TypeOK, JobOf, Input
<1>4. \A s \in Run : Fetchable(s)'
  BY DEF Fetchable, TypeOK, JobOf, Input
<1> QED
  BY <1>1, <1>2, <1>3, <1>4 DEF Basic

LEMMA UploadBeginsIsBasic ==
  ASSUME Basic, NEW b \in Blob, UploadBegins(b)
  PROVE  Basic'
<1> USE DEF Basic, UploadBegins, files, run, sends
<1>1. TypeOK'
  <2> DEFINE i == IF cache[Whole(b)] = NoFile THEN NewFile ELSE cache[Whole(b)]
  <2>1. i \in File
    BY NewFileIsNew, ContentsAreSomething DEF TypeOK
  <2>2. /\ upload' = [blob |-> b, file |-> i]
        /\ data' = [data EXCEPT ![i] = Torn(b)]
        /\ cache' = [cache EXCEPT ![Whole(b)] = i]
    OBVIOUS
  <2>3. uploads' \in 0 .. MaxUploads
    BY FilesAssumption DEF TypeOK
  <2> HIDE DEF i
  <2> QED
    BY <2>1, <2>2, <2>3, ContentsAreSomething DEF TypeOK
<1>2. UploadsAreNamed'
  <2>1. \A c \in Content : cache[c] # NoFile => cache'[c] = cache[c]
    BY DEF TypeOK
  <2>2. /\ upload'.blob = b
        /\ upload'.file = cache'[Whole(b)]
        /\ world'.local
    BY ContentsAreSomething DEF TypeOK
  <2> QED
    BY <2>1, <2>2, ContentsAreSomething DEF UploadsAreNamed, TypeOK
<1>3. \A s \in Run : HasWork(s)'
  BY WorldIsKnown DEF HasWork, TypeOK, JobOf, Input
<1>4. \A s \in Run : Fetchable(s)'
  <2>1. \A c \in Content : cache[c] # NoFile => cache'[c] = cache[c]
    BY DEF TypeOK
  <2> QED
    BY <2>1 DEF Fetchable, TypeOK, JobOf, Input
<1> QED
  BY <1>1, <1>2, <1>3, <1>4 DEF Basic

LEMMA UploadEndsIsBasic ==
  ASSUME Basic, UploadEnds
  PROVE  Basic'
<1> USE DEF Basic, UploadEnds, files, run, sends
<1>1. TypeOK'
  BY ContentsAreSomething DEF TypeOK
<1>2. UploadsAreNamed'
  BY ContentsAreSomething DEF UploadsAreNamed, TypeOK
<1>3. \A s \in Run : HasWork(s)'
  BY WorldIsKnown DEF HasWork, TypeOK, JobOf, Input
<1>4. \A s \in Run : Fetchable(s)'
  BY DEF Fetchable, TypeOK, JobOf, Input
<1> QED
  BY <1>1, <1>2, <1>3, <1>4 DEF Basic

LEMMA UploadIsCutIsBasic ==
  ASSUME Basic, UploadIsCut
  PROVE  Basic'
<1> USE DEF Basic, UploadIsCut, files, run, sends
<1>1. TypeOK'
  BY DEF TypeOK
<1>2. UploadsAreNamed'
  BY DEF UploadsAreNamed, TypeOK
<1>3. \A s \in Run : HasWork(s)'
  BY WorldIsKnown DEF HasWork, TypeOK, JobOf, Input
<1>4. \A s \in Run : Fetchable(s)'
  BY DEF Fetchable, TypeOK, JobOf, Input
<1> QED
  BY <1>1, <1>2, <1>3, <1>4 DEF Basic

LEMMA BasicNext == ASSUME Basic, [Next]_vars PROVE Basic'
<1>1. CASE UNCHANGED vars
  BY <1>1 DEF vars, files, run, sends, Basic, TypeOK, UploadsAreNamed, HasWork, Fetchable, JobOf, Input
<1>2. ASSUME NEW r \in Run, CopyInputs(r)
      PROVE  Basic'
  BY <1>2, MovesAreBasic, HashInputIsBasic, BeginIsBasic, LookInCacheIsBasic, FetchFailsIsBasic,
     FetchOpensIsBasic,
     PipeEndsIsBasic, PipeIsCutIsBasic, LinkFromCacheIsBasic, LinkToCacheIsBasic DEF CopyInputs
<1>3. ASSUME NEW r \in Run, GetOutputs(r)
      PROVE  Basic'
  BY <1>3, HashOutputIsBasic, GetLocalDataRefIsBasic, AskExistsIsBasic, SendOutputIsBasic,
     SendFailsIsBasic DEF GetOutputs
<1>4. ASSUME NEW r \in Run, StartContainer(r) \/ ImageFails(r) \/ ContainerEnds(r) \/ Again(r)
      PROVE  Basic'
  BY <1>4, MovesAreBasic
<1>5. ASSUME NEW j \in Job, ClearJobCache(j)
      PROVE  Basic'
  BY <1>5, ClearJobCacheIsBasic
<1>6. ASSUME NEW r \in Run, NEW b \in Blob, WriteInput(r, b) \/ WriteOutput(r, b)
      PROVE  Basic'
  BY <1>6, WriteInputIsBasic, WriteOutputIsBasic
<1>7. CASE Upload
  BY <1>7, UploadBeginsIsBasic, UploadEndsIsBasic, UploadIsCutIsBasic DEF Upload
<1> QED
  BY <1>1, <1>2, <1>3, <1>4, <1>5, <1>6, <1>7 DEF Next

-----------------------------------------------------------------------------
(* While Quiet: what a step of a run does to what others rely on.          *)

\* What happens to files: a name in the cache keeps its file; only files that
\* nobody else has are written; only a run's own file gets a name, which is its
\* content's.
TouchesOwnFiles ==
  /\ \A c \in Content : cache[c] # NoFile => cache'[c] = cache[c]
  /\ \A i \in File : data'[i] # data[i] =>
       i \notin InUse \/ \E r \in Run : at[r] \in {"fetch", "pipe"} /\ i = inputs[JobOf(r)]
  /\ \A c \in Content : cache'[c] # cache[c] =>
       /\ \/ \E r \in Run : at[r] = "publish" /\ at'[r] # "publish" /\ cache'[c] = inputs[JobOf(r)]
          \/ \E r \in Run : at[r] = "name" /\ at'[r] # "name" /\ cache'[c] = outputs[JobOf(r)]
       /\ data[cache'[c]] = c /\ data'[cache'[c]] = c

\* What happens to the paths of a job: they are emptied, linked to the cache, or
\* get a new file.
Takes(old, new) == new = old \/ new = NoFile \/ new \in Cached \/ new \notin InUse

LeavesOthersAlone(r) ==
  /\ UNCHANGED <<world, upload, sent>>
  /\ \A s \in Run \ {r} : at'[s] = at[s] /\ open'[s] = open[s] /\ hash'[s] = hash[s] /\ saw'[s] = saw[s]
  /\ \A k \in Job \ {JobOf(r)} : inputs'[k] = inputs[k] /\ outputs'[k] = outputs[k]
  /\ Takes(inputs[JobOf(r)], inputs'[JobOf(r)])
  /\ Takes(outputs[JobOf(r)], outputs'[JobOf(r)])
  /\ inputs'[JobOf(r)] = inputs[JobOf(r)] \/ outputs'[JobOf(r)] = outputs[JobOf(r)]

\* The file of a run that loads is in no other path, nor is that of a run that
\* has not ended.
LEMMA OwnFiles ==
  ASSUME Basic, Quiet, Orderly, NEW r \in Run
  PROVE  /\ at[r] \in Loading /\ inputs[JobOf(r)] # NoFile =>
              /\ \A j \in Job : outputs[j] # inputs[JobOf(r)]
              /\ \A j \in Job : j # JobOf(r) => inputs[j] # inputs[JobOf(r)]
              /\ upload.file # inputs[JobOf(r)]
         /\ at[r] # "done" /\ outputs[JobOf(r)] # NoFile =>
              /\ \A j \in Job : j # JobOf(r) => outputs[j] # outputs[JobOf(r)]
              /\ upload.file # outputs[JobOf(r)]
<1>1. TypeOK /\ JobOf(r) \in Job /\ UploadsAreNamed
  BY WorldIsKnown DEF Basic
<1>2. upload.file = NoFile \/ upload.file \in Cached
  <2>1. CASE upload = NoUpload
    BY <2>1 DEF NoUpload
  <2>2. CASE upload # NoUpload
    BY <1>1, <2>2, ContentsAreSomething DEF UploadsAreNamed, Cached, TypeOK
  <2> QED
    BY <2>1, <2>2
<1> QED
  BY <1>1, <1>2 DEF Orderly, Shared, InOrder, LoadsAlone, Makes

\* A step that touches its own files only leaves the cached ones as they are, and
\* the others' files without a name.
LEMMA OthersFilesStay ==
  ASSUME Basic, Basic', Quiet, Orderly, TouchesOwnFiles, NEW s \in Run, at'[s] = at[s]
  PROVE  /\ at[s] \in Loading => inputs[JobOf(s)] \notin Cached'
         /\ at[s] # "done" => outputs[JobOf(s)] \notin Cached'
         /\ at[s] \in {"hash", "exists", "swap", "publish"} => data'[inputs[JobOf(s)]] = data[inputs[JobOf(s)]]
         /\ at[s] \in {"name", "send"} => data'[outputs[JobOf(s)]] = data[outputs[JobOf(s)]]
<1> DEFINE j == JobOf(s)
<1>1. TypeOK /\ TypeOK' /\ j \in Job /\ \A r \in Run : JobOf(r) \in Job
  BY WorldIsKnown DEF Basic
<1>2. \A r \in Run : r # s => JobOf(r) # j
  BY DEF Quiet
<1>3. InOrder(s) /\ \A r \in Run : InOrder(r)
  BY DEF Orderly
<1>4. ASSUME at[s] \in Loading, inputs[j] \in Cached'
      PROVE  FALSE
  <2>1. inputs[j] \notin Cached
    BY <1>3, <1>4 DEF InOrder, LoadsAlone
  <2>2. PICK c \in Content : inputs[j] = cache'[c] /\ inputs[j] # NoFile
    BY <1>4 DEF Cached
  <2>3. cache'[c] # cache[c]
    BY <2>1, <2>2 DEF Cached
  <2>4. PICK r \in Run :
           \/ at[r] = "publish" /\ at'[r] # "publish" /\ cache'[c] = inputs[JobOf(r)]
           \/ at[r] = "name" /\ at'[r] # "name" /\ cache'[c] = outputs[JobOf(r)]
    BY <2>3 DEF TouchesOwnFiles
  <2>5. r # s
    BY <2>4
  <2> QED
    BY <1>1, <1>2, <1>4, <2>2, <2>4, <2>5, OwnFiles
<1>5. ASSUME at[s] # "done", outputs[j] \in Cached'
      PROVE  FALSE
  <2>1. outputs[j] \notin Cached
    BY <1>3, <1>5 DEF InOrder, Makes
  <2>2. PICK c \in Content : outputs[j] = cache'[c] /\ outputs[j] # NoFile
    BY <1>5 DEF Cached
  <2>3. cache'[c] # cache[c]
    BY <2>1, <2>2 DEF Cached
  <2>4. PICK r \in Run :
           \/ at[r] = "publish" /\ at'[r] # "publish" /\ cache'[c] = inputs[JobOf(r)]
           \/ at[r] = "name" /\ at'[r] # "name" /\ cache'[c] = outputs[JobOf(r)]
    BY <2>3 DEF TouchesOwnFiles
  <2>5. CASE at[r] = "publish"
    BY <1>1, <2>2, <2>4, <2>5, OwnFiles DEF Loading
  <2>6. CASE at[r] = "name"
    <3>1. r # s /\ outputs[j] = outputs[JobOf(r)]
      BY <2>2, <2>4, <2>6
    <3> QED
      BY <1>1, <1>2, <1>5, <2>2, <3>1, OwnFiles
  <2> QED
    BY <2>4, <2>5, <2>6
<1>6. ASSUME at[s] \in {"hash", "exists", "swap", "publish"}
      PROVE  data'[inputs[j]] = data[inputs[j]]
  <2>1. inputs[j] \in File /\ inputs[j] # NoFile
    BY <1>1, <1>3, <1>6 DEF InOrder, LoadsAlone, TypeOK
  <2>2. SUFFICES ASSUME NEW r \in Run, at[r] \in {"fetch", "pipe"}, inputs[j] = inputs[JobOf(r)]
                 PROVE  FALSE
    BY <1>1, <2>1 DEF TouchesOwnFiles, InUse
  <2>3. r # s
    BY <1>6, <2>2
  <2> QED
    BY <1>1, <1>2, <2>1, <2>2, <2>3, OwnFiles DEF Loading
<1>7. ASSUME at[s] \in {"name", "send"}
      PROVE  data'[outputs[j]] = data[outputs[j]]
  <2>1. outputs[j] \in File /\ outputs[j] # NoFile
    BY <1>1, <1>3, <1>7 DEF InOrder, Makes, TypeOK
  <2>2. SUFFICES ASSUME NEW r \in Run, at[r] \in {"fetch", "pipe"}, outputs[j] = inputs[JobOf(r)]
                 PROVE  FALSE
    BY <1>1, <2>1 DEF TouchesOwnFiles, InUse
  <2> QED
    BY <1>1, <2>1, <2>2, OwnFiles DEF Loading
<1> QED
  BY <1>4, <1>5, <1>6, <1>7

\* So a run that does not move stays in order.
LEMMA OthersStayInOrder ==
  ASSUME Basic, Basic', Quiet, Orderly, TouchesOwnFiles, NEW s \in Run,
         at'[s] = at[s], open'[s] = open[s], hash'[s] = hash[s], saw'[s] = saw[s], world' = world,
         inputs'[JobOf(s)] = inputs[JobOf(s)], outputs'[JobOf(s)] = outputs[JobOf(s)]
  PROVE  InOrder(s)'
<1> DEFINE j == JobOf(s)
<1>1. TypeOK /\ HasWork(s) /\ InOrder(s)
  BY DEF Basic, Orderly
<1>2. JobOf(s)' = j /\ Input(s)' = Input(s) /\ Certain(s)' = Certain(s)
  BY DEF JobOf, Input, Certain
<1>3. \A c \in Content : cache[c] # NoFile => cache'[c] = cache[c]
  BY DEF TouchesOwnFiles
<1>4. LoadsAlone(s)'
  BY <1>1, <1>2, <1>3, OthersFilesStay DEF InOrder, LoadsAlone, HasWork
<1>5. Mounts(s)'
  <2>1. Input(s) # NoInput => Whole(Input(s).blob) \in Content
    BY <1>1, WorldIsKnown, ContentsAreSomething
  <2> QED
    BY <1>1, <1>2, <1>3, <2>1 DEF InOrder, Mounts
<1>6. Makes(s)'
  BY <1>1, <1>2, OthersFilesStay DEF InOrder, Makes
<1> QED
  BY <1>4, <1>5, <1>6 DEF InOrder

LEMMA StepKeepsOrder ==
  ASSUME Basic, Basic', Quiet, Orderly, NEW r \in Run,
         TouchesOwnFiles, LeavesOthersAlone(r), InOrder(r)', StoredByName'
  PROVE  Orderly'
<1> DEFINE j == JobOf(r)
<1>1. TypeOK /\ TypeOK' /\ UploadsAreNamed /\ j \in Job /\ \A s \in Run : JobOf(s) \in Job /\ InOrder(s)
  BY WorldIsKnown DEF Basic, Orderly
<1>2. \A i \in Cached : i \in Cached'
  BY DEF TouchesOwnFiles, Cached
<1>3. Shared'
  <2>1. \A k, l \in Job : inputs'[k] = outputs'[l] /\ inputs'[k] # NoFile => inputs'[k] \in Cached'
    BY <1>1, <1>2 DEF LeavesOthersAlone, Takes, Orderly, Shared, InUse
  <2>2. \A k, l \in Job : k # l /\ inputs'[k] = inputs'[l] /\ inputs'[k] # NoFile => inputs'[k] \in Cached'
    BY <1>1, <1>2 DEF LeavesOthersAlone, Takes, Orderly, Shared, InUse
  <2>3. \A k, l \in Job : k # l /\ outputs'[k] = outputs'[l] /\ outputs'[k] # NoFile => outputs'[k] \in Cached'
    BY <1>1, <1>2 DEF LeavesOthersAlone, Takes, Orderly, Shared, InUse
  <2> QED
    BY <2>1, <2>2, <2>3 DEF Shared
<1>4. ASSUME NEW c \in Content, cache'[c] # NoFile
      PROVE  data'[cache'[c]] = c \/ Whole(upload'.blob) = c
  <2>1. CASE cache'[c] # cache[c]
    BY <2>1 DEF TouchesOwnFiles
  <2>2. CASE cache'[c] = cache[c]
    <3>1. cache[c] \in File /\ cache[c] \in Cached /\ cache[c] \in InUse
      BY <1>1, <1>4, <2>2 DEF TypeOK, Cached, InUse
    <3>2. \A s \in Run : at[s] \in {"fetch", "pipe"} => cache[c] # inputs[JobOf(s)]
      BY <1>1, <3>1 DEF InOrder, LoadsAlone, Loading
    <3>3. data'[cache[c]] = data[cache[c]]
      BY <3>1, <3>2 DEF TouchesOwnFiles
    <3> QED
      BY <1>4, <2>2, <3>3 DEF LeavesOthersAlone, Orderly, Named
  <2> QED
    BY <2>1, <2>2
<1>5. ASSUME upload # NoUpload, NEW c \in Content, cache'[c] = upload.file
      PROVE  c = Whole(upload.blob)
  <2>1. CASE cache'[c] # cache[c]
    <3>1. PICK s \in Run :
             \/ at[s] = "publish" /\ cache'[c] = inputs[JobOf(s)]
             \/ at[s] = "name" /\ cache'[c] = outputs[JobOf(s)]
      BY <2>1 DEF TouchesOwnFiles
    <3>2. InOrder(s)
      BY <1>1
    <3> QED
      BY <1>5, <3>1, <3>2, OwnFiles DEF InOrder, LoadsAlone, Makes, Loading
  <2>2. CASE cache'[c] = cache[c]
    BY <1>5, <2>2 DEF Orderly, UploadIsNew
  <2> QED
    BY <2>1, <2>2
<1>6. UploadIsNew'
  BY <1>5 DEF Orderly, UploadIsNew, LeavesOthersAlone
<1>7. ASSUME NEW s \in Run, s # r
      PROVE  InOrder(s)'
  <2>1. JobOf(s) \in Job \ {j}
    BY <1>1, <1>7 DEF Quiet
  <2> QED
    BY <1>7, <2>1, OthersStayInOrder DEF LeavesOthersAlone
<1> QED
  BY <1>3, <1>4, <1>6, <1>7 DEF Orderly, Named

-----------------------------------------------------------------------------
(* While Quiet: what a run finds.                                          *)

\* A content nobody is uploading is under its name, or nothing is.
LEMMA CertainIsWhole ==
  ASSUME Basic, Orderly, NEW r \in Run, at[r] # "claimed", Input(r) # NoInput, Certain(r),
         cache[Whole(Input(r).blob)] # NoFile
  PROVE  data[cache[Whole(Input(r).blob)]] = Whole(Input(r).blob)
<1> DEFINE c == Whole(Input(r).blob)
<1>1. TypeOK /\ UploadsAreNamed /\ Fetchable(r) /\ Named /\ UploadIsNew
  BY DEF Basic, Orderly
<1>2. Input(r).blob \in Blob /\ c \in Content
  BY <1>1, WorldIsKnown, ContentsAreSomething
<1>3. CASE upload = NoUpload
  BY <1>1, <1>2, <1>3, ContentsAreSomething DEF Named
<1>4. CASE upload # NoUpload
  <2>1. world.local /\ upload.blob \in Blob /\ upload.blob \notin sent
    BY <1>1, <1>4 DEF UploadsAreNamed, UploadIsNew, TypeOK
  <2>2. Input(r).blob \in sent
    BY <1>1, <2>1 DEF Certain, Fetchable
  <2> QED
    BY <1>1, <1>2, <2>1, <2>2, ContentsAreSomething DEF Named
<1> QED
  BY <1>3, <1>4

\* So a download brings what was asked for.
LEMMA ServedIsRight ==
  ASSUME Basic, Orderly, NEW r \in Run, at[r] \in {"fetch", "pipe"}
  PROVE  Served(r) = Whole(Input(r).blob)
<1> DEFINE c == Whole(Input(r).blob)
<1>1. TypeOK /\ HasWork(r) /\ Fetchable(r) /\ UploadsAreNamed /\ StoredByName
  BY DEF Basic, Orderly
<1>2. Input(r) # NoInput /\ c \in Content
  BY <1>1, InputIsContent DEF HasWork
<1>3. CASE Input(r).hash /\ world.local
  <2>1. cache[c] # NoFile
    BY <1>1, <1>3 DEF Fetchable, UploadsAreNamed
  <2> QED
    BY <1>2, <1>3, <2>1, CertainIsWhole DEF Certain, Served, Stored
<1>4. CASE Input(r).hash /\ ~world.local
  BY <1>1, <1>2, <1>4 DEF Fetchable, StoredByName, Served, Stored
<1>5. CASE ~Input(r).hash
  BY <1>5 DEF Served
<1> QED
  BY <1>3, <1>4, <1>5

-----------------------------------------------------------------------------
(* While Quiet: the steps of a run.                                        *)

\* The steps that write no file and give none a name.
LEMMA MovesAreOrderly ==
  ASSUME Basic, Basic', Quiet, Orderly, NEW r \in Run,
         \/ Begin(r) \/ FetchFails(r) \/ PipeIsCut(r) \/ HashInput(r) \/ ExistsInCache(r)
         \/ RemoveDownload(r) \/ ImageFails(r) \/ ContainerEnds(r) \/ HashOutput(r)
         \/ AskExists(r) \/ SendFails(r) \/ Again(r)
  PROVE  Orderly'
<1> USE DEF Go, Retry, files, run, sends
<1>1. TypeOK /\ HasWork(r) /\ Fetchable(r) /\ InOrder(r) /\ StoredByName /\ JobOf(r) \in Job
  BY WorldIsKnown DEF Basic, Orderly
<1>2. UNCHANGED <<world, data, cache, outputs, upload, sent, store>>
  BY DEF Begin, FetchFails, PipeIsCut, HashInput, ExistsInCache, RemoveDownload, ImageFails,
     ContainerEnds, HashOutput, AskExists, SendFails, Again
<1>3. TouchesOwnFiles
  BY <1>2 DEF TouchesOwnFiles
<1>4. LeavesOthersAlone(r)
  <2>1. inputs' = inputs \/ inputs' = [inputs EXCEPT ![JobOf(r)] = NoFile]
    BY DEF Begin, FetchFails, PipeIsCut, HashInput, ExistsInCache, RemoveDownload, ImageFails,
       ContainerEnds, HashOutput, AskExists, SendFails, Again
  <2>2. \A s \in Run \ {r} : at'[s] = at[s] /\ open'[s] = open[s] /\ hash'[s] = hash[s] /\ saw'[s] = saw[s]
    BY <1>1 DEF TypeOK, Begin, FetchFails, PipeIsCut, HashInput, ExistsInCache, RemoveDownload,
       ImageFails, ContainerEnds, HashOutput, AskExists, SendFails, Again
  <2> QED
    BY <1>1, <1>2, <2>1, <2>2 DEF LeavesOthersAlone, Takes, TypeOK
<1>5. StoredByName'
  BY SMTT(60), <1>1, <1>2 DEF StoredByName
<1>6. InOrder(r)'
  <2> USE DEF TypeOK, InOrder, LoadsAlone, Mounts, Makes, Certain, Loading, Cached, JobOf, Input
  <2>1. CASE Begin(r)
    BY <1>1, <2>1 DEF Begin
  <2>2. CASE FetchFails(r)
    BY <1>1, <2>2 DEF FetchFails
  <2>3. CASE PipeIsCut(r)
    BY SMTT(60), <1>1, <2>3 DEF PipeIsCut
  <2>4. CASE HashInput(r)
    BY SMTT(60), <1>1, <2>4 DEF HashInput
  <2>5. CASE ExistsInCache(r)
    BY <1>1, <2>5 DEF ExistsInCache
  <2>6. CASE RemoveDownload(r)
    BY <1>1, <2>6 DEF RemoveDownload
  <2>7. CASE ImageFails(r)
    BY <1>1, <2>7 DEF ImageFails
  <2>8. CASE ContainerEnds(r)
    BY <1>1, <2>8 DEF ContainerEnds
  <2>9. CASE HashOutput(r)
    BY <1>1, <2>9 DEF HashOutput
  <2>10. CASE AskExists(r)
    BY <1>1, <2>10 DEF AskExists
  <2>11. CASE SendFails(r)
    BY <1>1, <2>11 DEF SendFails
  <2>12. CASE Again(r)
    BY <1>1, <2>12 DEF Again
  <2> QED
    BY <2>1, <2>2, <2>3, <2>4, <2>5, <2>6, <2>7, <2>8, <2>9, <2>10, <2>11, <2>12
<1> QED
  BY <1>3, <1>4, <1>5, <1>6, StepKeepsOrder

LEMMA LookInCacheIsOrderly ==
  ASSUME Basic, Basic', Quiet, Orderly, NEW r \in Run, LookInCache(r)
  PROVE  Orderly'
<1> USE DEF LookInCache, Go, files, run, sends
<1>1. TypeOK /\ HasWork(r) /\ Fetchable(r) /\ InOrder(r) /\ StoredByName /\ JobOf(r) \in Job
  BY WorldIsKnown DEF Basic, Orderly
<1>2. TouchesOwnFiles
  BY <1>1 DEF TouchesOwnFiles
<1>3. LeavesOthersAlone(r)
  <2>1. cache[Whole(Input(r).blob)] = NoFile \/ cache[Whole(Input(r).blob)] \in Cached
    BY <1>1, InputIsContent DEF Cached
  <2> QED
    BY <1>1, <2>1 DEF LeavesOthersAlone, Takes, TypeOK
<1>4. StoredByName'
  BY <1>1 DEF StoredByName
<1>5. InOrder(r)'
  BY <1>1, InputIsContent DEF HasWork, TypeOK, InOrder, LoadsAlone, Mounts, Makes, Certain,
     Loading, Cached, JobOf, Input
<1> QED
  BY <1>2, <1>3, <1>4, <1>5, StepKeepsOrder

LEMMA FetchOpensIsOrderly ==
  ASSUME Basic, Basic', Quiet, Orderly, NEW r \in Run, FetchOpens(r)
  PROVE  Orderly'
<1> USE DEF FetchOpens, Go, files, run, sends
<1>1. TypeOK /\ HasWork(r) /\ Fetchable(r) /\ InOrder(r) /\ StoredByName /\ JobOf(r) \in Job
  BY WorldIsKnown DEF Basic, Orderly
<1> DEFINE i == IF inputs[JobOf(r)] = NoFile THEN NewFile ELSE inputs[JobOf(r)]
<1>a. /\ inputs' = [inputs EXCEPT ![JobOf(r)] = i] /\ open' = [open EXCEPT ![r] = i]
      /\ data' = data \/ data' = [data EXCEPT ![i] = Torn(Input(r).blob)]
      /\ i = inputs[JobOf(r)] \/ i \notin InUse
  BY NewFileIsNew
<1>b. i \in File /\ i # NoFile
  BY <1>1, NewFileIsNew, ContentsAreSomething DEF TypeOK
<1> HIDE DEF i
<1>2. TouchesOwnFiles
  BY <1>1, <1>a, <1>b DEF TouchesOwnFiles, TypeOK
<1>3. LeavesOthersAlone(r)
  BY <1>1, <1>a DEF LeavesOthersAlone, Takes, TypeOK
<1>4. StoredByName'
  BY <1>1 DEF StoredByName
<1>5. InOrder(r)'
  <2>1. i \notin Cached /\ i # NoFile
    BY <1>1, <1>a, <1>b DEF InOrder, LoadsAlone, Loading, Cached, InUse
  <2>2. /\ at'[r] = "pipe" /\ open'[r] = i /\ inputs'[JobOf(r)] = i
        /\ outputs' = outputs /\ cache' = cache /\ world' = world
    BY <1>1, <1>a DEF TypeOK
  <2> QED
    BY <1>1, <2>1, <2>2 DEF InOrder, LoadsAlone, Mounts, Makes, Cached, JobOf, Input
<1> QED
  BY <1>2, <1>3, <1>4, <1>5, StepKeepsOrder

LEMMA PipeEndsIsOrderly ==
  ASSUME Basic, Basic', Quiet, Orderly, NEW r \in Run, PipeEnds(r)
  PROVE  Orderly'
<1> USE DEF PipeEnds, Go, files, run, sends
<1>1. TypeOK /\ HasWork(r) /\ Fetchable(r) /\ InOrder(r) /\ StoredByName /\ JobOf(r) \in Job
  BY WorldIsKnown DEF Basic, Orderly
<1>a. /\ open[r] = inputs[JobOf(r)] /\ open[r] # NoFile
      /\ Served(r) = Whole(Input(r).blob)
  BY <1>1, ServedIsRight DEF InOrder, LoadsAlone
<1>2. TouchesOwnFiles
  BY <1>1, <1>a DEF TouchesOwnFiles, TypeOK
<1>3. LeavesOthersAlone(r)
  BY <1>1 DEF LeavesOthersAlone, Takes, TypeOK
<1>4. StoredByName'
  BY <1>1 DEF StoredByName
<1>5. InOrder(r)'
  <2>1. data'[inputs[JobOf(r)]] = Whole(Input(r).blob)
    BY <1>1, <1>a DEF TypeOK
  <2> QED
    BY <1>1, <1>a, <2>1 DEF TypeOK, InOrder, LoadsAlone, Mounts, Makes, Certain, Loading, Cached, JobOf, Input
<1> QED
  BY <1>2, <1>3, <1>4, <1>5, StepKeepsOrder

LEMMA LinkFromCacheIsOrderly ==
  ASSUME Basic, Basic', Quiet, Orderly, NEW r \in Run, LinkFromCache(r)
  PROVE  Orderly'
<1> USE DEF LinkFromCache, Go, files, run, sends
<1>1. TypeOK /\ HasWork(r) /\ Fetchable(r) /\ InOrder(r) /\ StoredByName /\ JobOf(r) \in Job
  BY WorldIsKnown DEF Basic, Orderly
<1>a. /\ hash[r] = Whole(Input(r).blob) /\ cache[hash[r]] # NoFile /\ cache[hash[r]] \in Cached
  BY <1>1 DEF InOrder, LoadsAlone, HasWork, Cached
<1>2. TouchesOwnFiles
  BY <1>1 DEF TouchesOwnFiles
<1>3. LeavesOthersAlone(r)
  BY <1>1, <1>a DEF LeavesOthersAlone, Takes, TypeOK
<1>4. StoredByName'
  BY SMTT(60), <1>1 DEF StoredByName
<1>5. InOrder(r)'
  BY <1>1, <1>a DEF HasWork, TypeOK, InOrder, LoadsAlone, Mounts, Makes, Certain, Loading,
     Cached, JobOf, Input
<1> QED
  BY <1>2, <1>3, <1>4, <1>5, StepKeepsOrder

LEMMA LinkToCacheIsOrderly ==
  ASSUME Basic, Basic', Quiet, Orderly, NEW r \in Run, LinkToCache(r)
  PROVE  Orderly'
<1> USE DEF LinkToCache, Go, files, run, sends
<1>1. TypeOK /\ HasWork(r) /\ Fetchable(r) /\ InOrder(r) /\ StoredByName /\ JobOf(r) \in Job
  BY WorldIsKnown DEF Basic, Orderly
<1>a. /\ hash[r] = Whole(Input(r).blob) /\ hash[r] \in Content
      /\ inputs[JobOf(r)] # NoFile /\ data[inputs[JobOf(r)]] = hash[r]
  BY <1>1 DEF InOrder, LoadsAlone, HasWork
<1>2. TouchesOwnFiles
  BY <1>1, <1>a DEF TouchesOwnFiles, CanLink, TypeOK
<1>3. LeavesOthersAlone(r)
  BY <1>1 DEF LeavesOthersAlone, Takes, TypeOK
<1>4. StoredByName'
  BY <1>1 DEF StoredByName
<1>5. InOrder(r)'
  <2>1. outputs[JobOf(r)] \notin Cached'
    BY <1>1, <1>a, OwnFiles DEF InOrder, Makes, Loading, Cached, TypeOK
  <2>2. /\ inputs' = inputs /\ outputs' = outputs /\ world' = world /\ hash' = hash
        /\ \/ at'[r] = "mounted" /\ cache'[hash[r]] = inputs[JobOf(r)]
           \/ at'[r] = "failed"
    BY <1>1, <1>a DEF TypeOK
  <2> QED
    BY <1>1, <1>a, <2>1, <2>2 DEF HasWork, InOrder, LoadsAlone, Mounts, Makes, Loading, JobOf, Input
<1> QED
  BY <1>2, <1>3, <1>4, <1>5, StepKeepsOrder

LEMMA StartContainerIsOrderly ==
  ASSUME Basic, Basic', Quiet, Orderly, NEW r \in Run, StartContainer(r)
  PROVE  Orderly'
<1> USE DEF StartContainer, Go, files, run, sends
<1>1. TypeOK /\ HasWork(r) /\ Fetchable(r) /\ InOrder(r) /\ StoredByName /\ JobOf(r) \in Job
  BY WorldIsKnown DEF Basic, Orderly
<1>2. TouchesOwnFiles
  BY <1>1 DEF TouchesOwnFiles
<1>3. LeavesOthersAlone(r)
  BY <1>1 DEF LeavesOthersAlone, Takes, TypeOK
<1>4. StoredByName'
  BY <1>1 DEF StoredByName
<1>5. InOrder(r)'
  <2>1. ASSUME Input(r) = NoInput
        PROVE  saw'[r] = Whole(Input(r).blob)
    BY <1>1, <2>1 DEF InOrder, Mounts, TypeOK, NoInput, Whole, Nothing
  <2>2. ASSUME Input(r) # NoInput, Certain(r)
        PROVE  saw'[r] = Whole(Input(r).blob)
    BY <1>1, <2>2, CertainIsWhole DEF InOrder, Mounts, TypeOK
  <2>3. at'[r] = "running"
    BY <1>1 DEF TypeOK
  <2> QED
    BY <1>1, <2>1, <2>2, <2>3 DEF InOrder, LoadsAlone, Mounts, Makes, Certain, Loading, Cached, JobOf, Input
<1> QED
  BY <1>2, <1>3, <1>4, <1>5, StepKeepsOrder

LEMMA GetLocalDataRefIsOrderly ==
  ASSUME Basic, Basic', Quiet, Orderly, NEW r \in Run, GetLocalDataRef(r)
  PROVE  Orderly'
<1> USE DEF GetLocalDataRef, Go, files, run, sends
<1>1. TypeOK /\ HasWork(r) /\ Fetchable(r) /\ InOrder(r) /\ StoredByName /\ JobOf(r) \in Job
  BY WorldIsKnown DEF Basic, Orderly
<1>a. /\ hash[r] \in Content
      /\ outputs[JobOf(r)] # NoFile /\ data[outputs[JobOf(r)]] = hash[r]
  BY <1>1 DEF InOrder, Makes, HasWork
<1>2. TouchesOwnFiles
  BY <1>1, <1>a DEF TouchesOwnFiles, CanLink, TypeOK
<1>3. LeavesOthersAlone(r)
  <2>1. outputs'[JobOf(r)] = outputs[JobOf(r)] \/ outputs'[JobOf(r)] \in Cached
    BY <1>1, <1>a DEF Cached, TypeOK
  <2> QED
    BY <1>1, <2>1 DEF LeavesOthersAlone, Takes, TypeOK
<1>4. StoredByName'
  BY <1>1 DEF StoredByName
<1>5. InOrder(r)'
  <2>1. at'[r] = "done"
    BY <1>1 DEF TypeOK
  <2> QED
    BY <2>1 DEF InOrder, LoadsAlone, Mounts, Makes, Loading
<1> QED
  BY <1>2, <1>3, <1>4, <1>5, StepKeepsOrder

LEMMA SendOutputIsOrderly ==
  ASSUME Basic, Basic', Quiet, Orderly, NEW r \in Run, SendOutput(r)
  PROVE  Orderly'
<1> USE DEF SendOutput, Go, files, run, sends
<1>1. TypeOK /\ HasWork(r) /\ Fetchable(r) /\ InOrder(r) /\ StoredByName /\ JobOf(r) \in Job
  BY WorldIsKnown DEF Basic, Orderly
<1>2. TouchesOwnFiles
  BY <1>1 DEF TouchesOwnFiles
<1>3. LeavesOthersAlone(r)
  BY <1>1 DEF LeavesOthersAlone, Takes, TypeOK
<1>4. StoredByName'
  <2>1. hash[r] \in Content /\ data[outputs[JobOf(r)]] = hash[r]
    BY <1>1 DEF InOrder, Makes, HasWork
  <2> QED
    BY <1>1, <2>1 DEF StoredByName, TypeOK
<1>5. InOrder(r)'
  BY <1>1 DEF TypeOK, InOrder, LoadsAlone, Mounts, Makes, Certain, Loading, Cached, JobOf, Input
<1> QED
  BY <1>2, <1>3, <1>4, <1>5, StepKeepsOrder

LEMMA WriteOutputIsOrderly ==
  ASSUME Basic, Basic', Quiet, Orderly, NEW r \in Run, NEW b \in Blob, WriteOutput(r, b)
  PROVE  Orderly'
<1> USE DEF WriteOutput, sends
<1>1. TypeOK /\ HasWork(r) /\ Fetchable(r) /\ InOrder(r) /\ StoredByName /\ JobOf(r) \in Job
  BY WorldIsKnown DEF Basic, Orderly
<1>a. \/ UNCHANGED <<outputs, data>>
      \/ /\ NewFile \notin InUse
         /\ outputs' = [outputs EXCEPT ![JobOf(r)] = NewFile]
         /\ data' = [data EXCEPT ![NewFile] = Whole(b)]
  <2>1. CASE UNCHANGED <<outputs, data>>
    BY <2>1
  <2>2. CASE ~UNCHANGED <<outputs, data>>
    <3>1. PICK i \in {outputs[JobOf(r)], NewFile} :
            /\ IF i = outputs[JobOf(r)] THEN world.rewrites ELSE HasRoom
            /\ outputs' = [outputs EXCEPT ![JobOf(r)] = i]
            /\ data' = [data EXCEPT ![i] = Whole(b)]
      BY <2>2
    <3>2. i = NewFile /\ HasRoom
      BY <3>1 DEF Quiet
    <3> QED
      BY <3>1, <3>2, NewFileIsNew
  <2> QED
    BY <2>1, <2>2
<1>2. TouchesOwnFiles
  BY <1>1, <1>a DEF TouchesOwnFiles, TypeOK
<1>3. LeavesOthersAlone(r)
  BY <1>1, <1>a DEF LeavesOthersAlone, Takes, TypeOK
<1>4. StoredByName'
  BY <1>1 DEF StoredByName
<1>5. InOrder(r)'
  <2>1. outputs'[JobOf(r)] \notin Cached /\ cache' = cache /\ at'[r] = "running" /\ saw' = saw /\ world' = world
    BY <1>1, <1>a, NewFileIsNew DEF InOrder, Makes, Cached, InUse, TypeOK
  <2> QED
    BY <1>1, <2>1 DEF InOrder, LoadsAlone, Mounts, Makes, Certain, Loading, Cached, JobOf, Input
<1> QED
  BY <1>2, <1>3, <1>4, <1>5, StepKeepsOrder

\* An upload begins with a new file, under a name nobody had.
LEMMA UploadBeginsIsOrderly ==
  ASSUME Basic, Basic', Quiet, Orderly, NEW b \in Blob, UploadBegins(b)
  PROVE  Orderly'
<1> USE DEF UploadBegins, run
<1>1. TypeOK /\ UploadsAreNamed /\ \A r \in Run : JobOf(r) \in Job /\ InOrder(r)
  BY WorldIsKnown DEF Basic, Orderly
<1>2. cache[Whole(b)] = NoFile
  BY DEF Quiet
<1>3. /\ NewFile \in File /\ NewFile \notin InUse /\ NewFile # NoFile
      /\ upload' = [blob |-> b, file |-> NewFile]
      /\ data' = [data EXCEPT ![NewFile] = Torn(b)]
      /\ cache' = [cache EXCEPT ![Whole(b)] = NewFile]
  BY <1>2, NewFileIsNew, ContentsAreSomething
<1>4. Whole(b) \in Content
  BY ContentsAreSomething
<1>5. \A i \in InUse : i \in Cached <=> i \in Cached'
  BY <1>1, <1>2, <1>3, <1>4 DEF Cached, TypeOK
<1>6. \A i \in InUse \cap File : data'[i] = data[i]
  BY <1>1, <1>3 DEF TypeOK
<1>7. Shared'
  BY <1>5 DEF Orderly, Shared, InUse
<1>8. Named'
  <2>1. ASSUME NEW c \in Content, cache'[c] # NoFile
        PROVE  data'[cache'[c]] = c \/ Whole(upload'.blob) = c
    <3>1. CASE c = Whole(b)
      BY <1>3, <3>1
    <3>2. CASE c # Whole(b)
      <4>1. cache'[c] = cache[c] /\ cache[c] \in InUse /\ cache[c] \in File
        BY <1>1, <1>3, <2>1, <3>2 DEF TypeOK, InUse
      <4> QED
        BY <1>6, <2>1, <4>1, ContentsAreSomething DEF Orderly, Named
    <3> QED
      BY <3>1, <3>2
  <2> QED
    BY <2>1 DEF Named
<1>9. UploadIsNew'
  <2>1. b \notin sent
    BY <1>1, <1>2 DEF UploadsAreNamed
  <2>2. ASSUME NEW c \in Content, cache'[c] = NewFile
        PROVE  c = Whole(b)
    BY <1>1, <1>3, <2>2 DEF TypeOK, InUse
  <2> QED
    BY <1>3, <2>1, <2>2 DEF UploadIsNew
<1>10. ASSUME NEW r \in Run
       PROVE  InOrder(r)'
  <2>1. InOrder(r) /\ inputs[JobOf(r)] \in InUse /\ outputs[JobOf(r)] \in InUse
    BY <1>1 DEF InUse
  <2>2. /\ inputs[JobOf(r)] # NoFile => data'[inputs[JobOf(r)]] = data[inputs[JobOf(r)]]
        /\ outputs[JobOf(r)] # NoFile => data'[outputs[JobOf(r)]] = data[outputs[JobOf(r)]]
    BY <1>1, <1>6, <2>1 DEF TypeOK
  <2>3. \A c \in Content : cache[c] # NoFile => cache'[c] = cache[c]
    BY <1>1, <1>2, <1>3 DEF TypeOK
  <2>4. HasWork(r)
    BY DEF Basic
  <2>5. LoadsAlone(r)'
    BY <1>5, <2>1, <2>2, <2>3, <2>4 DEF InOrder, LoadsAlone, HasWork, JobOf, Input
  <2>6. Mounts(r)'
    <3>1. Input(r) # NoInput => Whole(Input(r).blob) \in Content
      BY <1>1, WorldIsKnown, ContentsAreSomething
    <3> QED
      BY <2>1, <2>3, <3>1 DEF InOrder, Mounts, Certain, JobOf, Input
  <2>7. Makes(r)'
    BY <1>5, <2>1, <2>2 DEF InOrder, Makes, JobOf
  <2> QED
    BY <2>5, <2>6, <2>7 DEF InOrder
<1>11. StoredByName'
  BY DEF Orderly, StoredByName
<1> QED
  BY <1>7, <1>8, <1>9, <1>10, <1>11 DEF Orderly

\* When it ends the file has what its name says.
LEMMA UploadEndsIsOrderly ==
  ASSUME Basic, Basic', Quiet, Orderly, UploadEnds
  PROVE  Orderly'
<1> USE DEF UploadEnds, run
<1>1. TypeOK /\ UploadsAreNamed /\ \A r \in Run : JobOf(r) \in Job /\ InOrder(r)
  BY WorldIsKnown DEF Basic, Orderly
<1>2. upload.file \in File /\ upload.blob \in Blob /\ Whole(upload.blob) \in Content
  BY <1>1, ContentsAreSomething DEF TypeOK
<1>3. Cached' = Cached
  BY DEF Cached
<1>4. Shared' /\ StoredByName'
  BY <1>3 DEF Orderly, Shared, StoredByName
<1>5. Named'
  <2>1. ASSUME NEW c \in Content, cache[c] # NoFile
        PROVE  data'[cache[c]] = c
    <3>1. CASE cache[c] = upload.file
      BY <1>1, <1>2, <3>1 DEF Orderly, UploadIsNew, TypeOK
    <3>2. CASE cache[c] # upload.file
      <4>1. c # Whole(upload.blob)
        BY <3>2 DEF Basic, UploadsAreNamed
      <4> QED
        BY <1>1, <2>1, <3>2, <4>1 DEF Orderly, Named, TypeOK
    <3> QED
      BY <3>1, <3>2
  <2> QED
    BY <2>1 DEF Named
<1>6. UploadIsNew'
  BY DEF UploadIsNew
<1>7. ASSUME NEW r \in Run
      PROVE  InOrder(r)'
  <2>1. /\ at[r] \in Loading /\ inputs[JobOf(r)] # NoFile => data'[inputs[JobOf(r)]] = data[inputs[JobOf(r)]]
        /\ at[r] # "done" /\ outputs[JobOf(r)] # NoFile => data'[outputs[JobOf(r)]] = data[outputs[JobOf(r)]]
    BY <1>1, OwnFiles DEF TypeOK
  <2> QED
    BY <1>1, <1>3, <2>1 DEF InOrder, LoadsAlone, Mounts, Makes, Loading, Certain, JobOf, Input
<1> QED
  BY <1>4, <1>5, <1>6, <1>7 DEF Orderly

LEMMA OrderlyInit == ASSUME Init PROVE Orderly
<1>1. Cached = {}
  BY DEF Init, Cached
<1> QED
  BY <1>1 DEF Init, Orderly, Shared, Named, UploadIsNew, StoredByName, InOrder, LoadsAlone, Mounts,
     Makes, Loading

LEMMA OrderlyNext == ASSUME Basic, Basic', Quiet, Orderly, [Next]_vars PROVE Orderly'
<1>1. CASE UNCHANGED vars
  BY <1>1 DEF vars, files, run, sends, Orderly, Shared, Named, UploadIsNew, StoredByName, InOrder,
     LoadsAlone, Mounts, Makes, Certain, Cached, JobOf, Input
<1>2. ASSUME NEW r \in Run, FetchRefused(r)
      PROVE  FALSE
  <2>1. Served(r) \in Content
    BY <1>2, InputIsServed DEF FetchRefused
  <2> QED
    BY <1>2, <2>1, ContentsAreSomething DEF FetchRefused, Quiet
<1>3. ASSUME NEW r \in Run, CopyInputs(r)
      PROVE  Orderly'
  BY <1>2, <1>3, MovesAreOrderly, LookInCacheIsOrderly, FetchOpensIsOrderly, PipeEndsIsOrderly,
     LinkFromCacheIsOrderly, LinkToCacheIsOrderly DEF CopyInputs
<1>4. ASSUME NEW r \in Run, GetOutputs(r)
      PROVE  Orderly'
  BY <1>4, MovesAreOrderly, GetLocalDataRefIsOrderly, SendOutputIsOrderly DEF GetOutputs
<1>5. ASSUME NEW r \in Run, StartContainer(r) \/ ImageFails(r) \/ ContainerEnds(r) \/ Again(r)
      PROVE  Orderly'
  BY <1>5, MovesAreOrderly, StartContainerIsOrderly
<1>6. ASSUME NEW j \in Job, ClearJobCache(j)
      PROVE  Orderly'
  BY <1>6 DEF ClearJobCache, Quiet
<1>7. ASSUME NEW r \in Run, NEW b \in Blob, WriteInput(r, b) \/ WriteOutput(r, b)
      PROVE  Orderly'
  BY <1>7, WriteOutputIsOrderly DEF WriteInput, Quiet
<1>8. CASE Upload
  BY <1>8, UploadBeginsIsOrderly, UploadEndsIsOrderly DEF Upload, UploadIsCut, Quiet
<1> QED
  BY <1>1, <1>3, <1>4, <1>5, <1>6, <1>7, <1>8 DEF Next

-----------------------------------------------------------------------------
(* The theorems, of runs with their images too.                            *)

\* The world is the same all along, so it stays Quiet or it never was.
LEMMA WorldStays == ASSUME [Next]_vars PROVE world' = world /\ (Quiet' <=> Quiet)
<1>1. world' = world
  BY DEF Next, vars, files, run, sends, CopyInputs, GetOutputs, Upload, Begin, LookInCache, FetchRefused,
     FetchFails, FetchOpens, PipeEnds, PipeIsCut, HashInput, ExistsInCache, RemoveDownload,
     LinkFromCache, LinkToCache, StartContainer, ImageFails, ContainerEnds, HashOutput,
     GetLocalDataRef, AskExists, SendOutput, SendFails, Again, ClearJobCache, WriteInput,
     WriteOutput, UploadBegins, UploadEnds, UploadIsCut
<1> QED
  BY <1>1 DEF Quiet, JobOf

\* A step of a run with its image is a step of its files, or leaves them alone.
LEMMA DiskStepIsFileStep == ASSUME [DiskNext]_allVars PROVE [Next]_vars
<1>1. CASE UNCHANGED allVars
  BY <1>1 DEF allVars
<1>2. CASE \E r \in Run : Proceed(r) \/ Program(r)
  BY <1>2 DEF Proceed, Program, EnsureImage, ContainerStarts, NoImage, Files, SubmitAgain, Next
<1>3. CASE Clients
  BY <1>3 DEF Clients, Next
<1>4. CASE Docker
  BY <1>4 DEF Docker
<1> QED
  BY <1>1, <1>2, <1>3, <1>4 DEF DiskNext

LEMMA Invariance == DiskSpec => []IInv
<1>1. DiskInit => IInv
  BY BasicInit, OrderlyInit DEF DiskInit, IInv
<1>2. IInv /\ [DiskNext]_allVars => IInv'
  BY BasicNext, OrderlyNext, WorldStays, DiskStepIsFileStep DEF IInv
<1> QED
  BY <1>1, <1>2, PTL DEF DiskSpec

\* The disk, the runs, the uploads and the server hold what they should, for any
\* number of runs, jobs, contents and attempts.
THEOREM TypeCorrect == DiskSpec => []TypeOK
<1>1. IInv => TypeOK
  BY DEF IInv, Basic
<1> QED
  BY <1>1, Invariance, PTL

\* A path in the cache never names another file, whatever is retried, raced for,
\* uploaded or deleted.
THEOREM PathsKeepTheirFiles == DiskSpec => PathKeepsItsFile
<1>1. ASSUME IInv, [Next]_vars, NEW c \in Content, cache[c] # NoFile
      PROVE  cache'[c] = cache[c]
  <2>1. TypeOK
    BY <1>1 DEF IInv, Basic
  <2>2. CASE cache' = cache
    BY <2>2
  <2>3. ASSUME NEW r \in Run, LinkToCache(r)
        PROVE  cache'[c] = cache[c]
    BY <1>1, <2>1, <2>3 DEF LinkToCache, CanLink, TypeOK
  <2>4. ASSUME NEW r \in Run, GetLocalDataRef(r)
        PROVE  cache'[c] = cache[c]
    BY <1>1, <2>1, <2>4 DEF GetLocalDataRef, CanLink, TypeOK
  <2>5. ASSUME NEW b \in Blob, UploadBegins(b)
        PROVE  cache'[c] = cache[c]
    BY <1>1, <2>1, <2>5 DEF UploadBegins, TypeOK
  <2> QED
    BY <1>1, <2>2, <2>3, <2>4, <2>5
       DEF Next, vars, files, run, sends, CopyInputs, GetOutputs, Upload, Begin, LookInCache, FetchRefused,
       FetchFails, FetchOpens, PipeEnds, PipeIsCut, HashInput, ExistsInCache, RemoveDownload,
       LinkFromCache, StartContainer, ImageFails, ContainerEnds, HashOutput,
       AskExists, SendOutput, SendFails, Again, ClearJobCache, WriteInput,
       WriteOutput, UploadEnds, UploadIsCut
<1>2. IInv /\ [DiskNext]_allVars
        => [\A c \in Content : cache[c] # NoFile => cache'[c] = cache[c]]_vars
  BY <1>1, DiskStepIsFileStep
<1> QED
  BY <1>2, Invariance, PTL DEF DiskSpec, PathKeepsItsFile

\* What a run was given and what it reports can be fetched, whatever fails, races
\* or is deleted on the way.
THEOREM FilesStayFetchable == DiskSpec => []FilesAreKept
<1>1. ASSUME IInv, NEW r \in Run
      PROVE  /\ at[r] # "claimed" /\ Input(r).hash => GetJobInput(r) # Nothing
             /\ told[r] # Nothing /\ ~(world.local /\ world.clears) => GetJobOutput(r) # Nothing
  <2>1. TypeOK /\ UploadsAreNamed /\ Fetchable(r)
    BY <1>1 DEF IInv, Basic
  <2>2. \A c \in Content : cache[c] # NoFile => data[cache[c]] # Nothing
    BY <2>1, ContentsAreSomething DEF TypeOK
  <2>3. Input(r).hash => Whole(Input(r).blob) \in Content
    BY <2>1, WorldIsKnown, ContentsAreSomething
  <2>4. told[r] # Nothing => told[r] \in Content
    BY <2>1 DEF TypeOK
  <2> QED
    BY <2>1, <2>2, <2>3, <2>4 DEF Fetchable, UploadsAreNamed, GetJobInput, GetJobOutput, Stored
<1>2. IInv => FilesAreKept
  BY <1>1 DEF FilesAreKept
<1> QED
  BY <1>2, Invariance, PTL

\* While Quiet, the cache holds under each name what has that hash, however many
\* runs download, publish and link it at once.
THEOREM CacheIsTrueToItsNames == DiskSpec => []CacheHoldsItsHash
<1>1. IInv => CacheHoldsItsHash
  BY DEF IInv, Orderly, Named, CacheHoldsItsHash
<1> QED
  BY <1>1, Invariance, PTL

\* While Quiet, a container that starts finds its own input, whole.
THEOREM ContainersSeeTheirInputs == DiskSpec => []InputsAreRight
<1>1. IInv => InputsAreRight
  BY DEF IInv, Orderly, InOrder, Mounts, Certain, InputsAreRight
<1> QED
  BY <1>1, Invariance, PTL

-----------------------------------------------------------------------------
(* The build of an image, by one run at a time.                            *)

\* The runs that build.
Builder(r) == r \in Run /\ plan.want[r] = "build"

\* What a build has in hand at each of its steps, and that nobody else is at one.
BuildsInOrder(r) ==
  /\ step[r] \in {"prepare", "exists", "download", "pipe", "clean", "remake", "unpack", "unpacking",
                  "unwrap", "drop", "restore", "build", "building"} => Builder(r)
  /\ step[r] \in {"clean", "remake", "unpack", "unpacking"} => archive = "whole"
  /\ step[r] = "remake" => dir = "none"
  /\ step[r] = "unpack" => dir = "empty"
  /\ step[r] = "unpacking" => dir = "part"
  /\ step[r] = "unwrap" => dir = "wrapped"
  /\ step[r] = "drop" => dir = "empty" /\ moved[r] = "ready"
  /\ step[r] = "restore" => dir = "none" /\ moved[r] = "ready"
  /\ step[r] = "build" => dir = "ready"
  /\ step[r] = "building" => context[r] = "ready"
  /\ Builder(r) /\ archive = "torn" => step[r] = "pipe"

ImagesInOrder ==
  /\ step \in [Run -> Images!Steps]
  /\ moved \in [Run -> Images!Contents] /\ context \in [Run -> Images!Contents]
  /\ archive \in {"none", "torn", "whole"}
  /\ Images!Undisturbed =>
       /\ spoiled = {}
       /\ {built, pushed} \subseteq {"none", "ready"}
       /\ \A r \in Run : BuildsInOrder(r)

LEMMA ImagesInit == ASSUME Images!Init PROVE ImagesInOrder
BY DEF Images!Init, ImagesInOrder, BuildsInOrder, Builder, Images!Steps, Images!Contents

\* While only one run builds, the others have nothing at stake.
LEMMA OthersDoNotBuild ==
  ASSUME Images!Undisturbed, NEW r \in Run, Builder(r), NEW s \in Run, s # r, BuildsInOrder(s),
         step'[s] = step[s], plan' = plan
  PROVE  BuildsInOrder(s)'
BY DEF Images!Undisturbed, Builder, BuildsInOrder

\* A build goes from one of its steps to the next.
LEMMA BuildGoesInOrder ==
  ASSUME ImagesInOrder, NEW r \in Run,
         Images!ContextStep(r) \/ Images!BuildBegins(r) \/ Images!BuildEnds(r) \/ Images!BuildFails(r)
  PROVE  ImagesInOrder'
<1> USE DEF ImagesInOrder, Images!Go, Images!pulls, Images!builds
<1>1. /\ step' \in [Run -> Images!Steps] /\ moved' \in [Run -> Images!Contents]
      /\ context' \in [Run -> Images!Contents] /\ archive' \in {"none", "torn", "whole"}
      /\ plan' = plan /\ \A s \in Run \ {r} : step'[s] = step[s]
  BY DEF Images!Steps, Images!Contents, Images!ContextStep, Images!EnsureBuildDir,
     Images!ArchiveExists, Images!DownloadBegins, Images!DownloadEnds,
     Images!DownloadFails, Images!RemoveDestination, Images!RecreateDestination,
     Images!UnpackBegins, Images!UnpackEnds, Images!Unwrap, Images!DropDestination,
     Images!RestoreDestination, Images!BuildBegins, Images!BuildEnds, Images!BuildFails
<1>2. Images!Undisturbed' <=> Images!Undisturbed
  BY <1>1 DEF Images!Undisturbed
<1>3. ASSUME Images!Undisturbed
      PROVE  /\ spoiled' = {} /\ {built', pushed'} \subseteq {"none", "ready"}
             /\ \A s \in Run : BuildsInOrder(s)'
  <2>1. Builder(r) /\ BuildsInOrder(r) /\ ~plan.cuts
    BY <1>3 DEF BuildsInOrder, Images!Undisturbed, Images!ContextStep, Images!EnsureBuildDir,
       Images!ArchiveExists, Images!DownloadBegins, Images!DownloadEnds,
       Images!DownloadFails, Images!RemoveDestination, Images!RecreateDestination,
       Images!UnpackBegins, Images!UnpackEnds, Images!Unwrap, Images!DropDestination,
       Images!RestoreDestination, Images!BuildBegins, Images!BuildEnds, Images!BuildFails
  <2>2. \A s \in Run \ {r} : step[s] # "unpacking"
    BY <1>3, <2>1 DEF BuildsInOrder, Images!Undisturbed, Builder
  <2>3. BuildsInOrder(r)' /\ spoiled' = {} /\ {built', pushed'} \subseteq {"none", "ready"}
    <3> USE <1>3, <2>1, <2>2 DEF BuildsInOrder, Builder
    <3>1. CASE Images!EnsureBuildDir(r)
      BY <3>1 DEF Images!EnsureBuildDir
    <3>2. CASE Images!ArchiveExists(r)
      BY <3>2 DEF Images!ArchiveExists
    <3>3. CASE Images!DownloadBegins(r)
      BY <3>3 DEF Images!DownloadBegins
    <3>4. CASE Images!DownloadEnds(r)
      BY <3>4 DEF Images!DownloadEnds
    <3>5. CASE Images!DownloadFails(r)
      BY <3>5 DEF Images!DownloadFails
    <3>6. CASE Images!RemoveDestination(r)
      BY <3>6 DEF Images!RemoveDestination
    <3>7. CASE Images!RecreateDestination(r)
      BY <3>7 DEF Images!RecreateDestination
    <3>8. CASE Images!UnpackBegins(r)
      BY <3>8 DEF Images!UnpackBegins
    <3>9. CASE Images!UnpackEnds(r)
      BY <3>9 DEF Images!UnpackEnds
    <3>10. CASE Images!Unwrap(r)
      BY <3>10 DEF Images!Unwrap
    <3>11. CASE Images!DropDestination(r)
      BY <3>11 DEF Images!DropDestination
    <3>12. CASE Images!RestoreDestination(r)
      BY <3>12 DEF Images!RestoreDestination
    <3>13. CASE Images!BuildBegins(r)
      BY <3>13 DEF Images!BuildBegins
    <3>14. CASE Images!BuildEnds(r)
      BY <3>14 DEF Images!BuildEnds
    <3>15. CASE Images!BuildFails(r)
      BY <3>15 DEF Images!BuildFails
    <3> HIDE DEF BuildsInOrder
    <3> QED
      BY <3>1, <3>2, <3>3, <3>4, <3>5, <3>6, <3>7, <3>8, <3>9, <3>10, <3>11, <3>12, <3>13,
         <3>14, <3>15 DEF Images!ContextStep
  <2> QED
    BY <1>1, <1>3, <2>1, <2>3, OthersDoNotBuild
<1> QED
  BY <1>1, <1>2, <1>3

\* Everything else leaves what a build has in hand alone.
LEMMA ElseInOrder ==
  ASSUME ImagesInOrder,
         UNCHANGED <<plan, archive, dir, spoiled, context, pushed>>,
         built' \in {built, "none", pushed},
         \/ UNCHANGED <<step, moved>>
         \/ \E r \in Run :
              /\ step[r] \in {"ask", "pulling", "have", "created", "failed"}
              /\ \E next \in {"ask", "pulling", "have", "created", "failed", "prepare"} :
                   /\ step' = [step EXCEPT ![r] = next]
                   /\ next = "prepare" => plan.want[r] = "build"
              /\ moved' \in {moved, [moved EXCEPT ![r] = "none"]}
  PROVE  ImagesInOrder'
<1> USE DEF ImagesInOrder
<1>1. Images!Undisturbed' <=> Images!Undisturbed
  BY DEF Images!Undisturbed
<1>2. step' \in [Run -> Images!Steps] /\ moved' \in [Run -> Images!Contents]
  BY DEF Images!Steps, Images!Contents
<1>3. ASSUME Images!Undisturbed, NEW s \in Run
      PROVE  BuildsInOrder(s)'
  <2>1. BuildsInOrder(s)
    BY <1>3
  <2>2. CASE UNCHANGED <<step, moved>>
    BY <2>1, <2>2 DEF BuildsInOrder, Builder
  <2>3. CASE ~UNCHANGED <<step, moved>>
    <3>1. PICK r \in Run, next \in {"ask", "pulling", "have", "created", "failed", "prepare"} :
             /\ step[r] \in {"ask", "pulling", "have", "created", "failed"}
             /\ step' = [step EXCEPT ![r] = next]
             /\ next = "prepare" => plan.want[r] = "build"
             /\ moved' \in {moved, [moved EXCEPT ![r] = "none"]}
      BY <2>3
    <3>2. CASE s = r
      BY SMTT(60), <2>1, <3>1, <3>2 DEF BuildsInOrder, Builder
    <3>3. CASE s # r
      BY SMTT(60), <2>1, <3>1, <3>3 DEF BuildsInOrder, Builder
    <3> QED
      BY <3>2, <3>3
  <2> QED
    BY <2>2, <2>3
<1> QED
  BY <1>1, <1>2, <1>3

LEMMA ImagesNext == ASSUME ImagesInOrder, [DiskNext]_allVars PROVE ImagesInOrder'
<1> USE DEF Images!Go, Images!pulls, Images!builds
<1>1. CASE UNCHANGED images
  BY <1>1, ElseInOrder DEF images
<1>2. ASSUME NEW r \in Run,
             \/ Images!PullStep(r) \/ Images!CheckForDockerImage(r) \/ Images!NoSuchImage(r)
             \/ Images!CreateContainer(r) \/ Images!Again(r)
      PROVE  ImagesInOrder'
  <2>1. UNCHANGED <<plan, archive, dir, spoiled, context, pushed, built>>
    BY <1>2 DEF Images!PullStep, Images!BelieveRecord, Images!Pull, Images!PullEnds, Images!PullFails,
       Images!CheckForDockerImage, Images!NoSuchImage, Images!CreateContainer, Images!Again
  <2>2. /\ step[r] \in {"ask", "pulling", "have", "created", "failed"}
        /\ \E next \in {"ask", "pulling", "have", "created", "failed", "prepare"} :
             /\ step' = [step EXCEPT ![r] = next]
             /\ next = "prepare" => plan.want[r] = "build"
        /\ moved' \in {moved, [moved EXCEPT ![r] = "none"]}
    BY <1>2 DEF Images!PullStep, Images!BelieveRecord, Images!Pull, Images!PullEnds, Images!PullFails,
       Images!CheckForDockerImage, Images!NoSuchImage, Images!CreateContainer, Images!Again
  <2> QED
    BY <2>1, <2>2, ElseInOrder
<1>3. ASSUME Images!Others
      PROVE  ImagesInOrder'
  BY <1>3, ElseInOrder DEF Images!Others, Images!Check, Images!CheckFindsImage, Images!CheckMissesImage,
     Images!Forget, Images!BackgroundPullEnds, Images!RemovePulled, Images!ClearCache
<1>4. ASSUME NEW r \in Run, Images!EnsureDockerImage(r)
      PROVE  ImagesInOrder'
  BY <1>2, <1>4, BuildGoesInOrder DEF Images!EnsureDockerImage, Images!BuildStep
<1> QED
  BY <1>1, <1>2, <1>3, <1>4
     DEF DiskNext, allVars, Proceed, Program, Clients, Docker, EnsureImage, ContainerStarts, NoImage,
         Files, SubmitAgain

\* An image goes by the name of a build only if it was made from the whole
\* context, for any number of runs of which one builds, however often it is
\* removed, pulled back, built again or fails to.
THEOREM ImagesAreWhole == DiskSpec => []ImageIsOfItsContext
<1>1. DiskInit => ImagesInOrder
  BY ImagesInit DEF DiskInit
<1>2. ImagesInOrder /\ [DiskNext]_allVars => ImagesInOrder'
  BY ImagesNext
<1>3. ImagesInOrder => ImageIsOfItsContext
  BY DEF ImagesInOrder, ImageIsOfItsContext, Images!ImageIsOfItsContext
<1> QED
  BY <1>1, <1>2, <1>3, PTL DEF DiskSpec
===============================================================================
