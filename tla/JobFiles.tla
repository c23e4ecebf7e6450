------------------------------- MODULE JobFiles -------------------------------
(***************************************************************************)
(* The files of the jobs on a worker's disk: inputs copied before the      *)
(* container starts, outputs named by their hash when it has ended         *)
(* (IO.ts, jobtools.ts), and, for a local worker, the handlers that        *)
(* receive and serve the same files (local-handler.ts).                    *)
(*                                                                         *)
(* Paths hold files, and files hold contents: f/<hash> is shared by all    *)
(* jobs, and both directions use hard links, so a program that writes into *)
(* its input, or into an output of an earlier run, writes into the cache.  *)
(* A content is a blob, or a torn piece of one; a content stands for its   *)
(* own hash.  Each job has one input and one output.                       *)
(*                                                                         *)
(* Whatever is awaited is a step of its own.  A run is one pass through    *)
(* CopyInputs, the container and UploadOutputs; two runs of one job use    *)
(* the same directories, and the second may begin before the first ends.   *)
(***************************************************************************)
EXTENDS Integers, FiniteSets

CONSTANTS Run, Job,
          Blob,       \* contents, numbers from 1
          File,       \* bound: files (inodes) in use at once, numbers from 1
          MaxTry,     \* maxTry of retryAsync
          MaxUploads, \* bound: uploads by clients
          World       \* what stays the same all along, see Worlds

Content == [blob : Blob, whole : BOOLEAN]
Whole(b) == [blob |-> b, whole |-> TRUE]
Torn(b)  == [blob |-> b, whole |-> FALSE]
Nothing  == [blob |-> 0, whole |-> TRUE]
NoFile   == 0
NoInput  == [blob |-> 0, hash |-> FALSE]

\* A world: the mode of the worker; whether programs write into files that are
\* there, whether the server may answer a download with an error, whether clients
\* upload a blob again or give up amid an upload, whether jobs are deleted while
\* they run, whether failed ones are submitted again; what programs write; which job each run is of, and the input of each job: a url with its
\* hash or without, or none.
Worlds ==
  [local : BOOLEAN, rewrites : BOOLEAN, refuses : BOOLEAN, reuploads : BOOLEAN, clears : BOOLEAN,
   again : BOOLEAN, writes : SUBSET Blob, of : [Run -> Job], input : [Job -> [blob : Blob, hash : BOOLEAN] \cup {NoInput}]]

ASSUME FilesAssumption ==
  /\ IsFiniteSet(Run) /\ IsFiniteSet(Job)
  /\ Blob \subseteq Nat \ {0} /\ Blob # {} /\ IsFiniteSet(Blob)
  /\ File \subseteq Nat \ {0} /\ IsFiniteSet(File)
  /\ MaxTry \in Nat \ {0} /\ MaxUploads \in Nat
  /\ World \subseteq Worlds

VARIABLES
  world,    \* chosen at the start
  data,     \* data[i]: what file i holds
  cache,    \* cache[c]: the file at f/<hash of c>
  inputs,   \* inputs[j]: the file in the inputs directory of job j
  outputs,  \* outputs[j]: the file in its outputs directory
  there,    \* the jobs whose directories exist
  at,       \* at[r]: where run r is
  tries,    \* tries[r]: failed attempts of its retryAsync
  open,     \* open[r]: the file its download writes to
  hash,     \* hash[r]: the hash it works with
  saw,      \* saw[r]: its input when the container started
  wrote,    \* wrote[r]: what its container wrote
  told,     \* told[r]: the output it reported
  upload,   \* the upload the local server is receiving: blob and file
  sent,     \* blobs that were uploaded to the end
  uploads,  \* number of uploads so far
  store     \* store[c]: what the remote server keeps as <hash of c>

files == <<data, cache, inputs, outputs, there>>
run   == <<at, tries, open, hash, saw, wrote, told>>
sends == <<upload, sent, uploads>>
vars  == <<world, files, run, sends, store>>

Places == {"claimed", "look", "fetch", "pipe", "hash", "exists", "swap", "relink",
           "publish", "mounted", "running", "collect", "name", "send", "done", "failed"}

NoUpload == [blob |-> 0, file |-> NoFile]

TypeOK ==
  /\ world \in World
  /\ data \in [File -> Content]
  /\ cache \in [Content -> File \cup {NoFile}]
  /\ inputs \in [Job -> File \cup {NoFile}]
  /\ outputs \in [Job -> File \cup {NoFile}]
  /\ there \subseteq Job
  /\ at \in [Run -> Places]
  /\ tries \in [Run -> 0 .. MaxTry]
  /\ open \in [Run -> File \cup {NoFile}]
  /\ hash \in [Run -> Content \cup {Nothing}]
  /\ saw \in [Run -> Content \cup {Nothing}]
  /\ wrote \in [Run -> Content \cup {Nothing}]
  /\ told \in [Run -> Content \cup {Nothing}]
  /\ upload \in [blob : Blob, file : File] \cup {NoUpload}
  /\ sent \subseteq Blob
  /\ uploads \in 0 .. MaxUploads
  /\ store \in [Content -> Content \cup {Nothing}]

JobOf(r) == world.of[r]
Input(r) == world.input[JobOf(r)]

Init ==
  /\ world \in World
  /\ data = [i \in File |-> Torn(CHOOSE b \in Blob : TRUE)]
  /\ cache = [c \in Content |-> NoFile]
  /\ inputs = [j \in Job |-> NoFile]
  /\ outputs = [j \in Job |-> NoFile]
  /\ there = {}
  /\ at = [r \in Run |-> "claimed"]
  /\ tries = [r \in Run |-> 0]
  /\ open = [r \in Run |-> NoFile]
  /\ hash = [r \in Run |-> Nothing]
  /\ saw = [r \in Run |-> Nothing]
  /\ wrote = [r \in Run |-> Nothing]
  /\ told = [r \in Run |-> Nothing]
  /\ upload = NoUpload /\ sent = {} /\ uploads = 0
  /\ store = [c \in Content |->
                IF \E j \in Job : c = Whole(world.input[j].blob) THEN c ELSE Nothing]

-----------------------------------------------------------------------------
Go(r, place) == at' = [at EXCEPT ![r] = place]

\* A file nobody has a name for or is writing to.
InUse == {cache[c] : c \in Content} \cup {inputs[j] : j \in Job} \cup {outputs[j] : j \in Job}
           \cup {open[r] : r \in Run} \cup {upload.file}
HasRoom  == File \ InUse # {}
NewFile  == CHOOSE i \in File : i \notin InUse

\* Mutant: maxTry is forgotten.
RetryForEver(r, place) ==
  /\ tries' = [tries EXCEPT ![r] = @ + 1]
  /\ Go(r, place)

\* Mutant: after the last attempt the code goes on as if it had worked.
RetryThenGoOn(r, place) ==
  /\ tries' = [tries EXCEPT ![r] = @ + 1]
  /\ Go(r, IF tries[r] + 1 < MaxTry THEN place ELSE "hash")

\* retryAsync: the next attempt, unless this one was the last.
Retry(r, place) ==
  /\ tries' = [tries EXCEPT ![r] = @ + 1]
  /\ Go(r, IF tries[r] + 1 < MaxTry THEN place ELSE "failed")

\* convertIOToVolumeMounts begins: the inputs directory is emptied, the outputs
\* directory is not.  A client submits a job once its inputs are uploaded.
Begin(r) ==
  /\ at[r] = "claimed"
  /\ world.local /\ Input(r).hash => Input(r).blob \in sent
  /\ inputs' = [inputs EXCEPT ![JobOf(r)] = NoFile]
  /\ there' = there \cup {JobOf(r)}
  /\ Go(r, IF Input(r) = NoInput THEN "mounted" ELSE IF Input(r).hash THEN "look" ELSE "fetch")
  /\ UNCHANGED <<world, data, cache, outputs, tries, open, hash, saw, wrote, told, sends, store>>

\* dataRefToFile: existsSync of the cached file, and a hard link if it is there.
LookInCache(r) ==
  LET cached == cache[Whole(Input(r).blob)] IN
  /\ at[r] = "look"
  /\ IF cached = NoFile
       THEN Go(r, "fetch") /\ UNCHANGED inputs
       ELSE Go(r, "mounted") /\ inputs' = [inputs EXCEPT ![JobOf(r)] = cached]
  /\ there' = there \cup {JobOf(r)}
  /\ UNCHANGED <<world, data, cache, outputs, tries, open, hash, saw, wrote, told, sends, store>>

\* What the queue's server gives for f/<hash of c>: for a local worker that is
\* downloadHandler and the cache itself.
Stored(c) ==
  IF ~world.local THEN store[c] ELSE IF cache[c] = NoFile THEN Nothing ELSE data[cache[c]]

Exists(c) == Stored(c) # Nothing

\* What the url of an input gives: one without a hash may be anywhere.
Served(r) ==
  LET c == Whole(Input(r).blob) IN IF Input(r).hash THEN Stored(c) ELSE c

\* The handlers that show the files of a job find them by hash.
GetJobInput(r)  == Stored(Whole(Input(r).blob))
GetJobOutput(r) == Stored(told[r])

\* An answer that is not ok is not an error: the retries end and nothing is written.
FetchRefused(r) ==
  /\ at[r] = "fetch"
  /\ world.refuses \/ Served(r) = Nothing
  /\ Go(r, "hash")
  /\ UNCHANGED <<world, files, tries, open, hash, saw, wrote, told, sends, store>>

FetchFails(r) ==
  /\ at[r] = "fetch"
  /\ Retry(r, "fetch")
  /\ UNCHANGED <<world, files, open, hash, saw, wrote, told, sends, store>>

\* The file is opened without truncation: what an earlier attempt wrote is
\* written again.  With the first bytes it is a piece of the blob.
FetchOpens(r) ==
  LET i == IF inputs[JobOf(r)] = NoFile THEN NewFile ELSE inputs[JobOf(r)] IN
  /\ at[r] = "fetch"
  /\ Served(r) # Nothing /\ JobOf(r) \in there
  /\ inputs[JobOf(r)] = NoFile => HasRoom
  /\ inputs' = [inputs EXCEPT ![JobOf(r)] = i]
  /\ data' = IF inputs[JobOf(r)] # NoFile /\ data[i] = Served(r)
               THEN data ELSE [data EXCEPT ![i] = Torn(Input(r).blob)]
  /\ open' = [open EXCEPT ![r] = i]
  /\ Go(r, "pipe")
  /\ UNCHANGED <<world, cache, outputs, there, tries, hash, saw, wrote, told, sends, store>>

PipeEnds(r) ==
  /\ at[r] = "pipe"
  /\ data' = [data EXCEPT ![open[r]] = Served(r)]
  /\ open' = [open EXCEPT ![r] = NoFile]
  /\ Go(r, "hash")
  /\ UNCHANGED <<world, cache, inputs, outputs, there, tries, hash, saw, wrote, told, sends, store>>

\* Mutant: the error of pipeTo is swallowed.
PipeIsCutUnseen(r) ==
  /\ at[r] = "pipe"
  /\ open' = [open EXCEPT ![r] = NoFile]
  /\ Go(r, "hash")
  /\ UNCHANGED <<world, files, tries, hash, saw, wrote, told, sends, store>>

\* Mutant: a cut download is tried again without end.
PipeIsCutUncounted(r) ==
  /\ at[r] = "pipe"
  /\ open' = [open EXCEPT ![r] = NoFile]
  /\ Go(r, "fetch")
  /\ UNCHANGED <<world, files, tries, hash, saw, wrote, told, sends, store>>

PipeIsCut(r) ==
  /\ at[r] = "pipe"
  /\ open' = [open EXCEPT ![r] = NoFile]
  /\ Retry(r, "fetch")
  /\ UNCHANGED <<world, files, hash, saw, wrote, told, sends, store>>

\* The hash of the reference, or hashFileOnDisk, which throws without a file.
HashInput(r) ==
  LET i == inputs[JobOf(r)] IN
  /\ at[r] = "hash"
  /\ hash' = [hash EXCEPT ![r] = IF Input(r).hash THEN Whole(Input(r).blob)
                                 ELSE IF i = NoFile THEN Nothing ELSE data[i]]
  /\ Go(r, IF hash'[r] = Nothing THEN "failed" ELSE "exists")
  /\ UNCHANGED <<world, files, tries, open, saw, wrote, told, sends, store>>

\* exists() is awaited, and what follows relies on its answer.
ExistsInCache(r) ==
  /\ at[r] = "exists"
  /\ Go(r, IF cache[hash[r]] = NoFile THEN "publish" ELSE "swap")
  /\ UNCHANGED <<world, files, tries, open, hash, saw, wrote, told, sends, store>>

RemoveDownload(r) ==
  /\ at[r] = "swap"
  /\ inputs' = [inputs EXCEPT ![JobOf(r)] = NoFile]
  /\ Go(r, IF inputs[JobOf(r)] = NoFile THEN "failed" ELSE "relink")
  /\ UNCHANGED <<world, data, cache, outputs, there, tries, open, hash, saw, wrote, told, sends, store>>

LinkFromCache(r) ==
  /\ at[r] = "relink"
  /\ IF inputs[JobOf(r)] = NoFile /\ JobOf(r) \in there
       THEN Go(r, "mounted") /\ inputs' = [inputs EXCEPT ![JobOf(r)] = cache[hash[r]]]
       ELSE Go(r, "failed") /\ UNCHANGED inputs
  /\ UNCHANGED <<world, data, cache, outputs, there, tries, open, hash, saw, wrote, told, sends, store>>

\* Mutant: the cached file is replaced, as rename() would.
CanRename(i, c) == i # NoFile

\* link() fails when its target is there, or its source is not.
CanLink(i, c) == i # NoFile /\ cache[c] = NoFile

LinkToCache(r) ==
  /\ at[r] = "publish"
  /\ IF CanLink(inputs[JobOf(r)], hash[r])
       THEN Go(r, "mounted") /\ cache' = [cache EXCEPT ![hash[r]] = inputs[JobOf(r)]]
       ELSE Go(r, "failed") /\ UNCHANGED cache
  /\ UNCHANGED <<world, data, inputs, outputs, there, tries, open, hash, saw, wrote, told, sends, store>>

-----------------------------------------------------------------------------
(* The container: /inputs and /outputs are the directories themselves, and *)
(* docker makes them when they are gone.                                   *)

StartContainer(r) ==
  LET i == inputs[JobOf(r)] IN
  /\ at[r] = "mounted"
  /\ saw' = [saw EXCEPT ![r] = IF i = NoFile THEN Nothing ELSE data[i]]
  /\ there' = there \cup {JobOf(r)}
  /\ Go(r, "running")
  /\ UNCHANGED <<world, data, cache, inputs, outputs, tries, open, hash, wrote, told, sends, store>>

\* The image is not there and cannot be had.
ImageFails(r) ==
  /\ at[r] = "mounted"
  /\ Go(r, "failed")
  /\ UNCHANGED <<world, files, tries, open, hash, saw, wrote, told, sends, store>>

\* A program that edits its input.
WriteInput(r, b) ==
  LET i == inputs[JobOf(r)] IN
  /\ at[r] = "running" /\ world.rewrites
  /\ i # NoFile /\ b # Input(r).blob
  /\ data' = [data EXCEPT ![i] = Whole(b)]
  /\ UNCHANGED <<world, cache, inputs, outputs, there, run, sends, store>>

\* A program writes its output, once: into the file that is there, or a new one;
\* nobody sees what it writes when the directory it has was removed.
WriteOutput(r, b) ==
  LET old == outputs[JobOf(r)] IN
  /\ at[r] = "running" /\ wrote[r] = Nothing /\ b \in world.writes
  /\ \/ \E i \in {old, NewFile} :
          /\ JobOf(r) \in there
          /\ IF i = old THEN old # NoFile /\ world.rewrites ELSE HasRoom
          /\ outputs' = [outputs EXCEPT ![JobOf(r)] = i]
          /\ data' = [data EXCEPT ![i] = Whole(b)]
     \/ JobOf(r) \notin there /\ UNCHANGED <<outputs, data>>
  /\ wrote' = [wrote EXCEPT ![r] = Whole(b)]
  /\ UNCHANGED <<world, cache, inputs, there, at, tries, open, hash, saw, told, sends, store>>

ContainerEnds(r) ==
  /\ at[r] = "running"
  /\ Go(r, "collect")
  /\ UNCHANGED <<world, files, tries, open, hash, saw, wrote, told, sends, store>>

-----------------------------------------------------------------------------
(* getOutputs.                                                             *)

\* getFiles lists the directory and throws without it; hashFileOnDisk reads the file.
HashOutput(r) ==
  LET i == outputs[JobOf(r)] IN
  /\ at[r] = "collect"
  /\ hash' = [hash EXCEPT ![r] = IF i = NoFile THEN Nothing ELSE data[i]]
  /\ tries' = [tries EXCEPT ![r] = 0]
  /\ Go(r, IF JobOf(r) \notin there THEN "failed" ELSE IF i = NoFile THEN "done" ELSE "name")
  /\ UNCHANGED <<world, files, open, saw, wrote, told, sends, store>>

\* A local worker's server has the file once it is linked into the cache; when it
\* is there already the output becomes a link to it.  An output that is gone by now
\* is reported all the same: the error is swallowed.
GetLocalDataRef(r) ==
  LET cached == cache[hash[r]]
      output == outputs[JobOf(r)] IN
  /\ at[r] = "name" /\ world.local
  /\ outputs' = [outputs EXCEPT ![JobOf(r)] = IF output # NoFile /\ cached # NoFile THEN cached ELSE @]
  /\ cache' = [cache EXCEPT ![hash[r]] = IF CanLink(output, hash[r]) THEN output ELSE @]
  /\ told' = [told EXCEPT ![r] = hash[r]]
  /\ Go(r, "done")
  /\ UNCHANGED <<world, data, inputs, there, tries, open, hash, saw, wrote, sends, store>>

\* fileToDataref: a file the server has is not sent again; when the question
\* fails it is sent anyway.
AskExists(r) ==
  /\ at[r] = "name" /\ ~world.local
  /\ \/ Exists(hash[r])
        /\ told' = [told EXCEPT ![r] = hash[r]] /\ Go(r, "done")
     \/ Go(r, "send") /\ UNCHANGED told
  /\ UNCHANGED <<world, files, tries, open, hash, saw, wrote, sends, store>>

\* curl sends what is in the file by then.
SendOutput(r) ==
  /\ at[r] = "send" /\ outputs[JobOf(r)] # NoFile
  /\ store' = [store EXCEPT ![hash[r]] = data[outputs[JobOf(r)]]]
  /\ told' = [told EXCEPT ![r] = hash[r]]
  /\ Go(r, "done")
  /\ UNCHANGED <<world, files, tries, open, hash, saw, wrote, sends>>

\* Mutant: a failed upload is not looked at.
SendFailsUnseen(r) ==
  /\ at[r] = "send"
  /\ told' = [told EXCEPT ![r] = hash[r]]
  /\ Go(r, "done")
  /\ UNCHANGED <<world, files, tries, open, hash, saw, wrote, sends, store>>

SendFails(r) ==
  /\ at[r] = "send"
  /\ Retry(r, "send")
  /\ UNCHANGED <<world, files, open, hash, saw, wrote, told, sends, store>>

-----------------------------------------------------------------------------
(* The job is submitted again, or deleted: whatever its runs are doing, the *)
(* worker removes the directories (run.ts, ClearJobCache).                 *)

Again(r) ==
  /\ at[r] = "failed" /\ world.again
  /\ Go(r, "claimed")
  /\ tries' = [tries EXCEPT ![r] = 0]
  /\ hash' = [hash EXCEPT ![r] = Nothing]
  /\ saw' = [saw EXCEPT ![r] = Nothing]
  /\ wrote' = [wrote EXCEPT ![r] = Nothing]
  /\ UNCHANGED <<world, files, open, told, sends, store>>

ClearJobCache(j) ==
  /\ world.clears /\ j \in there
  /\ there' = there \ {j}
  /\ inputs' = [inputs EXCEPT ![j] = NoFile]
  /\ outputs' = [outputs EXCEPT ![j] = NoFile]
  /\ UNCHANGED <<world, data, cache, run, sends, store>>

-----------------------------------------------------------------------------
(* copyLargeBlobsToCloud of a client, and uploadHandler of a local worker: *)
(* the file is opened with truncation, under its final name.               *)

\* A client keeps a tally of what it has uploaded; another one has its own.
UploadBegins(b) ==
  LET old == cache[Whole(b)] IN
  /\ world.local /\ upload = NoUpload /\ uploads < MaxUploads
  /\ old = NoFile \/ world.reuploads
  /\ old = NoFile => HasRoom
  /\ LET i == IF old = NoFile THEN NewFile ELSE old IN
       /\ upload' = [blob |-> b, file |-> i]
       /\ data' = [data EXCEPT ![i] = Torn(b)]
       /\ cache' = [cache EXCEPT ![Whole(b)] = i]
  /\ uploads' = uploads + 1
  /\ UNCHANGED <<world, inputs, outputs, there, run, sent, store>>

UploadEnds ==
  /\ upload # NoUpload
  /\ data' = [data EXCEPT ![upload.file] = Whole(upload.blob)]
  /\ sent' = sent \cup {upload.blob}
  /\ upload' = NoUpload
  /\ UNCHANGED <<world, cache, inputs, outputs, there, run, uploads, store>>

\* The client goes away: what has arrived stays.
UploadIsCut ==
  /\ upload # NoUpload /\ world.reuploads
  /\ upload' = NoUpload
  /\ UNCHANGED <<world, files, run, sent, uploads, store>>

-----------------------------------------------------------------------------
CopyInputs(r) ==
  \/ Begin(r) \/ LookInCache(r)
  \/ FetchRefused(r) \/ FetchFails(r) \/ FetchOpens(r) \/ PipeEnds(r) \/ PipeIsCut(r)
  \/ HashInput(r) \/ ExistsInCache(r)
  \/ RemoveDownload(r) \/ LinkFromCache(r) \/ LinkToCache(r)

GetOutputs(r) ==
  HashOutput(r) \/ GetLocalDataRef(r) \/ AskExists(r) \/ SendOutput(r) \/ SendFails(r)

\* Steps of a run that are bound to come: its awaits end and its container does.
Proceeds(r) == CopyInputs(r) \/ ContainerEnds(r) \/ GetOutputs(r)

Upload == (\E b \in Blob : UploadBegins(b)) \/ UploadEnds \/ UploadIsCut

Next ==
  \/ \E r \in Run :
       CopyInputs(r) \/ StartContainer(r) \/ ImageFails(r) \/ ContainerEnds(r) \/ GetOutputs(r) \/ Again(r)
  \/ \E j \in Job : ClearJobCache(j)
  \/ \E r \in Run, b \in Blob : WriteInput(r, b) \/ WriteOutput(r, b)
  \/ Upload

Spec == Init /\ [][Next]_vars /\ \A r \in Run : WF_vars(Proceeds(r)) /\ WF_vars(StartContainer(r))

-----------------------------------------------------------------------------
(* Properties.                                                             *)

\* Nothing but the code's own races is going on: programs leave the files that
\* are there alone, the server serves, nobody uploads what is there, and every
\* job is run by one run at a time and not deleted.
Quiet ==
  /\ ~world.rewrites /\ ~world.refuses /\ ~world.reuploads /\ ~world.clears
  /\ \A r, s \in Run : r # s => JobOf(r) # JobOf(s)

\* The cache is trusted by name: a file f/<hash> holds what has that hash, unless
\* it is being uploaded, however many jobs download, publish and read it at once.
CacheHoldsItsHash ==
  Quiet => \A c \in Content :
    cache[c] # NoFile => data[cache[c]] = c \/ Whole(upload.blob) = c

\* A container that starts finds its input, all of it, and no other; for an input
\* without a hash, if no upload of the same content may be half done.
InputsAreRight ==
  Quiet => \A r \in Run :
    at[r] = "running" /\ (Input(r).hash \/ ~world.local) => saw[r] = Whole(Input(r).blob)

\* What a run was given and what it reports can be fetched by name; unless a local
\* worker deletes the job between the hash and the link.
FilesAreKept ==
  \A r \in Run :
    /\ at[r] # "claimed" /\ Input(r).hash => GetJobInput(r) # Nothing
    /\ told[r] # Nothing /\ ~(world.local /\ world.clears) => GetJobOutput(r) # Nothing

\* Whatever happens to contents, a path in the cache never names another file:
\* who has linked it shares it with all who link it later.
PathKeepsItsFile == [][\A c \in Content : cache[c] # NoFile => cache'[c] = cache[c]]_vars

\* A run that has begun comes to an end, whatever fails.
RunsEnd == \A r \in Run : at[r] # "claimed" ~> at[r] \in {"done", "failed"}

=============================================================================
