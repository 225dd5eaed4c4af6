----------------------------- MODULE TestFiles ------------------------------
(***************************************************************************)
(* Test files: rows of the database that point at versions of objects in   *)
(* S3, or at files of a local directory.  An object is pending until its   *)
(* bytes have been verified, and S3's lifecycle rule removes pending        *)
(* versions; drafts and jobs name files by id only.                         *)
(*                                                                         *)
(* An upload may be repeated while its URL is valid, several calls may     *)
(* complete one file, and the generation worker saves files before their   *)
(* rows exist.  S3 is modelled as src/ uses it: a lifecycle removal looks   *)
(* at the tag when it happens, first hides the latest version, then takes   *)
(* away hidden or superseded ones.                                          *)
(***************************************************************************)
EXTENDS Integers, Sequences, FiniteSets, SequencesExt, Functions, Absent

CONSTANTS
  Uploads,      \* file ids a browser uploads
  Outputs,      \* file ids a generation saves
  Completers,   \* open calls of Complete
  Storages,     \* bound: of "s3" and "local", the storage of a behaviour
  MaxVersions,  \* bound: versions of one object
  MaxDraft,     \* bound: versions of the draft
  MaxJobs       \* bound: submissions

Files == Uploads \cup Outputs

ASSUME FileAssumption == /\ Uploads \cap Outputs = {} /\ Storages \subseteq {"s3", "local"}
                         /\ MaxVersions \in Nat \ {0} /\ MaxDraft \in Nat \ {0} /\ MaxJobs \in Nat
                         /\ None \notin [version : Nat \cup {None}, upload : Nat \cup {None}]

VARIABLES
  storage,   \* where objects are kept
  entry,     \* test_files: version_id (None unless ready) and upload_version_id, None without a row
  objects,   \* of each file its versions: tag pending or ready, or gone, and whether the bytes are right
  latest,    \* of each file the version S3 shows without a version id, None when hidden or absent
  completes, \* open calls of Complete
  draft,     \* the problem's draft: version, and the files its cases name
  asking,    \* a generation request that has read the draft
  jobs,      \* submissions: the draft's version and files at their creation, and the locations once resolved
  output     \* of the running generation: the file saved so far

fileVars == <<storage, entry, objects, latest, completes, draft, asking, jobs, output>>

Ready(f)  == entry[f] # None /\ entry[f].version # None
Version(f, v) == v \in DOMAIN objects[f] /\ objects[f][v].tag # "gone"
NoCall    == [pc |-> "idle"]

FilesInit ==
  /\ storage \in Storages
  /\ entry = [f \in Files |-> None]
  /\ objects = [f \in Files |-> <<>>]
  /\ latest = [f \in Files |-> None]
  /\ completes = [c \in Completers |-> NoCall]
  /\ draft = [version |-> 1, files |-> {}]
  /\ asking = None
  /\ jobs = {}
  /\ output = None

-----------------------------------------------------------------------------
(* Uploading.                                                              *)

\* Begin inserts the row, then signs the URL; when that fails the row is deleted again.
BeginUpload(f) ==
  /\ f \in Uploads
  /\ entry[f] = None
  /\ \E signed \in BOOLEAN : entry' = [entry EXCEPT ![f] = IF signed THEN [version |-> None, upload |-> None] ELSE None]
  /\ UNCHANGED <<storage, objects, latest, completes, draft, asking, jobs, output>>

\* PutObject: S3 checks the signed checksum and adds a version.  The local directory takes any
\* bytes, once, and calls them the same version ever after.
Put(f, good) ==
  /\ Len(objects[f]) < IF storage = "s3" THEN MaxVersions ELSE 1
  /\ storage = "s3" => good
  /\ objects' = [objects EXCEPT ![f] = Append(@, [tag |-> "pending", good |-> good])]
  /\ latest' = [latest EXCEPT ![f] = Len(objects'[f])]
Upload(f) ==
  /\ f \in Uploads /\ entry[f] # None
  /\ \E good \in BOOLEAN : Put(f, good)
  /\ UNCHANGED <<storage, entry, completes, draft, asking, jobs, output>>

\* The rule of infra/api/storage.tf; local files have no lifecycle.
Hide(f) ==
  /\ storage = "s3"
  /\ latest[f] # None
  /\ objects[f][latest[f]].tag = "pending"
  /\ latest' = [latest EXCEPT ![f] = None]
  /\ UNCHANGED <<storage, entry, objects, completes, draft, asking, jobs, output>>
Reclaim(f) ==
  /\ storage = "s3"
  /\ \E v \in DOMAIN objects[f] : /\ v # latest[f] /\ objects[f][v].tag = "pending"
                                  /\ objects' = [objects EXCEPT ![f][v].tag = "gone"]
  /\ UNCHANGED <<storage, entry, latest, completes, draft, asking, jobs, output>>

-----------------------------------------------------------------------------
(* Complete: read the row, read and verify the bytes, tag them, update the row. *)

CallAt(c, call) == completes' = [completes EXCEPT ![c] = call]
CompleteRow(c, f) ==
  /\ completes[c] = NoCall
  /\ entry[f] # None /\ ~Ready(f)
  /\ CallAt(c, [pc |-> "get", file |-> f])
  /\ UNCHANGED <<storage, entry, objects, latest, draft, asking, jobs, output>>

\* An uploaded file is read at its latest version, a generated one at the version its row names.
Fetched(f) == IF entry[f].upload # None THEN entry[f].upload ELSE latest[f]
CompleteGet(c) ==
  LET f == completes[c].file
      v == Fetched(f) IN
  /\ completes[c].pc = "get"
  /\ CallAt(c, IF v # None /\ Version(f, v) /\ objects[f][v].good THEN [pc |-> "tag", file |-> f, version |-> v]
               ELSE NoCall)
  /\ UNCHANGED <<storage, entry, objects, latest, draft, asking, jobs, output>>

Tagged_latest(c) == IF latest[completes[c].file] = None THEN completes[c].version ELSE latest[completes[c].file] \* mutation
Tagged(c) == completes[c].version
CompleteTag(c) ==
  LET f == completes[c].file IN
  /\ completes[c].pc = "tag"
  /\ IF Version(f, Tagged(c))
     THEN /\ objects' = IF storage = "s3" THEN [objects EXCEPT ![f][Tagged(c)].tag = "ready"] ELSE objects
          /\ CallAt(c, [completes[c] EXCEPT !.pc = "update"])
     ELSE CallAt(c, NoCall) /\ UNCHANGED objects
  /\ UNCHANGED <<storage, entry, latest, draft, asking, jobs, output>>

CompleteUpdate(c) ==
  LET f == completes[c].file IN
  /\ completes[c].pc = "update"
  /\ entry' = IF Ready(f) THEN entry ELSE [entry EXCEPT ![f].version = completes[c].version]
  /\ CallAt(c, NoCall)
  /\ UNCHANGED <<storage, objects, latest, draft, asking, jobs, output>>

CompleteFails(c) ==
  /\ completes[c] # NoCall
  /\ CallAt(c, NoCall)
  /\ UNCHANGED <<storage, entry, objects, latest, draft, asking, jobs, output>>

-----------------------------------------------------------------------------
(* Drafts and jobs.                                                        *)

\* A save names files by id; every one must be ready.
Allowed_row(f) == entry[f] # None \* mutation: the upload need not be complete
Allowed(f) == Ready(f)
SaveFiles(files) ==
  /\ draft.version < MaxDraft
  /\ \A f \in files : Allowed(f)
  /\ draft' = [version |-> draft.version + 1, files |-> files]
  /\ UNCHANGED <<storage, entry, objects, latest, completes, asking, jobs, output>>

\* A submission takes the draft as it is; its files are located when it is claimed.
NewJob(job) == Cardinality(jobs) < MaxJobs /\ jobs' = jobs \cup {job}
SubmitJob ==
  /\ NewJob([version |-> draft.version, files |-> draft.files, generates |-> FALSE, found |-> None])
  /\ UNCHANGED <<storage, entry, objects, latest, completes, draft, asking, output>>

\* A generation reads the draft, builds its cases from it, and inserts them only when the draft
\* still has that version.
AskGeneration ==
  /\ asking = None
  /\ asking' = draft
  /\ UNCHANGED <<storage, entry, objects, latest, completes, draft, jobs, output>>
Pinned_any == TRUE \* mutation: the version is not compared
Pinned == asking.version = draft.version
CreateGenerationJob ==
  /\ asking # None
  /\ asking' = None
  /\ IF Pinned THEN NewJob([version |-> draft.version, files |-> asking.files, generates |-> TRUE, found |-> None]) ELSE UNCHANGED jobs
  /\ UNCHANGED <<storage, entry, objects, latest, completes, draft, output>>

\* ResolveTestFiles: ids become locations; a file that is not ready is an error (a JE).
Resolve(job) ==
  /\ job \in jobs /\ job.found = None
  /\ \A f \in job.files : Ready(f)
  /\ jobs' = (jobs \ {job}) \cup {[job EXCEPT !.found = [f \in job.files |-> entry[f].version]]}
  /\ UNCHANGED <<storage, entry, objects, latest, completes, draft, asking, output>>

\* A generation saves its output under a fresh id; the result names the version, and the row is
\* inserted with it when the result is accepted.  An execution whose result is lost leaves a
\* pending object without a row.
SaveOutput(f) ==
  /\ f \in Outputs /\ output = None /\ objects[f] = <<>>
  /\ \E job \in jobs : job.generates /\ job.found # None
  /\ Put(f, TRUE)
  /\ output' = f
  /\ UNCHANGED <<storage, entry, completes, draft, asking, jobs>>
FinishGeneration ==
  /\ output # None
  /\ \E accepted \in BOOLEAN :
       entry' = IF accepted THEN [entry EXCEPT ![output] = [version |-> None, upload |-> Len(objects[output])]] ELSE entry
  /\ output' = None
  /\ UNCHANGED <<storage, objects, latest, completes, draft, asking, jobs>>

FilesNext ==
  \/ \E f \in Files : \/ BeginUpload(f) \/ Upload(f) \/ Hide(f) \/ Reclaim(f) \/ SaveOutput(f)
                      \/ \E c \in Completers : CompleteRow(c, f)
  \/ \E c \in Completers : CompleteGet(c) \/ CompleteTag(c) \/ CompleteUpdate(c) \/ CompleteFails(c)
  \/ \E files \in SUBSET Files : SaveFiles(files)
  \/ \E job \in jobs : Resolve(job)
  \/ SubmitJob \/ AskGeneration \/ CreateGenerationJob \/ FinishGeneration

FilesSpec == FilesInit /\ [][FilesNext]_fileVars

-----------------------------------------------------------------------------
FilesTypeOK ==
  /\ storage \in Storages
  /\ \A f \in Files : /\ latest[f] = None \/ latest[f] \in DOMAIN objects[f]
                      /\ \A v \in DOMAIN objects[f] : objects[f][v].tag \in {"pending", "ready", "gone"}
                      /\ entry[f] # None => {entry[f].version, entry[f].upload} \subseteq DOMAIN objects[f] \cup {None}
  /\ draft.files \subseteq Files /\ draft.version \in 1..MaxDraft
  /\ \A c \in Completers : completes[c].pc \in {"idle", "get", "tag", "update"}
  /\ output \in Outputs \cup {None}

\* A ready file keeps the verified bytes its row points at: no repeated upload, second completion
\* or lifecycle removal takes them away.
BytesStay == \A f \in Files : Ready(f) =>
  LET v == entry[f].version IN
  Version(f, v) /\ objects[f][v].good /\ (objects[f][v].tag = "ready" \/ storage = "local")

\* What drafts and jobs name can be judged: every file is ready, a located one is readable where
\* the job says, and a generation's cases are those of the draft's version it is recorded under.
JobsAreJudgeable ==
  /\ \A f \in draft.files : Ready(f)
  /\ \A job \in jobs : /\ \A f \in job.files : Ready(f)
                       /\ job.found # None => \A f \in job.files : Version(f, job.found[f]) /\ objects[f][job.found[f]].good
                       /\ job.version = draft.version => job.files = draft.files

FilesStayUsable == BytesStay /\ JobsAreJudgeable

=============================================================================
