------------------------------ MODULE Archival ------------------------------
(***************************************************************************)
(* The archival of data files: job threads that archive a test or a hook   *)
(* through HookTestArchival (testing/hook_test_archival.py), the two       *)
(* worker threads of Archival (utils/archival.py), one that uploads and    *)
(* one that lists the uploads in a JSON file, and the main thread that     *)
(* stops them.                                                             *)
(*                                                                         *)
(* A call <<n, k>> is the k-th time any job archives under the name n.  Of *)
(* an archive only its S3 path (n and a repeat number) and its size count. *)
(***************************************************************************)
EXTENDS Integers, Sequences, Functions

CONSTANTS
    Names,                   \* names of the tests and hooks that are archived
    CallsPerName,            \* bound: how often each name is archived
    LimitSizeMb, LimitFiles, \* the limits of the command line; 0 is no limit
    MaxSizeMb,               \* bound: the largest archive
    WriterMayFail            \* whether writing the JSON file may raise

ASSUME ArchivalAssumption ==
    /\ CallsPerName \in Nat /\ LimitSizeMb \in Nat /\ LimitFiles \in Nat
    /\ MaxSizeMb \in Nat \ {0} /\ WriterMayFail \in BOOLEAN

Calls == Names \X (1 .. CallsPerName)
Name(c) == c[1]

None == <<>>  \* the sentinel of both queues

VARIABLES
    testsRepeat,          \* HookTestArchival._tests_repeat; -1 when a name has no entry
    call,                 \* where each call is, and the repeat number it has read
    sizeMb, numFiles,     \* Archival.size_mb and num_files
    uploadQueue, jsonQueue,
    s3,                   \* the paths that exist in the bucket
    json,                 \* the paths in the JSON file, in order
    uploader, writer,     \* the workers: where they are and the item they hold
    main,                 \* where the main thread is
    hist                  \* history: calls tried by the uploader, calls accepted in time

callVars == <<testsRepeat, call, sizeMb, numFiles>>
workers == <<s3, json, uploader, writer, jsonQueue>>
vars == <<callVars, workers, uploadQueue, main, hist>>

Path(c) == <<Name(c), call[c].number>>

CallStates == {"ready", "counted", "named", "accepted", "rejected"}

TypeOK ==
    /\ testsRepeat \in [Names -> -1 .. CallsPerName - 1]
    /\ call \in [Calls -> [at : CallStates, number : -1 .. CallsPerName - 1]]
    /\ sizeMb \in Nat /\ numFiles \in Nat
    /\ uploadQueue \in Seq(Calls \cup {None}) /\ jsonQueue \in Seq(Calls \cup {None})
    /\ s3 \subseteq Names \X (0 .. CallsPerName - 1)
    /\ json \in Seq(Names \X (0 .. CallsPerName - 1))
    /\ uploader \in [at : {"get", "upload", "uploaded", "failed", "last", "exited"},
                     item : Calls \cup {None}]
    /\ writer \in [at : {"get", "write", "exited", "dead"}, item : Calls \cup {None}]
    /\ main \in {"running", "join_upload", "join_json", "exited", "timed_out"}
    /\ hist \in [tried : SUBSET Calls, inTime : SUBSET Calls]

Init ==
    /\ testsRepeat = [n \in Names |-> -1]
    /\ call = [c \in Calls |-> [at |-> "ready", number |-> -1]]
    /\ sizeMb = 0 /\ numFiles = 0
    /\ uploadQueue = <<>> /\ jsonQueue = <<>>
    /\ s3 = {} /\ json = <<>>
    /\ uploader = [at |-> "get", item |-> None]
    /\ writer = [at |-> "get", item |-> None]
    /\ main = "running"
    /\ hist = [tried |-> {}, inTime |-> {}]

\* The workers are daemon threads and end with the process.
ProcessRuns == main \notin {"exited", "timed_out"}

-----------------------------------------------------------------------------
(* A job thread: archive() decides that the test is archived and calls       *)
(* _archive_hook_or_test().                                                  *)

\* The repeat number is increased under the lock ...
CountRepeat(c) ==
    /\ ProcessRuns /\ call[c].at = "ready"
    /\ call' = [call EXCEPT ![c].at = "counted"]
    /\ testsRepeat' = [testsRepeat EXCEPT ![Name(c)] = @ + 1]
    /\ UNCHANGED <<sizeMb, numFiles, workers, uploadQueue, main, hist>>

\* ... and read for the file name after the lock was released.
NameFile(c) ==
    /\ ProcessRuns /\ call[c].at = "counted"
    /\ call' = [call EXCEPT ![c] = [at |-> "named", number |-> testsRepeat[Name(c)]]]
    /\ UNCHANGED <<testsRepeat, sizeMb, numFiles, workers, uploadQueue, main, hist>>

LimitReached ==
    \/ LimitSizeMb # 0 /\ sizeMb >= LimitSizeMb
    \/ LimitFiles # 0 /\ numFiles >= LimitFiles

\* Slip: the limits are met one archive too late.
AcceptOneMore(c) ==
    /\ ~(LimitSizeMb # 0 /\ sizeMb > LimitSizeMb) /\ ~(LimitFiles # 0 /\ numFiles > LimitFiles)
    /\ call' = [call EXCEPT ![c].at = "accepted"]
    /\ numFiles' = numFiles + 1
    /\ \E size \in 1 .. MaxSizeMb : sizeMb' = sizeMb + size
    /\ uploadQueue' = Append(uploadQueue, c)
    /\ hist' = [hist EXCEPT !.inTime = IF main = "running" THEN @ \cup {c} ELSE @]

\* _archive_files() has packed the files and queues the upload; the size of the
\* archive is known only then.
Accept(c) ==
    /\ ~LimitReached
    /\ call' = [call EXCEPT ![c].at = "accepted"]
    /\ numFiles' = numFiles + 1
    /\ \E size \in 1 .. MaxSizeMb : sizeMb' = sizeMb + size
    /\ uploadQueue' = Append(uploadQueue, c)
    /\ hist' = [hist EXCEPT !.inTime = IF main = "running" THEN @ \cup {c} ELSE @]

\* A limit is reached, no files are given, or the files cannot be packed.
Reject(c) ==
    /\ call' = [call EXCEPT ![c].at = "rejected"]
    /\ UNCHANGED <<numFiles, sizeMb, uploadQueue, hist>>

\* archive_files_to_s3() holds the lock of Archival throughout.
ArchiveFilesToS3(c) ==
    /\ ProcessRuns /\ call[c].at = "named"
    /\ Accept(c) \/ Reject(c)
    /\ UNCHANGED <<testsRepeat, workers, main>>

-----------------------------------------------------------------------------
(* The worker threads. *)

\* _upload_to_s3_wkr(): the sentinel is the last item the worker takes.
UploaderGets ==
    /\ ProcessRuns /\ uploader.at = "get" /\ uploadQueue # <<>>
    /\ uploader' = [at |-> IF Head(uploadQueue) = None THEN "last" ELSE "upload",
                    item |-> Head(uploadQueue)]
    /\ uploadQueue' = Tail(uploadQueue)
    /\ UNCHANGED <<callVars, s3, json, writer, jsonQueue, main, hist>>

\* upload_file() of the S3 client puts the file under its path or raises.
Upload ==
    /\ ProcessRuns /\ uploader.at = "upload"
    /\ \/ uploader' = [uploader EXCEPT !.at = "uploaded"] /\ s3' = s3 \cup {Path(uploader.item)}
       \/ uploader' = [uploader EXCEPT !.at = "failed"] /\ UNCHANGED s3
    /\ hist' = [hist EXCEPT !.tried = @ \cup {uploader.item}]
    /\ UNCHANGED <<callVars, json, writer, uploadQueue, jsonQueue, main>>

\* Slip: an upload that failed is listed as well.
DispatchAlways ==
    /\ ProcessRuns /\ uploader.at \in {"uploaded", "failed"}
    /\ jsonQueue' = Append(jsonQueue, uploader.item)
    /\ uploader' = [at |-> "get", item |-> None]
    /\ UNCHANGED <<callVars, s3, json, writer, uploadQueue, main, hist>>

\* Slip: the exception of an upload ends the thread.
DispatchUploaded ==
    /\ ProcessRuns /\ uploader.at = "uploaded"
    /\ jsonQueue' = Append(jsonQueue, uploader.item)
    /\ uploader' = [at |-> "get", item |-> None]
    /\ UNCHANGED <<callVars, s3, json, writer, uploadQueue, main, hist>>

\* Only an upload that is complete goes to the other worker.
Dispatch ==
    /\ ProcessRuns /\ uploader.at \in {"uploaded", "failed"}
    /\ jsonQueue' = IF uploader.at = "uploaded" THEN Append(jsonQueue, uploader.item) ELSE jsonQueue
    /\ uploader' = [at |-> "get", item |-> None]
    /\ UNCHANGED <<callVars, s3, json, writer, uploadQueue, main, hist>>

UploaderExits ==
    /\ ProcessRuns /\ uploader.at = "last"
    /\ jsonQueue' = Append(jsonQueue, None)
    /\ uploader' = [at |-> "exited", item |-> None]
    /\ UNCHANGED <<callVars, s3, json, writer, uploadQueue, main, hist>>

\* _update_archive_file_wkr()
WriterGets ==
    /\ ProcessRuns /\ writer.at = "get" /\ jsonQueue # <<>>
    /\ writer' = [at |-> IF Head(jsonQueue) = None THEN "exited" ELSE "write",
                  item |-> Head(jsonQueue)]
    /\ jsonQueue' = Tail(jsonQueue)
    /\ UNCHANGED <<callVars, s3, json, uploader, uploadQueue, main, hist>>

\* The whole list is written again; open() may raise, which ends the thread.
WriteJson ==
    /\ ProcessRuns /\ writer.at = "write"
    /\ \/ json' = Append(json, Path(writer.item)) /\ writer' = [at |-> "get", item |-> None]
       \/ WriterMayFail /\ writer' = [at |-> "dead", item |-> None] /\ UNCHANGED json
    /\ UNCHANGED <<callVars, s3, uploader, uploadQueue, jsonQueue, main, hist>>

Uploader == UploaderGets \/ Upload \/ Dispatch \/ UploaderExits

Writer == WriterGets \/ WriteJson

-----------------------------------------------------------------------------
(* exit(), on the main thread. *)

\* Slip: the sentinel goes to both queues at once.
ExitBoth ==
    /\ main = "running" /\ main' = "join_upload"
    /\ uploadQueue' = Append(uploadQueue, None)
    /\ jsonQueue' = Append(jsonQueue, None)
    /\ UNCHANGED <<callVars, s3, json, uploader, writer, hist>>

Exit ==
    /\ main = "running" /\ main' = "join_upload"
    /\ uploadQueue' = Append(uploadQueue, None)
    /\ UNCHANGED <<callVars, workers, hist>>

\* Both joins end when the thread has ended or after their timeout.
JoinUploader ==
    /\ main = "join_upload" /\ uploader.at = "exited" /\ main' = "join_json"
    /\ UNCHANGED <<callVars, workers, uploadQueue, hist>>

JoinWriter ==
    /\ main = "join_json" /\ writer.at \in {"exited", "dead"} /\ main' = "exited"
    /\ UNCHANGED <<callVars, workers, uploadQueue, hist>>

JoinTimesOut ==
    /\ main \in {"join_upload", "join_json"} /\ main' = "timed_out"
    /\ UNCHANGED <<callVars, workers, uploadQueue, hist>>

Next ==
    \/ \E c \in Calls : CountRepeat(c) \/ NameFile(c) \/ ArchiveFilesToS3(c)
    \/ Uploader \/ Writer
    \/ Exit \/ JoinUploader \/ JoinWriter \/ JoinTimesOut

Spec == Init /\ [][Next]_vars

\* The workers run while the process does.
FairSpec == Spec /\ WF_vars(Uploader) /\ WF_vars(Writer)

-----------------------------------------------------------------------------
\* No more files than the limit are archived, and the size limit is passed by
\* at most the archive that reached it (the docstring of archive_files_to_s3()).
LimitsKept ==
    /\ LimitFiles # 0 => numFiles <= LimitFiles
    /\ LimitSizeMb # 0 => sizeMb < LimitSizeMb + MaxSizeMb

\* The JSON file never lists a file that is not in the bucket.
ListedIsUploaded == Range(json) \subseteq s3

\* When exit() has joined both workers, the uploader has tried every archive
\* accepted before exit() and, unless the writer died, the JSON file lists every
\* file of the bucket: the sentinel follows the work through both queues.
CompleteAfterExit ==
    main = "exited" => /\ hist.inTime \subseteq hist.tried
                       /\ writer.at = "exited" => Range(json) = s3

\* Every archive that was accepted before exit() is tried, or the process ends.
EventuallyTried ==
    \A c \in Calls : c \in hist.inTime ~> (c \in hist.tried \/ ~ProcessRuns)

(* What a comment says, and the code does not do. *)

\* Each archive of a name has its own repeat number, how often the name has been
\* archived before (_archive_hook_or_test()).
OwnRepeatNumber ==
    \A c, d \in Calls :
        c # d /\ Name(c) = Name(d) /\ call[c].number >= 0 => call[c].number # call[d].number

=============================================================================
