--------------------------- MODULE ArchivalProofs ---------------------------
(***************************************************************************)
(* Proofs about the archival of data files, for any number of calls, any   *)
(* limits, and with any failures of the uploads and of the JSON file.      *)
(***************************************************************************)
EXTENDS Archival, TLAPS

Items == Calls \cup {None}

Types ==
    /\ testsRepeat \in [Names -> Int]
    /\ call \in [Calls -> [at : CallStates, number : Int]]
    /\ sizeMb \in Nat /\ numFiles \in Nat
    /\ uploadQueue \in Seq(Items) /\ jsonQueue \in Seq(Items)
    /\ json \in Seq(Names \X Int)
    /\ uploader \in [at : {"get", "upload", "uploaded", "failed", "last", "exited"}, item : Items]
    /\ writer \in [at : {"get", "write", "exited", "dead"}, item : Items]
    /\ main \in {"running", "join_upload", "join_json", "exited", "timed_out"}
    /\ hist \in [tried : SUBSET Calls, inTime : SUBSET Calls]

\* Only accepted calls are in the hands of the workers, so their paths are fixed.
Accepted(c) == c \in Calls /\ call[c].at = "accepted"

HeldAreAccepted ==
    /\ \A i \in 1 .. Len(uploadQueue) : uploadQueue[i] # None => Accepted(uploadQueue[i])
    /\ \A i \in 1 .. Len(jsonQueue) : jsonQueue[i] # None => Accepted(jsonQueue[i])
    /\ uploader.at \in {"upload", "uploaded", "failed"} => Accepted(uploader.item)
    /\ writer.at = "write" => Accepted(writer.item)

\* What goes to the writer is in the bucket.
SentIsUploaded ==
    /\ \A i \in 1 .. Len(jsonQueue) : jsonQueue[i] # None => Path(jsonQueue[i]) \in s3
    /\ uploader.at = "uploaded" => Path(uploader.item) \in s3
    /\ writer.at = "write" => Path(writer.item) \in s3
    /\ \A i \in 1 .. Len(json) : json[i] \in s3

\* An archive accepted before exit() is ahead of the sentinel until it is tried.
AheadOfSentinel(c) ==
    \/ c \in hist.tried
    \/ uploader.at = "upload" /\ uploader.item = c
    \/ /\ uploader.at \notin {"last", "exited"}
       /\ \E i \in 1 .. Len(uploadQueue) :
            uploadQueue[i] = c /\ \A j \in 1 .. i - 1 : uploadQueue[j] # None

UploadSentinel ==
    /\ main = "running" =>
        /\ \A i \in 1 .. Len(uploadQueue) : uploadQueue[i] # None
        /\ uploader.at \notin {"last", "exited"}
    /\ \A c \in hist.inTime : AheadOfSentinel(c)
    /\ main \in {"join_json", "exited"} => uploader.at = "exited"

\* The sentinel of the other queue follows the last upload.
JsonSentinel ==
    /\ \A i \in 1 .. Len(jsonQueue) : jsonQueue[i] = None =>
        i = Len(jsonQueue) /\ uploader.at = "exited"
    /\ writer.at = "exited" => jsonQueue = <<>> /\ uploader.at = "exited"

\* Each file of the bucket is listed, or on its way to the list.
OnTheWay(p) ==
    \/ \E i \in 1 .. Len(json) : json[i] = p
    \/ \E i \in 1 .. Len(jsonQueue) : jsonQueue[i] # None /\ Path(jsonQueue[i]) = p
    \/ writer.at = "write" /\ Path(writer.item) = p
    \/ uploader.at = "uploaded" /\ Path(uploader.item) = p

AllOnTheWay == writer.at # "dead" => \A p \in s3 : OnTheWay(p)

IInv ==
    /\ Types /\ LimitsKept /\ HeldAreAccepted /\ SentIsUploaded /\ UploadSentinel
    /\ JsonSentinel /\ AllOnTheWay

-----------------------------------------------------------------------------
(* The sentinel is no call.                                                *)
LEMMA NoneIsNoCall == None \notin Calls
  BY DEF None, Calls

(* The path of an accepted call does not change.                           *)
LEMMA PathKept ==
    ASSUME Types, NEW c \in Calls, Accepted(c), call'[c] = call[c]
    PROVE  Accepted(c)' /\ Path(c)' = Path(c)
  BY DEF Accepted, Path

(* What the workers hold is not touched when a call goes on that is not    *)
(* accepted yet and the upload queue stays or grows.                       *)
LEMMA CallFrame ==
    ASSUME IInv, UNCHANGED <<workers, main>>,
           \A d \in Calls : Accepted(d) => call'[d] = call[d]
    PROVE  /\ \A i \in 1 .. Len(jsonQueue') : jsonQueue'[i] # None => Accepted(jsonQueue[i])'
           /\ uploader'.at \in {"upload", "uploaded", "failed"} => Accepted(uploader.item)'
           /\ writer'.at = "write" => Accepted(writer.item)'
           /\ SentIsUploaded' /\ JsonSentinel' /\ AllOnTheWay'
<1>1. ASSUME NEW d, Accepted(d) PROVE Accepted(d)' /\ Path(d)' = Path(d)
  <2>1. d \in Calls BY <1>1 DEF Accepted
  <2> QED BY <1>1, <2>1, PathKept DEF IInv
<1>2. /\ UNCHANGED <<s3, json, uploader, writer, jsonQueue>>
  BY DEF workers
<1>3. /\ \A i \in 1 .. Len(jsonQueue) : jsonQueue[i] # None => Accepted(jsonQueue[i])
      /\ uploader.at \in {"upload", "uploaded", "failed"} => Accepted(uploader.item)
      /\ writer.at = "write" => Accepted(writer.item)
  BY DEF IInv, HeldAreAccepted
<1>4. /\ \A i \in 1 .. Len(jsonQueue) : jsonQueue[i] # None =>
            Accepted(jsonQueue[i])' /\ Path(jsonQueue[i])' = Path(jsonQueue[i])
      /\ uploader.at \in {"upload", "uploaded", "failed"} =>
            Accepted(uploader.item)' /\ Path(uploader.item)' = Path(uploader.item)
      /\ writer.at = "write" => Accepted(writer.item)' /\ Path(writer.item)' = Path(writer.item)
  BY <1>1, <1>2, <1>3
<1>5. SentIsUploaded' BY <1>2, <1>4 DEF IInv, SentIsUploaded
<1>6. JsonSentinel' BY <1>2 DEF IInv, JsonSentinel
<1>7. AllOnTheWay' BY <1>2, <1>4 DEF IInv, AllOnTheWay, OnTheWay
<1> QED BY <1>2, <1>4, <1>5, <1>6, <1>7

(* The upload queue and its sentinel depend on nothing else.               *)
LEMMA SentinelFrame ==
    ASSUME IInv, UNCHANGED <<uploadQueue, uploader, main, hist>> PROVE UploadSentinel'
<1>1. ASSUME NEW c \in hist.inTime PROVE AheadOfSentinel(c)'
  <2>1. AheadOfSentinel(c) BY <1>1 DEF IInv, UploadSentinel
  <2> QED BY <2>1 DEF AheadOfSentinel
<1> QED BY <1>1 DEF IInv, UploadSentinel

(* Before the upload is queued, a call has no effect on the workers.       *)
LEMMA NamePreserves ==
    ASSUME IInv, NEW c \in Calls, CountRepeat(c) \/ NameFile(c) PROVE IInv'
<1>1. /\ UNCHANGED <<sizeMb, numFiles, workers, uploadQueue, main, hist>>
      /\ call[c].at # "accepted" /\ call'[c].at # "accepted"
      /\ \A d \in Calls \ {c} : call'[d] = call[d]
  BY DEF CountRepeat, NameFile, IInv, Types
<1>2. testsRepeat' \in [Names -> Int] /\ call' \in [Calls -> [at : CallStates, number : Int]]
  <2>1. Name(c) \in Names BY DEF Name, Calls
  <2>2. CASE CountRepeat(c)
    <3>1. testsRepeat' \in [Names -> Int] BY <2>1, <2>2 DEF CountRepeat, IInv, Types
    <3>2. call' \in [Calls -> [at : CallStates, number : Int]]
      BY <2>2 DEF CountRepeat, IInv, Types, CallStates
    <3> QED BY <3>1, <3>2
  <2>3. CASE NameFile(c) BY <2>1, <2>3 DEF NameFile, IInv, Types, CallStates
  <2> QED BY <2>2, <2>3
<1>3. Types' BY <1>1, <1>2 DEF IInv, Types, workers
<1>4. \A d \in Calls : Accepted(d) => call'[d] = call[d] BY <1>1 DEF Accepted
<1>5. SentIsUploaded' /\ JsonSentinel' /\ AllOnTheWay' BY <1>1, <1>4, CallFrame
<1>6. HeldAreAccepted'
  <2>1. \A i \in 1 .. Len(uploadQueue') : uploadQueue'[i] # None => Accepted(uploadQueue[i])'
    BY <1>1, <1>4 DEF IInv, HeldAreAccepted, Accepted
  <2> QED BY <1>1, <1>4, <2>1, CallFrame DEF HeldAreAccepted, workers
<1>7. LimitsKept' BY <1>1 DEF IInv, LimitsKept
<1>8. UploadSentinel' BY <1>1, SentinelFrame DEF workers
<1> QED BY <1>3, <1>5, <1>6, <1>7, <1>8 DEF IInv

(* An archive stays ahead of the sentinel when an item is appended.        *)
LEMMA AheadKept ==
    ASSUME Types, NEW c, AheadOfSentinel(c), NEW e \in Items, uploadQueue' = Append(uploadQueue, e),
           uploader' = uploader, hist'.tried = hist.tried
    PROVE  AheadOfSentinel(c)'
<1>1. CASE c \in hist.tried \/ (uploader.at = "upload" /\ uploader.item = c)
  BY <1>1 DEF AheadOfSentinel
<1>2. CASE ~(c \in hist.tried \/ (uploader.at = "upload" /\ uploader.item = c))
  <2>1. uploader.at \notin {"last", "exited"} BY <1>2 DEF AheadOfSentinel
  <2>2. PICK i \in 1 .. Len(uploadQueue) :
            uploadQueue[i] = c /\ \A j \in 1 .. i - 1 : uploadQueue[j] # None
    BY <1>2 DEF AheadOfSentinel
  <2>3. /\ Len(uploadQueue) \in Nat /\ Len(uploadQueue') = Len(uploadQueue) + 1
        /\ \A j \in 1 .. Len(uploadQueue) : uploadQueue'[j] = uploadQueue[j]
    BY DEF Types
  <2>4. i \in 1 .. Len(uploadQueue') /\ uploadQueue'[i] = c BY <2>2, <2>3
  <2>5. \A j \in 1 .. i - 1 : j \in 1 .. Len(uploadQueue) BY <2>2, <2>3
  <2>6. \A j \in 1 .. i - 1 : uploadQueue'[j] # None BY <2>2, <2>3, <2>5
  <2> QED BY <2>1, <2>4, <2>6 DEF AheadOfSentinel
<1> QED BY <1>1, <1>2

(* archive_files_to_s3() accepts a call below the limits, and appends it.  *)
LEMMA ArchivePreserves ==
    ASSUME IInv, NEW c \in Calls, ArchiveFilesToS3(c) PROVE IInv'
<1>1. /\ UNCHANGED <<testsRepeat, workers, main>>
      /\ call[c].at = "named" /\ (Accept(c) \/ Reject(c))
  BY DEF ArchiveFilesToS3
<1>2. PICK a \in {"accepted", "rejected"} : call' = [call EXCEPT ![c].at = a]
  BY <1>1 DEF Accept, Reject
<1>3. call' \in [Calls -> [at : CallStates, number : Int]] BY <1>2 DEF IInv, Types, CallStates
<1>4. \A d \in Calls : Accepted(d) => call'[d] = call[d]
  <2>1. \A d \in Calls \ {c} : call'[d] = call[d] BY <1>2 DEF IInv, Types
  <2> QED BY <1>1, <2>1 DEF Accepted
<1>5. SentIsUploaded' /\ JsonSentinel' /\ AllOnTheWay' BY <1>1, <1>4, CallFrame
<1>6. CASE Reject(c)
  <2>1. UNCHANGED <<numFiles, sizeMb, uploadQueue, hist>> BY <1>6 DEF Reject
  <2>2. Types' BY <1>1, <1>3, <2>1 DEF IInv, Types, workers
  <2>3. HeldAreAccepted'
    <3>1. \A i \in 1 .. Len(uploadQueue') : uploadQueue'[i] # None => Accepted(uploadQueue[i])'
      BY <1>4, <2>1 DEF IInv, HeldAreAccepted, Accepted
    <3> QED BY <1>1, <1>4, <2>1, <3>1, CallFrame DEF HeldAreAccepted, workers
  <2>4. LimitsKept' BY <2>1 DEF IInv, LimitsKept
  <2>5. UploadSentinel' BY <1>1, <2>1, SentinelFrame DEF workers
  <2> QED BY <1>5, <2>2, <2>3, <2>4, <2>5 DEF IInv
<1>7. CASE Accept(c)
  <2>1. /\ ~LimitReached /\ numFiles' = numFiles + 1 /\ uploadQueue' = Append(uploadQueue, c)
        /\ call'[c].at = "accepted"
        /\ hist' = [hist EXCEPT !.inTime = IF main = "running" THEN @ \cup {c} ELSE @]
    BY <1>7 DEF Accept, IInv, Types
  <2>2. PICK size \in 1 .. MaxSizeMb : sizeMb' = sizeMb + size BY <1>7 DEF Accept
  <2>3. hist' \in [tried : SUBSET Calls, inTime : SUBSET Calls] /\ hist'.tried = hist.tried
        /\ hist'.inTime = IF main = "running" THEN hist.inTime \cup {c} ELSE hist.inTime
    BY <2>1 DEF IInv, Types
  <2>4. /\ uploadQueue \in Seq(Items) /\ c \in Items /\ c # None
        /\ uploadQueue' \in Seq(Items) /\ Len(uploadQueue') = Len(uploadQueue) + 1
        /\ \A i \in 1 .. Len(uploadQueue) : uploadQueue'[i] = uploadQueue[i]
        /\ uploadQueue'[Len(uploadQueue) + 1] = c
    BY <2>1, NoneIsNoCall DEF IInv, Types, Items
  <2>5. sizeMb \in Nat /\ numFiles \in Nat /\ MaxSizeMb \in Nat BY ArchivalAssumption DEF IInv, Types
  <2>6. Types'
    <3>1. sizeMb' \in Nat /\ numFiles' \in Nat BY <2>1, <2>2, <2>5
    <3> QED BY <1>1, <1>3, <2>3, <2>4, <3>1 DEF IInv, Types, workers
  <2>7. LimitsKept'
    BY <2>1, <2>2, <2>5, ArchivalAssumption DEF IInv, LimitsKept, LimitReached
  <2>8. HeldAreAccepted'
    <3>1. \A i \in 1 .. Len(uploadQueue') : uploadQueue'[i] # None => Accepted(uploadQueue[i])'
      BY <1>4, <2>1, <2>4 DEF IInv, HeldAreAccepted, Accepted
    <3> QED BY <1>1, <1>4, <3>1, CallFrame DEF HeldAreAccepted, workers
  <2>9. UploadSentinel'
    <3>1. uploader' = uploader /\ main' = main BY <1>1 DEF workers
    <3>2. main = "running" => \A i \in 1 .. Len(uploadQueue') : uploadQueue'[i] # None
      BY <2>4 DEF IInv, UploadSentinel
    <3>3. ASSUME NEW d \in hist.inTime PROVE AheadOfSentinel(d)'
      <4>1. AheadOfSentinel(d) BY <3>3 DEF IInv, UploadSentinel
      <4> QED BY <2>1, <2>3, <2>4, <3>1, <4>1, AheadKept DEF IInv
    <3>4. ASSUME main = "running" PROVE AheadOfSentinel(c)'
      BY <2>4, <3>1, <3>2, <3>4 DEF AheadOfSentinel, IInv, UploadSentinel
    <3> QED BY <2>3, <3>1, <3>2, <3>3, <3>4 DEF IInv, UploadSentinel
  <2> QED BY <1>5, <2>6, <2>7, <2>8, <2>9 DEF IInv
<1> QED BY <1>1, <1>6, <1>7

(* The uploader takes the next item: an archive ahead of the sentinel stays *)
(* ahead of it.                                                             *)
LEMMA GetPreserves == ASSUME IInv, UploaderGets PROVE IInv'
<1>1. /\ uploader.at = "get" /\ uploadQueue # <<>> /\ uploadQueue' = Tail(uploadQueue)
      /\ uploader' = [at |-> IF Head(uploadQueue) = None THEN "last" ELSE "upload",
                      item |-> Head(uploadQueue)]
      /\ UNCHANGED <<callVars, s3, json, writer, jsonQueue, main, hist>>
  BY DEF UploaderGets
<1>2. uploadQueue \in Seq(Items) BY DEF IInv, Types
<1>3. /\ Len(uploadQueue) \in Nat \ {0} /\ Head(uploadQueue) = uploadQueue[1]
      /\ uploadQueue[1] \in Items /\ uploadQueue' \in Seq(Items)
      /\ Len(uploadQueue') = Len(uploadQueue) - 1
      /\ \A i \in 1 .. Len(uploadQueue') : uploadQueue'[i] = uploadQueue[i + 1]
  BY <1>1, <1>2
<1>4. uploader'.at = (IF uploadQueue[1] = None THEN "last" ELSE "upload")
      /\ uploader'.item = uploadQueue[1]
  BY <1>1, <1>3
<1>5. Types' BY <1>1, <1>3 DEF IInv, Types, callVars
<1>6. LimitsKept' BY <1>1 DEF IInv, LimitsKept, callVars
<1>7. HeldAreAccepted'
  <2>1. \A i \in 1 .. Len(uploadQueue') : uploadQueue'[i] # None => Accepted(uploadQueue[i])'
    <3> SUFFICES ASSUME NEW i \in 1 .. Len(uploadQueue'), uploadQueue'[i] # None
                 PROVE  Accepted(uploadQueue[i])'
      OBVIOUS
    <3>1. i + 1 \in 1 .. Len(uploadQueue) /\ uploadQueue'[i] = uploadQueue[i + 1] BY <1>3
    <3> QED BY <1>1, <3>1 DEF IInv, HeldAreAccepted, Accepted, callVars
  <2>2. uploader'.at = "upload" => Accepted(uploader.item)'
    BY <1>1, <1>3, <1>4 DEF IInv, HeldAreAccepted, Accepted, callVars
  <2> QED BY <1>1, <1>4, <2>1, <2>2 DEF IInv, HeldAreAccepted, Accepted, callVars
<1>8. SentIsUploaded' BY <1>1, <1>4 DEF IInv, SentIsUploaded, Path, callVars
<1>9. UploadSentinel'
  <2>1. main = "running" => \A i \in 1 .. Len(uploadQueue') : uploadQueue'[i] # None
    <3> SUFFICES ASSUME main = "running", NEW i \in 1 .. Len(uploadQueue')
                 PROVE  uploadQueue'[i] # None
      OBVIOUS
    <3>1. i + 1 \in 1 .. Len(uploadQueue) BY <1>3
    <3> QED BY <1>3, <3>1 DEF IInv, UploadSentinel
  <2>2. main = "running" => uploader'.at = "upload" BY <1>3, <1>4 DEF IInv, UploadSentinel
  <2>3. ASSUME NEW c \in hist.inTime PROVE AheadOfSentinel(c)'
    <3>1. c # None BY NoneIsNoCall DEF IInv, Types
    <3>2. CASE c \in hist.tried BY <1>1, <3>2 DEF AheadOfSentinel
    <3>3. CASE c \notin hist.tried
      <4>1. PICK i \in 1 .. Len(uploadQueue) :
                uploadQueue[i] = c /\ \A j \in 1 .. i - 1 : uploadQueue[j] # None
        BY <1>1, <3>3 DEF IInv, UploadSentinel, AheadOfSentinel
      <4>2. CASE i = 1 BY <1>4, <3>1, <4>1, <4>2 DEF AheadOfSentinel
      <4>3. CASE i # 1
        <5>1. uploader'.at = "upload" BY <1>3, <1>4, <4>1, <4>3
        <5>2. i - 1 \in 1 .. Len(uploadQueue') /\ uploadQueue'[i - 1] = c BY <1>3, <4>1, <4>3
        <5>3. \A j \in 1 .. (i - 1) - 1 : uploadQueue'[j] # None
          <6> SUFFICES ASSUME NEW j \in 1 .. (i - 1) - 1 PROVE uploadQueue'[j] # None OBVIOUS
          <6>1. j + 1 \in 1 .. i - 1 /\ j \in 1 .. Len(uploadQueue') BY <1>3
          <6> QED BY <1>3, <4>1, <6>1
        <5> QED BY <5>1, <5>2, <5>3 DEF AheadOfSentinel
      <4> QED BY <4>2, <4>3
    <3> QED BY <3>2, <3>3
  <2> QED BY <1>1, <2>1, <2>2, <2>3 DEF IInv, UploadSentinel
<1>10. JsonSentinel' BY <1>1 DEF IInv, JsonSentinel
<1>11. AllOnTheWay' BY <1>1 DEF IInv, AllOnTheWay, OnTheWay, Path, callVars
<1> QED BY <1>5, <1>6, <1>7, <1>8, <1>9, <1>10, <1>11 DEF IInv

(* The upload itself.                                                      *)
LEMMA UploadPreserves == ASSUME IInv, Upload PROVE IInv'
<1>1. /\ uploader.at = "upload" /\ UNCHANGED <<callVars, json, writer, uploadQueue, jsonQueue, main>>
      /\ hist' = [hist EXCEPT !.tried = @ \cup {uploader.item}]
  BY DEF Upload
<1>2. /\ uploader'.item = uploader.item /\ uploader'.at \in {"uploaded", "failed"}
      /\ uploader' \in [at : {"uploaded", "failed"}, item : Items]
      /\ s3' = IF uploader'.at = "uploaded" THEN s3 \cup {Path(uploader.item)} ELSE s3
  BY DEF Upload, IInv, Types
<1>3. uploader.item \in Calls /\ Accepted(uploader.item) BY <1>1 DEF IInv, HeldAreAccepted, Accepted
<1>4. /\ hist'.tried = hist.tried \cup {uploader.item} /\ hist'.inTime = hist.inTime
      /\ hist' \in [tried : SUBSET Calls, inTime : SUBSET Calls]
  BY <1>1, <1>3 DEF IInv, Types
<1>5. Types' BY <1>1, <1>2, <1>4 DEF IInv, Types, callVars
<1>6. LimitsKept' BY <1>1 DEF IInv, LimitsKept, callVars
<1>7. HeldAreAccepted' BY <1>1, <1>2, <1>3 DEF IInv, HeldAreAccepted, Accepted, callVars
<1>8. SentIsUploaded' BY <1>1, <1>2 DEF IInv, SentIsUploaded, Path, callVars
<1>9. UploadSentinel' BY <1>1, <1>2, <1>4 DEF IInv, UploadSentinel, AheadOfSentinel
<1>10. JsonSentinel' BY <1>1, <1>2 DEF IInv, JsonSentinel
<1>11. AllOnTheWay'
  <2>1. \A p \in s3 : OnTheWay(p) => OnTheWay(p)' BY <1>1 DEF OnTheWay, Path, callVars
  <2>2. uploader'.at = "uploaded" => OnTheWay(Path(uploader.item))'
    BY <1>1, <1>2 DEF OnTheWay, Path, callVars
  <2>3. Path(uploader.item)' = Path(uploader.item) BY <1>1, <1>2 DEF Path, callVars
  <2> QED BY <1>1, <1>2, <2>1, <2>2, <2>3 DEF IInv, AllOnTheWay
<1> QED BY <1>5, <1>6, <1>7, <1>8, <1>9, <1>10, <1>11 DEF IInv

(* The uploader hands on a complete upload, or the sentinel after its last *)
(* one; an upload that failed is dropped.                                  *)
LEMMA DispatchPreserves == ASSUME IInv, Dispatch \/ UploaderExits PROVE IInv'
<1>1. UNCHANGED <<callVars, s3, json, writer, uploadQueue, main, hist>>
  BY DEF Dispatch, UploaderExits
<1>2. jsonQueue \in Seq(Items) /\ Len(jsonQueue) \in Nat BY DEF IInv, Types
<1>3. PICK q \in {"get", "exited"} : uploader' = [at |-> q, item |-> None]
  BY DEF Dispatch, UploaderExits
<1>4. uploader'.at \in {"get", "exited"} /\ uploader' \in [at : {"get", "exited"}, item : Items]
  BY <1>3 DEF Items
<1>5. uploader.at \in {"uploaded", "failed", "last"}
      /\ (uploader'.at = "exited" <=> uploader.at = "last")
  BY DEF Dispatch, UploaderExits
<1>6. \A i \in 1 .. Len(jsonQueue) : jsonQueue[i] # None BY <1>5 DEF IInv, JsonSentinel
<1>7. writer.at # "exited" BY <1>5 DEF IInv, JsonSentinel
<1>8. LimitsKept' BY <1>1 DEF IInv, LimitsKept, callVars
<1>9. UploadSentinel' BY <1>1, <1>4, <1>5 DEF IInv, UploadSentinel, AheadOfSentinel
<1>10. CASE jsonQueue' = jsonQueue /\ uploader.at = "failed"
  <2>1. Types' BY <1>1, <1>4, <1>10 DEF IInv, Types, callVars
  <2>2. HeldAreAccepted' /\ SentIsUploaded'
    BY <1>1, <1>4, <1>10 DEF IInv, HeldAreAccepted, SentIsUploaded, Accepted, Path, callVars
  <2>3. JsonSentinel' BY <1>1, <1>6, <1>7, <1>10 DEF JsonSentinel
  <2>4. AllOnTheWay' BY <1>1, <1>10 DEF IInv, AllOnTheWay, OnTheWay, Path, callVars
  <2> QED BY <1>8, <1>9, <2>1, <2>2, <2>3, <2>4 DEF IInv
<1>11. ASSUME NEW e \in Items, jsonQueue' = Append(jsonQueue, e),
              \/ uploader.at = "uploaded" /\ e = uploader.item
              \/ uploader.at = "last" /\ e = None
       PROVE  IInv'
  <2>1. /\ jsonQueue' \in Seq(Items) /\ Len(jsonQueue') = Len(jsonQueue) + 1
        /\ \A i \in 1 .. Len(jsonQueue) : jsonQueue'[i] = jsonQueue[i]
        /\ jsonQueue'[Len(jsonQueue) + 1] = e
    BY <1>2, <1>11
  <2>2. e # None => uploader.at = "uploaded" /\ Accepted(e) /\ Path(e) \in s3
    BY <1>11 DEF IInv, HeldAreAccepted, SentIsUploaded
  <2>3. e = None => uploader.at = "last"
    BY <1>11, NoneIsNoCall DEF IInv, HeldAreAccepted, Accepted
  <2>4. Types' BY <1>1, <1>4, <2>1 DEF IInv, Types, callVars
  <2>5. HeldAreAccepted'
    BY <1>1, <1>2, <1>4, <2>1, <2>2 DEF IInv, HeldAreAccepted, Accepted, callVars
  <2>6. SentIsUploaded'
    <3>1. ASSUME NEW i \in 1 .. Len(jsonQueue'), jsonQueue'[i] # None
          PROVE  Path(jsonQueue[i])' \in s3
      <4>1. CASE i \in 1 .. Len(jsonQueue)
        BY <1>1, <2>1, <3>1, <4>1 DEF IInv, SentIsUploaded, Path, callVars
      <4>2. CASE i = Len(jsonQueue) + 1
        BY <1>1, <2>1, <2>2, <3>1, <4>2 DEF Path, callVars
      <4> QED BY <1>2, <2>1, <4>1, <4>2
    <3> QED BY <1>1, <1>4, <3>1 DEF IInv, SentIsUploaded, Path, callVars
  <2>7. JsonSentinel' BY <1>1, <1>2, <1>5, <1>6, <1>7, <2>1, <2>3 DEF JsonSentinel
  <2>8. AllOnTheWay'
    <3>1. ASSUME NEW p \in s3, OnTheWay(p) PROVE OnTheWay(p)'
      <4>1. CASE uploader.at = "uploaded" /\ Path(uploader.item) = p
        <5>1. e = uploader.item /\ e # None
          BY <1>11, <4>1, NoneIsNoCall DEF IInv, HeldAreAccepted, Accepted
        <5>2. Len(jsonQueue) + 1 \in 1 .. Len(jsonQueue') BY <1>2, <2>1
        <5> QED BY <1>1, <2>1, <4>1, <5>1, <5>2 DEF OnTheWay, Path, callVars
      <4>2. CASE \E i \in 1 .. Len(jsonQueue) : jsonQueue[i] # None /\ Path(jsonQueue[i]) = p
        BY <1>1, <1>2, <2>1, <4>2 DEF OnTheWay, Path, callVars
      <4> QED BY <1>1, <3>1, <4>1, <4>2 DEF OnTheWay, Path, callVars
    <3> QED BY <1>1, <3>1 DEF IInv, AllOnTheWay
  <2> QED BY <1>8, <1>9, <2>4, <2>5, <2>6, <2>7, <2>8 DEF IInv
<1>12. uploader.item \in Items /\ None \in Items BY DEF IInv, Types, Items
<1> QED BY <1>5, <1>10, <1>11, <1>12 DEF Dispatch, UploaderExits

(* The writer takes the next item; after the sentinel its queue is empty.  *)
LEMMA WriterGetPreserves == ASSUME IInv, WriterGets PROVE IInv'
<1>1. /\ writer.at = "get" /\ jsonQueue # <<>> /\ jsonQueue' = Tail(jsonQueue)
      /\ writer' = [at |-> IF Head(jsonQueue) = None THEN "exited" ELSE "write",
                    item |-> Head(jsonQueue)]
      /\ UNCHANGED <<callVars, s3, json, uploader, uploadQueue, main, hist>>
  BY DEF WriterGets
<1>2. jsonQueue \in Seq(Items) BY DEF IInv, Types
<1>3. /\ Len(jsonQueue) \in Nat \ {0} /\ Head(jsonQueue) = jsonQueue[1]
      /\ jsonQueue[1] \in Items /\ jsonQueue' \in Seq(Items)
      /\ Len(jsonQueue') = Len(jsonQueue) - 1
      /\ \A i \in 1 .. Len(jsonQueue') : jsonQueue'[i] = jsonQueue[i + 1]
  BY <1>1, <1>2
<1>4. writer'.at = (IF jsonQueue[1] = None THEN "exited" ELSE "write")
      /\ writer'.item = jsonQueue[1]
  BY <1>1, <1>3
<1>5. Types' BY <1>1, <1>3 DEF IInv, Types, callVars
<1>6. LimitsKept' BY <1>1 DEF IInv, LimitsKept, callVars
<1>7. \A i \in 1 .. Len(jsonQueue') : i + 1 \in 1 .. Len(jsonQueue) BY <1>3
<1>8. HeldAreAccepted'
  BY <1>1, <1>3, <1>4, <1>7 DEF IInv, HeldAreAccepted, Accepted, callVars
<1>9. SentIsUploaded' BY <1>1, <1>3, <1>4, <1>7 DEF IInv, SentIsUploaded, Path, callVars
<1>10. UploadSentinel' BY <1>1, SentinelFrame
<1>11. JsonSentinel'
  <2>1. \A i \in 1 .. Len(jsonQueue') : jsonQueue'[i] = None =>
          i = Len(jsonQueue') /\ uploader.at = "exited"
    BY <1>3, <1>7 DEF IInv, JsonSentinel
  <2>2. writer'.at = "exited" => Len(jsonQueue) = 1 /\ uploader.at = "exited"
    BY <1>3, <1>4 DEF IInv, JsonSentinel
  <2>3. Len(jsonQueue) = 1 => jsonQueue' = <<>> BY <1>3
  <2> QED BY <1>1, <2>1, <2>2, <2>3 DEF JsonSentinel
<1>12. AllOnTheWay'
  <2>1. ASSUME NEW p \in s3, OnTheWay(p) PROVE OnTheWay(p)'
    <3>1. CASE \E i \in 1 .. Len(jsonQueue) : jsonQueue[i] # None /\ Path(jsonQueue[i]) = p
      <4>1. PICK i \in 1 .. Len(jsonQueue) : jsonQueue[i] # None /\ Path(jsonQueue[i]) = p BY <3>1
      <4>2. CASE i = 1 BY <1>1, <1>4, <4>1, <4>2 DEF OnTheWay, Path, callVars
      <4>3. CASE i # 1
        <5>1. i - 1 \in 1 .. Len(jsonQueue') /\ jsonQueue'[i - 1] = jsonQueue[i] BY <1>3, <4>3
        <5> QED BY <1>1, <4>1, <5>1 DEF OnTheWay, Path, callVars
      <4> QED BY <4>2, <4>3
    <3> QED BY <1>1, <2>1, <3>1 DEF OnTheWay, Path, callVars
  <2> QED BY <1>1, <2>1 DEF IInv, AllOnTheWay
<1> QED BY <1>5, <1>6, <1>8, <1>9, <1>10, <1>11, <1>12 DEF IInv

(* The writer lists what it holds, or dies.                                *)
LEMMA WritePreserves == ASSUME IInv, WriteJson PROVE IInv'
<1>1. /\ writer.at = "write" /\ UNCHANGED <<callVars, s3, uploader, uploadQueue, jsonQueue, main, hist>>
  BY DEF WriteJson
<1>2. Accepted(writer.item) /\ Path(writer.item) \in s3 /\ Path(writer.item) \in Names \X Int
  BY <1>1 DEF IInv, HeldAreAccepted, SentIsUploaded, Accepted, Path, Types, Name, Calls
<1>3. json \in Seq(Names \X Int) /\ Len(json) \in Nat BY DEF IInv, Types
<1>4. LimitsKept' BY <1>1 DEF IInv, LimitsKept, callVars
<1>5. UploadSentinel' BY <1>1, SentinelFrame
<1>6. CASE json' = Append(json, Path(writer.item)) /\ writer' = [at |-> "get", item |-> None]
  <2>1. /\ json' \in Seq(Names \X Int) /\ Len(json') = Len(json) + 1
        /\ \A i \in 1 .. Len(json) : json'[i] = json[i]
        /\ json'[Len(json) + 1] = Path(writer.item)
    BY <1>2, <1>3, <1>6
  <2>2. writer'.at = "get" /\ writer' \in [at : {"get"}, item : Items] BY <1>6 DEF Items
  <2>3. Types' BY <1>1, <2>1, <2>2 DEF IInv, Types, callVars
  <2>4. HeldAreAccepted' BY <1>1, <2>2 DEF IInv, HeldAreAccepted, Accepted, callVars
  <2>5. SentIsUploaded'
    <3>1. ASSUME NEW i \in 1 .. Len(json') PROVE json'[i] \in s3
      <4>1. CASE i \in 1 .. Len(json) BY <2>1, <4>1 DEF IInv, SentIsUploaded
      <4>2. CASE i = Len(json) + 1 BY <1>2, <2>1, <4>2
      <4> QED BY <1>3, <2>1, <4>1, <4>2
    <3> QED BY <1>1, <2>2, <3>1 DEF IInv, SentIsUploaded, Path, callVars
  <2>6. JsonSentinel' BY <1>1, <2>2 DEF IInv, JsonSentinel
  <2>7. AllOnTheWay'
    <3>1. ASSUME NEW p \in s3, OnTheWay(p) PROVE OnTheWay(p)'
      <4>1. CASE Path(writer.item) = p
        <5>1. Len(json) + 1 \in 1 .. Len(json') BY <1>3, <2>1
        <5> QED BY <2>1, <4>1, <5>1 DEF OnTheWay
      <4>2. CASE \E i \in 1 .. Len(json) : json[i] = p BY <1>3, <2>1, <4>2 DEF OnTheWay
      <4> QED BY <1>1, <3>1, <4>1, <4>2 DEF OnTheWay, Path, callVars
    <3> QED BY <1>1, <3>1 DEF IInv, AllOnTheWay
  <2> QED BY <1>4, <1>5, <2>3, <2>4, <2>5, <2>6, <2>7 DEF IInv
<1>7. CASE writer' = [at |-> "dead", item |-> None] /\ UNCHANGED json
  <2>1. writer'.at = "dead" /\ writer' \in [at : {"dead"}, item : Items] BY <1>7 DEF Items
  <2>2. Types' BY <1>1, <1>7, <2>1 DEF IInv, Types, callVars
  <2>3. HeldAreAccepted' BY <1>1, <2>1 DEF IInv, HeldAreAccepted, Accepted, callVars
  <2>4. SentIsUploaded' BY <1>1, <1>7, <2>1 DEF IInv, SentIsUploaded, Path, callVars
  <2>5. JsonSentinel' /\ AllOnTheWay' BY <1>1, <2>1 DEF IInv, JsonSentinel, AllOnTheWay
  <2> QED BY <1>4, <1>5, <2>2, <2>3, <2>4, <2>5 DEF IInv
<1> QED BY <1>6, <1>7 DEF WriteJson

(* exit() appends its sentinel behind the archives that were accepted.     *)
LEMMA ExitPreserves == ASSUME IInv, Exit \/ JoinUploader \/ JoinWriter \/ JoinTimesOut PROVE IInv'
<1>1. UNCHANGED <<callVars, workers, hist>> BY DEF Exit, JoinUploader, JoinWriter, JoinTimesOut
<1>2. SentIsUploaded' /\ JsonSentinel' /\ AllOnTheWay' /\ LimitsKept'
  <2>1. SentIsUploaded' BY <1>1 DEF IInv, SentIsUploaded, Path, callVars, workers
  <2>2. JsonSentinel' /\ LimitsKept' BY <1>1 DEF IInv, JsonSentinel, LimitsKept, callVars, workers
  <2>3. AllOnTheWay' BY <1>1 DEF IInv, AllOnTheWay, OnTheWay, Path, callVars, workers
  <2> QED BY <2>1, <2>2, <2>3
<1>3. CASE Exit
  <2>1. main = "running" /\ main' = "join_upload" /\ uploadQueue' = Append(uploadQueue, None)
    BY <1>3 DEF Exit
  <2>2. /\ uploadQueue' \in Seq(Items) /\ Len(uploadQueue) \in Nat
        /\ Len(uploadQueue') = Len(uploadQueue) + 1
        /\ \A i \in 1 .. Len(uploadQueue) : uploadQueue'[i] = uploadQueue[i]
        /\ uploadQueue'[Len(uploadQueue) + 1] = None
    BY <2>1 DEF IInv, Types, Items
  <2>3. Types' BY <1>1, <2>1, <2>2 DEF IInv, Types, callVars, workers
  <2>4. HeldAreAccepted'
    <3>1. \A i \in 1 .. Len(uploadQueue') : uploadQueue'[i] # None => Accepted(uploadQueue[i])'
      BY <1>1, <2>2 DEF IInv, HeldAreAccepted, Accepted, callVars
    <3> QED BY <1>1, <3>1 DEF IInv, HeldAreAccepted, Accepted, callVars, workers
  <2>5. UploadSentinel'
    <3>1. ASSUME NEW c \in hist.inTime PROVE AheadOfSentinel(c)'
      <4>1. AheadOfSentinel(c) BY <3>1 DEF IInv, UploadSentinel
      <4>2. None \in Items /\ uploader' = uploader /\ hist' = hist BY <1>1 DEF Items, workers
      <4> QED BY <2>1, <4>1, <4>2, AheadKept DEF IInv
    <3> QED BY <1>1, <2>1, <3>1 DEF UploadSentinel
  <2> QED BY <1>2, <2>3, <2>4, <2>5 DEF IInv
<1>4. CASE JoinUploader \/ JoinWriter \/ JoinTimesOut
  <2>1. /\ uploadQueue' = uploadQueue /\ main' \in {"join_json", "exited", "timed_out"}
        /\ main' \in {"join_json", "exited"} => uploader.at = "exited"
    BY <1>4 DEF JoinUploader, JoinWriter, JoinTimesOut, IInv, UploadSentinel
  <2>2. Types' BY <1>1, <2>1 DEF IInv, Types, callVars, workers
  <2>3. HeldAreAccepted' BY <1>1, <2>1 DEF IInv, HeldAreAccepted, Accepted, callVars, workers
  <2>4. UploadSentinel' BY <1>1, <2>1 DEF IInv, UploadSentinel, AheadOfSentinel, workers
  <2> QED BY <1>2, <2>2, <2>3, <2>4 DEF IInv
<1> QED BY <1>3, <1>4

(* The invariant holds in every state.                                     *)
THEOREM Invariance == Spec => []IInv
<1>1. Init => IInv
  <2> SUFFICES ASSUME Init PROVE IInv OBVIOUS
  <2>1. /\ uploadQueue = <<>> /\ jsonQueue = <<>> /\ json = <<>> /\ s3 = {}
        /\ Len(uploadQueue) = 0 /\ Len(jsonQueue) = 0 /\ Len(json) = 0
        /\ uploader.at = "get" /\ writer.at = "get" /\ main = "running" /\ hist.inTime = {}
    BY DEF Init
  <2>2. Types BY DEF Init, Types, Items, CallStates
  <2>3. LimitsKept BY ArchivalAssumption DEF Init, LimitsKept
  <2>4. HeldAreAccepted /\ SentIsUploaded /\ JsonSentinel
    BY <2>1 DEF HeldAreAccepted, SentIsUploaded, JsonSentinel
  <2>5. UploadSentinel /\ AllOnTheWay BY <2>1 DEF UploadSentinel, AllOnTheWay
  <2> QED BY <2>2, <2>3, <2>4, <2>5 DEF IInv
<1>2. IInv /\ [Next]_vars => IInv'
  <2>1. IInv /\ UNCHANGED vars => IInv'
    <3> SUFFICES ASSUME IInv, UNCHANGED vars PROVE IInv' OBVIOUS
    <3> USE DEF vars, callVars, workers, IInv
    <3>1. Types' /\ LimitsKept' /\ JsonSentinel' BY DEF Types, LimitsKept, JsonSentinel
    <3>2. HeldAreAccepted' /\ SentIsUploaded' BY DEF HeldAreAccepted, SentIsUploaded, Accepted, Path
    <3>3. UploadSentinel' BY SentinelFrame
    <3>4. AllOnTheWay' BY DEF AllOnTheWay, OnTheWay, Path
    <3> QED BY <3>1, <3>2, <3>3, <3>4
  <2>2. IInv /\ (Uploader \/ Writer) => IInv'
    BY GetPreserves, UploadPreserves, DispatchPreserves, WriterGetPreserves, WritePreserves
       DEF Uploader, Writer
  <2> QED BY <2>1, <2>2, NamePreserves, ArchivePreserves, ExitPreserves DEF Next
<1> QED BY <1>1, <1>2, PTL DEF Spec

(* The limits of the command line hold whatever the job threads do.        *)
THEOREM LimitsKeptHolds == Spec => []LimitsKept
<1>1. IInv => LimitsKept BY DEF IInv
<1> QED BY <1>1, Invariance, PTL

(* The JSON file never lists a file that is not in the bucket: the writer  *)
(* hears of a file only after its upload.                                  *)
THEOREM ListedIsUploadedHolds == Spec => []ListedIsUploaded
<1>1. IInv => ListedIsUploaded
  <2> SUFFICES ASSUME IInv PROVE ListedIsUploaded OBVIOUS
  <2>1. DOMAIN json = 1 .. Len(json) BY DEF IInv, Types
  <2>2. \A i \in 1 .. Len(json) : json[i] \in s3 BY DEF IInv, SentIsUploaded
  <2> QED BY <2>1, <2>2 DEF ListedIsUploaded, Range
<1> QED BY <1>1, Invariance, PTL

(* An orderly exit() leaves nothing behind: each queue delivers its        *)
(* sentinel after everything that was put into it before.                  *)
THEOREM CompleteAfterExitHolds == Spec => []CompleteAfterExit
<1>1. IInv => CompleteAfterExit
  <2> SUFFICES ASSUME IInv, main = "exited"
               PROVE  /\ hist.inTime \subseteq hist.tried
                      /\ writer.at = "exited" => Range(json) = s3
    BY DEF CompleteAfterExit
  <2>1. uploader.at = "exited" BY DEF IInv, UploadSentinel
  <2>2. hist.inTime \subseteq hist.tried BY <2>1 DEF IInv, UploadSentinel, AheadOfSentinel
  <2>3. ASSUME writer.at = "exited" PROVE Range(json) = s3
    <3>1. json \in Seq(Names \X Int) /\ DOMAIN json = 1 .. Len(json) BY DEF IInv, Types
    <3>2. Len(jsonQueue) = 0 BY <2>3 DEF IInv, JsonSentinel
    <3>3. \A p \in s3 : \E i \in 1 .. Len(json) : json[i] = p
      BY <2>1, <2>3, <3>2 DEF IInv, AllOnTheWay, OnTheWay
    <3>4. \A i \in 1 .. Len(json) : json[i] \in s3 BY DEF IInv, SentIsUploaded
    <3> QED BY <3>1, <3>3, <3>4 DEF Range
  <2> QED BY <2>2, <2>3
<1> QED BY <1>1, Invariance, PTL
=============================================================================
