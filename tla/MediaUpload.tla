----------------------------- MODULE MediaUpload -----------------------------
(***************************************************************************)
(* MediaController.upload, run for several clients by the worker process.  *)
(*                                                                         *)
(* The file goes to a bucket of S3 or of Google, is made public there if   *)
(* the bucket is Google's, and is then named by a Media document.  Each of *)
(* the three calls may fail, with or without having taken effect, and      *)
(* nothing undoes the ones before it.                                      *)
(*                                                                         *)
(* makePublic is awaited in a listener of the stream: when it rejects,     *)
(* nobody catches it, and the worker process ends.                         *)
(*                                                                         *)
(* An object's key is the millisecond of the upload and the name           *)
(* "file.<extension>", so two uploads may have one key; an object stored   *)
(* again is a new one, not public.                                         *)
(***************************************************************************)
EXTENDS Naturals

CONSTANTS Uploads,    \* the requests, each with a file of its own or none
          Extensions, \* the second halves of their mime types
          MaxTime,    \* bound on the clock
          None        \* undefined

Keys   == [at : 0 .. MaxTime, ext : Extensions]
Object == [file : Uploads, public : BOOLEAN]

ASSUME UploadsAssumption == Uploads \subseteq [id : Nat, ext : Extensions \cup {None}]
ASSUME TimeAssumption == MaxTime \in Nat
ASSUME NoneAssumption == None \notin Keys \cup Object \cup Extensions

VARIABLES
  bucket,  \* worker.fileUpload.default
  now,     \* the clock, in milliseconds
  step,    \* what each upload is waiting for, or how it ended
  key,     \* the key each upload has given to its object
  objects, \* the bucket: whose file a key names, and whether anyone can read it
  media    \* the Media documents, by upload: the key in file.url

uploadVars == <<bucket, now, step, key, objects, media>>

InFlight == {"storing", "publishing", "saving", "replying"}
Over     == {"answered", "failed", "lost"}

UploadInit ==
  /\ bucket \in {"s3", "gcs"}
  /\ now = 0
  /\ step    = [u \in Uploads |-> "new"]
  /\ key     = [u \in Uploads |-> None]
  /\ objects = [k \in Keys |-> None]
  /\ media   = [u \in Uploads |-> None]

Go(u, next) == step' = [step EXCEPT ![u] = next]

-----------------------------------------------------------------------------

(* Mutant of KeyOf: only the time. *)
KeyOfTime(u) == [at |-> now]

(* `${Date.now()}-${payload.name}' *)
KeyOf(u) == [at |-> now, ext |-> u.ext]

(* A request without a file throws at uploaded.mimetype. *)
Upload(u) ==
  /\ step[u] = "new"
  /\ \/ u.ext # None /\ key' = [key EXCEPT ![u] = KeyOf(u)] /\ Go(u, "storing")
     \/ u.ext = None /\ Go(u, "failed") /\ UNCHANGED key
  /\ UNCHANGED <<bucket, now, objects, media>>

(* Mutant of Store: uploadToS3 and uploadToGCS do not wait for the bucket. *)
StoreNotAwaited(u) ==
  /\ step[u] = "storing"
  /\ \/ objects' = [objects EXCEPT ![key[u]] = [file |-> u, public |-> FALSE]]
     \/ UNCHANGED objects
  /\ Go(u, "saving")
  /\ UNCHANGED <<bucket, now, key, media>>

(* The bucket has the file; the handler hears of it, or of an error. *)
Store(u) ==
  /\ step[u] = "storing"
  /\ objects' = [objects EXCEPT ![key[u]] = [file |-> u, public |-> FALSE]]
  /\ Go(u, IF bucket = "gcs" THEN "publishing" ELSE "saving") \/ Go(u, "failed")
  /\ UNCHANGED <<bucket, now, key, media>>

MakePublic(u) ==
  /\ step[u] = "publishing"
  /\ objects' = [objects EXCEPT ![key[u]].public = TRUE]
  /\ Go(u, "saving")
  /\ UNCHANGED <<bucket, now, key, media>>

(* createNewObject: the document is saved; the handler hears of it, or not. *)
SaveMedia(u) ==
  /\ step[u] = "saving"
  /\ media' = [media EXCEPT ![u] = key[u]]
  /\ Go(u, "replying") \/ Go(u, "failed")
  /\ UNCHANGED <<bucket, now, key, objects>>

Answer(u) ==
  /\ step[u] = "replying"
  /\ Go(u, "answered")
  /\ UNCHANGED <<bucket, now, key, objects, media>>

(* Mutant of Rejected: the error of the bucket settles nothing. *)
RejectedUnheard(u) ==
  /\ step[u] \in InFlight \ {"publishing"}
  /\ Go(u, IF step[u] = "storing" THEN "hanging" ELSE "failed")
  /\ UNCHANGED <<bucket, now, key, objects, media>>

(* A call fails that has had no effect, or getResponse does: next(e). *)
Rejected(u) ==
  /\ step[u] \in InFlight \ {"publishing"}
  /\ Go(u, "failed")
  /\ UNCHANGED <<bucket, now, key, objects, media>>

(* The process ends with all the uploads it serves. *)
ProcessDies ==
  /\ step' = [u \in Uploads |-> IF step[u] \in InFlight THEN "lost" ELSE step[u]]
  /\ UNCHANGED <<bucket, now, key, objects, media>>

MakePublicRejected(u) == step[u] = "publishing" /\ ProcessDies

Tick == /\ now < MaxTime
        /\ now' = now + 1
        /\ UNCHANGED <<bucket, step, key, objects, media>>

-----------------------------------------------------------------------------

(* The steps of u that leave the process alive. *)
Serve(u) == Store(u) \/ MakePublic(u) \/ SaveMedia(u) \/ Answer(u) \/ Rejected(u)

UploadNext == \/ \E u \in Uploads : Upload(u) \/ Serve(u) \/ MakePublicRejected(u)
              \/ ProcessDies
              \/ Tick

UploadSpec == UploadInit /\ [][UploadNext]_uploadVars

-----------------------------------------------------------------------------
(* Properties.                                                             *)

(* The variables hold what the schema and the handler allow. *)
UploadTypeOK ==
  /\ bucket \in {"s3", "gcs"}
  /\ now \in 0 .. MaxTime
  /\ step \in [Uploads -> {"new"} \cup InFlight \cup Over]
  /\ key \in [Uploads -> Keys \cup {None}]
  /\ objects \in [Keys -> Object \cup {None}]
  /\ media \in [Uploads -> Keys \cup {None}]

(* A client that was answered has a Media document, and the url of a       *)
(* document leads to a file whatever failed and whenever the worker died:  *)
(* to the file that was uploaded, readable by all if Google has it, or,    *)
(* when other uploads of the same millisecond have its key, to one of      *)
(* theirs (media.controller.ts:48-70, file-upload.service.ts:66-83).       *)
MediaServesItsFile ==
  \A u \in Uploads :
    /\ step[u] = "answered" => media[u] # None
    /\ media[u] # None =>
         LET object == objects[media[u]]
             shared == \E v \in Uploads \ {u} : key[v] = media[u]
         IN  /\ object # None
             /\ key[object.file] = media[u]
             /\ ~shared => object.file = u /\ (bucket = "gcs" => object.public)

(* Every upload ends: it is answered, or its process has died              *)
(* (media.controller.ts:69-73, file-upload.service.ts:36-44, 74-83).       *)
UploadsSettle == \A u \in Uploads : step[u] = "storing" ~> step[u] \in Over
=============================================================================
