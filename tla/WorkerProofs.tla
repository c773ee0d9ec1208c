---------------------------- MODULE WorkerProofs ----------------------------
(* Proofs about the worker process: its uploads leave documents whose      *)
(* files are there, and it runs jobs and uploads as JobQueue and           *)
(* MediaUpload say, each of which sees the other as a source of crashes.   *)
EXTENDS Worker, JobQueueProofs

(* The bucket has had the file of u, and no call about it has been lost. *)
Kept(u) == step[u] \in {"publishing", "saving", "replying", "answered"} \/ media[u] # None

Shared(u) == \E v \in Uploads \ {u} : key[v] = key[u]

(* What is known of an upload and its object. *)
FileInv(u) ==
  /\ step[u] = "new" => key[u] = None
  /\ step[u] \in {"new", "storing", "publishing", "saving"} => media[u] = None
  /\ step[u] \in InFlight \cup {"answered"} => key[u] # None
  /\ step[u] \in {"replying", "answered"} => media[u] # None
  /\ media[u] # None => key[u] # None /\ media[u] = key[u]
  /\ Kept(u) => objects[key[u]] # None
  /\ /\ bucket = "gcs" /\ ~Shared(u)
     /\ step[u] = "saving" \/ media[u] # None
     => objects[key[u]].public

(* An object is the file of an upload that chose its key. *)
ObjectInv == \A k \in Keys : objects[k] # None => key[objects[k].file] = k

UploadInv == UploadTypeOK /\ ObjectInv /\ \A u \in Uploads : FileInv(u)

LEMMA InitUploadInv == UploadInit => UploadInv
<1> SUFFICES ASSUME UploadInit PROVE UploadInv
  OBVIOUS
<1>1. UploadTypeOK
  BY TimeAssumption DEF UploadInit, UploadTypeOK
<1>2. ObjectInv
  BY DEF UploadInit, ObjectInv
<1>3. \A u \in Uploads : FileInv(u)
  BY DEF UploadInit, FileInv, Kept, InFlight
<1>4. QED
  BY <1>1, <1>2, <1>3 DEF UploadInv

(* A step that stores nothing and makes no key, when the upload that takes *)
(* it keeps what FileInv says.                                             *)
LEMMA SameObjects ==
  ASSUME UploadInv, NEW u \in Uploads, UNCHANGED <<bucket, now, key, objects>>,
         UploadTypeOK', FileInv(u)',
         \A v \in Uploads \ {u} : step'[v] = step[v] /\ media'[v] = media[v]
  PROVE  UploadInv'
<1>1. ObjectInv'
  BY DEF UploadInv, ObjectInv
<1>2. ASSUME NEW v \in Uploads PROVE FileInv(v)'
  <2>1. CASE v = u
    BY <2>1
  <2>2. CASE v # u
    <3>1. step'[v] = step[v] /\ media'[v] = media[v] /\ UNCHANGED <<bucket, key, objects>>
      BY <2>2
    <3>2. QED
      BY <3>1 DEF UploadInv, FileInv, Kept, Shared
  <2>3. QED
    BY <2>1, <2>2
<1>3. QED
  BY <1>1, <1>2 DEF UploadInv

LEMMA UploadUploadInv ==
  ASSUME UploadInv, NEW u \in Uploads, Upload(u)
  PROVE  UploadInv'
<1>1. CASE u.ext # None /\ key' = [key EXCEPT ![u] = KeyOf(u)] /\ Go(u, "storing")
  <2>1. KeyOf(u) \in Keys /\ KeyOf(u) # None
    BY <1>1, UploadsAssumption, NoneAssumption DEF KeyOf, Keys, UploadInv, UploadTypeOK
  <2>2. UploadTypeOK'
    BY <1>1, <2>1 DEF Upload, UploadInv, UploadTypeOK, Go, InFlight
  <2>3. UNCHANGED <<bucket, objects, media>>
    BY DEF Upload
  <2>4. /\ key'[u] # None /\ step'[u] = "storing" /\ key[u] = None /\ media[u] = None
        /\ \A v \in Uploads \ {u} : key'[v] = key[v] /\ step'[v] = step[v]
    BY <1>1, <2>1 DEF Upload, UploadInv, UploadTypeOK, FileInv, Go
  <2>5. ObjectInv'
    <3>1. SUFFICES ASSUME NEW k \in Keys, objects[k] # None
                   PROVE  key'[objects[k].file] = k
      BY <2>3 DEF ObjectInv
    <3>2. objects[k].file \in Uploads /\ key[objects[k].file] = k /\ k # None
      BY <3>1, NoneAssumption DEF UploadInv, UploadTypeOK, ObjectInv, Object
    <3>3. QED
      BY <2>4, <3>2
  <2>6. FileInv(u)'
    BY <2>3, <2>4 DEF FileInv, Kept, InFlight
  <2>7. ASSUME NEW v \in Uploads \ {u} PROVE FileInv(v)'
    <3>1. key'[v] = key[v] /\ step'[v] = step[v]
      BY <2>4
    <3>2. key[v] # None => (Shared(v) => Shared(v)')
      BY <2>4, <3>1 DEF Shared
    <3>3. step[v] = "saving" \/ media[v] # None => key[v] # None
      BY DEF UploadInv, FileInv, InFlight
    <3>4. QED
      BY <2>3, <3>1, <3>2, <3>3 DEF UploadInv, FileInv, Kept
  <2>8. QED
    BY <2>2, <2>5, <2>6, <2>7 DEF UploadInv
<1>2. CASE Go(u, "failed") /\ UNCHANGED key
  <2>1. UploadTypeOK' /\ FileInv(u)'
    BY <1>2 DEF Upload, Go, UploadInv, UploadTypeOK, FileInv, Kept, InFlight, Over, Shared
  <2>2. QED
    BY <1>2, <2>1, SameObjects DEF Upload, Go, UploadInv, UploadTypeOK
<1>3. QED
  BY <1>1, <1>2 DEF Upload

(* The object under the key of u is written; whoever has that key shares it. *)
LEMMA WrittenObject ==
  ASSUME UploadInv, NEW u \in Uploads, step[u] \in {"storing", "publishing"},
         NEW public \in BOOLEAN, NEW file \in Uploads, key[file] = key[u],
         objects' = [objects EXCEPT ![key[u]] = [file |-> file, public |-> public]],
         UNCHANGED <<bucket, now, key, media>>,
         NEW next \in {"publishing", "saving", "failed"}, Go(u, next),
         bucket = "gcs" => next # "saving" \/ public
  PROVE  UploadInv'
<1> DEFINE object == [file |-> file, public |-> public]
<1>1. key[u] \in Keys /\ key[u] # None /\ media[u] = None
  BY DEF UploadInv, UploadTypeOK, FileInv, InFlight
<1>2. object \in Object /\ object # None /\ object.public = public /\ object.file = file
  BY NoneAssumption DEF Object
<1>3. objects' = [objects EXCEPT ![key[u]] = object]
  OBVIOUS
<1> HIDE DEF object
<1>4. UploadTypeOK'
  BY <1>1, <1>2, <1>3 DEF UploadInv, UploadTypeOK, Go, InFlight, Over
<1>5. ObjectInv'
  BY <1>1, <1>2, <1>3 DEF UploadInv, UploadTypeOK, ObjectInv
<1>6. objects'[key[u]] = object /\ step'[u] = next
  BY <1>1, <1>3 DEF UploadInv, UploadTypeOK, Go
<1>7. FileInv(u)'
  BY <1>1, <1>2, <1>6 DEF FileInv, Kept, InFlight
<1>8. ASSUME NEW v \in Uploads \ {u} PROVE FileInv(v)'
  <2>1. step'[v] = step[v] /\ media'[v] = media[v] /\ key'[v] = key[v] /\ bucket' = bucket
    BY DEF UploadInv, UploadTypeOK, Go
  <2>2. Shared(v)' <=> Shared(v)
    BY DEF Shared
  <2>3. key[v] = key[u] => Shared(v)
    BY DEF Shared
  <2>4. key[v] \in Keys /\ key[v] # key[u] => objects'[key[v]] = objects[key[v]]
    BY <1>3 DEF UploadInv, UploadTypeOK
  <2>5. Kept(v) => key[v] \in Keys
    BY DEF UploadInv, UploadTypeOK, FileInv, Kept, InFlight
  <2>6. step[v] = "saving" => Kept(v)
    BY DEF Kept
  <2>7. media[v] # None => Kept(v)
    BY DEF Kept
  <2>8. Kept(v)' <=> Kept(v)
    BY <2>1 DEF Kept
  <2>9. Kept(v) => objects'[key[v]] # None
    BY <1>2, <1>6, <2>4, <2>5 DEF UploadInv, FileInv
  <2>10. ASSUME bucket = "gcs", ~Shared(v), step[v] = "saving" \/ media[v] # None
         PROVE  objects'[key[v]].public
    <3>1. objects'[key[v]] = objects[key[v]]
      BY <2>3, <2>4, <2>5, <2>6, <2>7, <2>10
    <3>2. QED
      BY <2>10, <3>1 DEF UploadInv, FileInv
  <2>11. QED
    BY <2>1, <2>2, <2>8, <2>9, <2>10 DEF UploadInv, FileInv
<1>9. QED
  BY <1>4, <1>5, <1>7, <1>8 DEF UploadInv

LEMMA ServeUploadInv ==
  ASSUME UploadInv, NEW u \in Uploads, Serve(u)
  PROVE  UploadInv'
<1>1. CASE Store(u)
  <2>1. PICK next \in {"publishing", "saving", "failed"} :
          Go(u, next) /\ (bucket = "gcs" => next # "saving")
    BY <1>1 DEF Store
  <2>2. QED
    BY <1>1, <2>1, WrittenObject DEF Store
<1>2. CASE MakePublic(u)
  <2>1. key[u] \in Keys /\ objects[key[u]] \in Object
    BY <1>2 DEF MakePublic, UploadInv, UploadTypeOK, FileInv, Kept, InFlight
  <2>2. PICK file \in Uploads : /\ objects[key[u]].file = file /\ key[file] = key[u]
    BY <2>1, NoneAssumption DEF UploadInv, ObjectInv, Object
  <2>3. [objects[key[u]] EXCEPT !.public = TRUE] = [file |-> file, public |-> TRUE]
    <3> DEFINE object == [objects[key[u]] EXCEPT !.public = TRUE]
               made   == [file |-> file, public |-> TRUE]
    <3>1. object \in Object /\ made \in Object
      BY <2>1 DEF Object
    <3>2. object.public = TRUE /\ object.file = file
      BY <2>1, <2>2 DEF Object
    <3>3. made.public = TRUE /\ made.file = file
      OBVIOUS
    <3>4. \A x, y \in Object : x.file = y.file /\ x.public = y.public => x = y
      BY DEF Object
    <3> HIDE DEF object, made
    <3>5. object = made
      BY <3>1, <3>2, <3>3, <3>4
    <3>6. QED
      BY <3>5 DEF object, made
  <2>4. objects' = [objects EXCEPT ![key[u]] = [file |-> file, public |-> TRUE]]
    BY <1>2, <2>3 DEF MakePublic
  <2>5. QED
    BY <1>2, <2>2, <2>4, WrittenObject DEF MakePublic
<1>3. CASE SaveMedia(u)
  <2>1. key[u] \in Keys /\ key[u] # None
    BY <1>3 DEF SaveMedia, UploadInv, UploadTypeOK, FileInv, InFlight
  <2>2. UploadTypeOK' /\ media'[u] = key[u] /\ step'[u] \in {"replying", "failed"}
    BY <1>3, <2>1 DEF SaveMedia, Go, UploadInv, UploadTypeOK, InFlight, Over
  <2>3. FileInv(u)'
    BY <1>3, <2>1, <2>2 DEF SaveMedia, UploadInv, FileInv, Kept, Shared, InFlight
  <2>4. QED
    BY <1>3, <2>2, <2>3, SameObjects DEF SaveMedia, Go, UploadInv, UploadTypeOK
<1>4. CASE Answer(u) \/ Rejected(u)
  <2>1. UploadTypeOK' /\ FileInv(u)'
    BY <1>4 DEF Answer, Rejected, Go, UploadInv, UploadTypeOK, FileInv, Kept, Shared,
       InFlight, Over
  <2>2. QED
    BY <1>4, <2>1, SameObjects DEF Answer, Rejected, Go, UploadInv, UploadTypeOK
<1>5. QED
  BY <1>1, <1>2, <1>3, <1>4 DEF Serve

LEMMA DeathUploadInv ==
  ASSUME UploadInv, ProcessDies
  PROVE  UploadInv'
<1>1. UploadTypeOK' /\ ObjectInv'
  BY DEF ProcessDies, UploadInv, UploadTypeOK, ObjectInv, InFlight, Over
<1>2. ASSUME NEW u \in Uploads PROVE FileInv(u)'
  BY DEF ProcessDies, UploadInv, FileInv, Kept, Shared, InFlight
<1>3. QED
  BY <1>1, <1>2 DEF UploadInv

LEMMA NextUploadInv == UploadInv /\ [UploadNext]_uploadVars => UploadInv'
<1> SUFFICES ASSUME UploadInv, [UploadNext]_uploadVars PROVE UploadInv'
  OBVIOUS
<1>1. ASSUME NEW u \in Uploads, Upload(u) PROVE UploadInv'
  BY <1>1, UploadUploadInv
<1>2. ASSUME NEW u \in Uploads, Serve(u) PROVE UploadInv'
  BY <1>2, ServeUploadInv
<1>3. ASSUME NEW u \in Uploads, MakePublicRejected(u) PROVE UploadInv'
  BY <1>3, DeathUploadInv DEF MakePublicRejected
<1>4. CASE ProcessDies
  BY <1>4, DeathUploadInv
<1>5. CASE Tick
  BY <1>5, TimeAssumption
     DEF Tick, UploadInv, UploadTypeOK, ObjectInv, FileInv, Kept, Shared
<1>6. CASE UNCHANGED uploadVars
  BY <1>6 DEF uploadVars, UploadInv, UploadTypeOK, ObjectInv, FileInv, Kept, Shared
<1>7. QED
  BY <1>1, <1>2, <1>3, <1>4, <1>5, <1>6 DEF UploadNext

LEMMA UploadsKeepInv == UploadSpec => []UploadInv
BY InitUploadInv, NextUploadInv, PTL DEF UploadSpec

-----------------------------------------------------------------------------
(* The composition.                                                        *)

LEMMA StepOfBoth ==
  ASSUME [WorkerNext]_workerVars
  PROVE  [QueueNext]_queueVars /\ [UploadNext]_uploadVars
<1>1. CASE JobStep
  BY <1>1 DEF JobStep, UploadNext
<1>2. CASE UploadStep
  BY <1>2 DEF UploadStep, UploadNext
<1>3. CASE PublishCrash
  BY <1>3 DEF PublishCrash, QueueNext, UploadNext
<1>4. CASE TimePasses
  BY <1>4 DEF TimePasses, UploadNext
<1>5. CASE UNCHANGED workerVars
  BY <1>5 DEF workerVars
<1>6. QED
  BY <1>1, <1>2, <1>3, <1>4, <1>5 DEF WorkerNext

(* Uploads do to the job queue nothing that crashes of the worker do not:  *)
(* every theorem about JobQueue holds of the worker as it is deployed      *)
(* (apps/finfrac-worker/src/main.ts:14-44).                                *)
THEOREM WorkerRunsJobs == WorkerSpec => QueueSpec
<1>1. WorkerInit => QueueInit
  BY DEF WorkerInit
<1>2. QED
  BY <1>1, StepOfBoth, PTL DEF WorkerSpec, QueueSpec

(* So a job reaches its provider at most once although makePublic may end  *)
(* the process that holds it (main.ts:34, file-upload.service.ts:77-81).   *)
THEOREM WorkerDeliversAtMostOnce == WorkerSpec => KeepsDelivery
BY WorkerRunsJobs, DeliveredAtMostOnce, PTL

(* Jobs do to uploads nothing that the death of their process does not.    *)
THEOREM WorkerRunsUploads == WorkerSpec => UploadSpec
<1>1. WorkerInit => UploadInit
  BY DEF WorkerInit
<1>2. QED
  BY <1>1, StepOfBoth, PTL DEF WorkerSpec, UploadSpec

(* Bucket, keys and Media documents stay well-formed                       *)
(* (media.controller.ts:33-74).                                            *)
THEOREM UploadTypeCorrect == WorkerSpec => []UploadTypeOK
<1>1. UploadInv => UploadTypeOK
  BY DEF UploadInv
<1>2. QED
  BY <1>1, WorkerRunsUploads, UploadsKeepInv, PTL

(* An answered upload has a document, and no document leads nowhere or to  *)
(* a file that another key names, whatever fails and whatever kills the    *)
(* worker (media.controller.ts:48-70, file-upload.service.ts:66-83).       *)
THEOREM MediaServed == WorkerSpec => []MediaServesItsFile
<1>1. UploadInv => MediaServesItsFile
  <2>1. SUFFICES ASSUME UploadInv, NEW u \in Uploads, media[u] # None
                 PROVE  LET object == objects[media[u]]
                            shared == \E v \in Uploads \ {u} : key[v] = media[u]
                        IN  /\ object # None
                            /\ key[object.file] = media[u]
                            /\ ~shared => object.file = u /\ (bucket = "gcs" => object.public)
    BY DEF UploadInv, FileInv, MediaServesItsFile
  <2>2. media[u] = key[u] /\ key[u] \in Keys /\ objects[key[u]] # None
    BY <2>1 DEF UploadInv, UploadTypeOK, FileInv, Kept
  <2>3. objects[key[u]].file \in Uploads /\ key[objects[key[u]].file] = key[u]
    BY <2>1, <2>2 DEF UploadInv, UploadTypeOK, ObjectInv, Object
  <2>4. ~Shared(u) => /\ objects[key[u]].file = u
                      /\ bucket = "gcs" => objects[key[u]].public
    BY <2>1, <2>2, <2>3 DEF UploadInv, FileInv, Shared
  <2>5. QED
    BY <2>2, <2>3, <2>4 DEF Shared
<1>2. QED
  BY <1>1, WorkerRunsUploads, UploadsKeepInv, PTL
=============================================================================
