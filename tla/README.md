# TLA+ verification of the finfrac NestJS microservices

This directory models the parts of the repository whose correctness depends on
what happens *between* two awaited calls: the auth service, sign-up, the
job queue that carries mails and SMS to the worker, the uploads that the worker
serves, and the CRUD base that every resource inherits, with the lists that
clients page through. TLC checks the models on
small instances; TLAPS proves the safety properties for every value of the
constants.

Paths below are relative to the repository's root.

## 1. The system

Three applications and a shared library (`libs/core`):

    client --HTTP--> finfrac-api --mongoose--> MongoDB
                        |  ^
             send(job)  |  | reply
                        v  |
                     RabbitMQ --noAck--> finfrac-worker --HTTP--> SendGrid / Postmark
                                              |
                                              +--> S3 / GCS (media)

| component | state it keeps | operations | interacts with |
|---|---|---|---|
| Account operations (`apps/finfrac-api/src/auth`) | the `Auth` document: password, email, mobile, `verifications`, `verificationCodes`; email and mobile of the `User` document | `verifyEmail`, `verifyMobile`, `sendVerification`, `requestPasswordRequest`, `resetPassword`, `changePassword` | MongoDB by awaited calls; WorkService for the mails and SMS |
| Sign-up (`AuthService.signUp`) | the `Auth` and `User` collections | one transaction over both | MongoDB session; `signIn` |
| Sign-in | none | `validateUser`, `signIn` | reads the account |
| Job queue (`libs/core/src/service`, `apps/finfrac-worker/src/job`) | jobs in RabbitMQ, jobs the worker holds, subscriptions of the API | `processJob`, `addJobToQueue`, the handlers of `JobController` | RabbitMQ, template files, the providers |
| CRUD base (`BaseController`, `BaseService`) | one collection per resource | create, find, findOne, update, patch, remove, validate, searchOne | MongoDB |
| Query parser, pagination (`libs/core/src/shared/common`) | what one request asked for: a sort, a page, a filter | the getters of the sort and of the page, the links of an answer | `find` of the CRUD base |
| Utils | none | pure functions on dates, codes and verifications | everything |
| Media upload (`apps/finfrac-worker/src/media`, `FileUploadService`) | objects in the bucket, `Media` documents | `upload` | S3 or GCS, MongoDB |
| SQL base service, SQL entities (`libs/core`) | tables | as the CRUD base | nothing extends it |
| Pipes, filters, responses, configuration, language strings | none | mapping of values and errors | everything |

### What is hard, and what makes each component correct

**Account operations.** Each handler reads the document, computes, and writes
it with `save()`. Node interleaves handlers at every `await`, and several
replicas run. `verifications` and `verificationCodes` are assigned, hence
written, as whole objects. Correct means: a contact is verified only with a
code issued for it and in force; a password changes only with authority; a code
is never usable under another key or longer than an hour from its issue; the
contact an account has is the one its user has, unless two requests linked
different ones at once; a mail tells a code of its own kind; every request ends; and, when requests do not overlap, none
undoes an earlier one.

**Sign-up.** The test for an existing account is outside the transaction; the
transaction may conflict, its commit may fail after taking effect, the process
may die with the transaction open. Correct means: no half accounts, no token
without an account, an email is registered once.

**Job queue.** Consumption without acknowledgement, template reads with
callbacks whose exceptions nobody catches, replies that end the process which
receives them, crashes of three parties. Correct means: a provider gets a job
at most once, what is reported done was sent, every queued job is settled.

**CRUD base.** Check and write are separate calls: a document can be added,
removed or softly deleted between the two, an update inserts what it no longer
finds. Correct means: what a handler answers was true while it ran, a deletion is
final, and requests that do not overlap keep keys unique and change only what
they name.

**Lists.** A client reads a list page by page while others write; the page and the
count are two calls, pages are cut by skip and limit, and the sort getter changes
the sort whenever it is read. Correct means: the order is the one asked for,
following the links of a list misses no document and repeats none, and it ends.

**Media.** Object, permission and document are three calls, a rejection of the
second ends the process, and uploads of one millisecond may share a key. Correct
means: a document's url leads to a file that can be read, every upload ends, and
the uploads and the jobs that share the process survive, or die, together.

The full list of hazards, each at its line and with the properties that cover
it, is in `PROJECT.json`.

## 2. Modules

| module | what it is |
|---|---|
| `Account` | abstract: what one account promises, one atomic action per request |
| `AuthAccount` | the auth service's handlers on one account, call by awaited call |
| `MCAuthAccount` | sets of requests and symmetries for TLC |
| `AccountProofs`, `AuthAccountProofs` | theorems about the two |
| `AuthSystem` | `AuthAccount` and `JobQueue` in one API process: answers become jobs, dead processes end handlers |
| `MCAuthSystem`, `AuthSystemProofs` | jobs and requests; theorems, the two halves' among them |
| `AccountRegistry` | abstract: an email is registered at most once |
| `SignUp` | `signUp` run by several clients, with MongoDB's transaction |
| `MCSignUp`, `SignUpProofs` | symmetries; theorems |
| `JobDelivery` | abstract: at-most-once delivery |
| `JobQueue` | API, RabbitMQ and worker, with crashes |
| `MCJobQueue`, `JobQueueProofs` | sets of jobs; theorems and the refinement proof |
| `Resource` | abstract: documents with unique keys, gone for good once removed |
| `CrudResource` | the writes of `BaseController` and `BaseService` on one collection, call by awaited call |
| `MCCrudResource`, `CrudResourceProofs` | requests and configurations; theorems and the refinement proof |
| `Listing` | `find` of the same base: one client walks through pages while documents come and go |
| `MCListing`, `ListingProofs` | queries; theorems |
| `MediaUpload` | uploads, with a bucket that fails |
| `Worker` | `JobQueue` and `MediaUpload` in one process |
| `MCWorker`, `WorkerProofs` | a job and uploads; theorems |

### AuthAccount

The state is the stored `Auth` document (`auth`), the contact fields of the
stored `User` (`userContact`), and for each handler the call it waits for
(`pc`), its request (`call`), the Mongoose document it holds (`doc`) and what the
JWT guard's earlier copy of the document said (`linked`). Each call to MongoDB is
one action and each stretch of code between two awaits belongs to the call
before it, except that the issuing of a code has an action of its own
(`IssueCode`), since it reads the clock and draws a code. A `save()` writes the
paths that the handler assigned.

| action | code |
|---|---|
| `Guard`, `FindToSend`, `UpdateUser`, `SaveContact`, `IssueVerification`, `SaveCodes`, `Reply` | `sendVerification` |
| `VerifyEmail`, `VerifyMobile`, `SaveVerification` | `verifyEmail`, `verifyMobile`, `canVerify`, `Utils.updateVerification` |
| `FindToReset`, `RequestPasswordReset`, `SaveCodes`, `Reply` | `requestPasswordRequest` |
| `ResetPassword`, `SaveReset` | `resetPassword`, `cannotResetPassword` |
| `ChangePassword`, `SaveChange` | `changePassword` |
| `Fail` | the awaited call rejects, or a process that runs this handler only dies |
| `Crash` | the process dies with all the handlers it runs |
| `Tick` | time passes |

Abstractions: a hash is the password it matches; a tick divides `Hour`; a code is
any member of `Codes`, so two issues may draw the same one; there is one account,
because every handler filters by an id or an email of one account. Requests
satisfy their DTO, since the validation pipe refuses the others; a body for a reset may
have a mobile and no email, and then looks for an account by an undefined email
(`NotFound`). An SMS for an
account without a mobile throws after the code was saved: `SmsMessage` is empty
and the handler ends.

The variables `lastIssued`, `proven` and `authorised` are history. They record
what is true of a request whatever the handler computes (`InForce` is about when
the code was issued, not about the stored expiration), so that the properties
compare the code with something it does not itself decide. `overlapped` is history
too: it says whether the handler that began last began beside another one. While it
is false, one handler runs, and alone from its start: that is when `KeepsPromise` asks for a
step of `Account`, in the same runs that let handlers race before and after. `raced`
has the keys for which two requests linked different contacts at once (`Races`):
`sendVerification` writes the contact to the user and to the account in two calls, so
that the writes of two requests can cross. `ContactsAgree` excepts these keys only.

### AuthSystem

`AuthAccount` and `JobQueue` have no variable in common; `AuthSystem` conjoins their
actions where the code joins them, and adds `message`, what each job tells.

| action | code |
|---|---|
| `Accept` | a request reaches a handler of a running API |
| `RunHandler` | everything a handler does before it answers |
| `SendAndReply` | `getResponse`: `queueToSendEmail` or `queueToSendSms`, whose `addJobToQueue` nobody awaits, then the answer |
| `SendEndsApi` | the broker cannot be reached: the send errors in nobody's callback and the process ends |
| `HandlerFails`, `TimePasses` | `Fail` and `Tick` of `AuthAccount` |
| `QueueStep` | every other step of `JobQueue`; one that ends the API (`ReceiveReply` of an error, `ApiCrash`) is `Crash` of its handlers (`HandlersDie`) |

`everStored` is history: the codes and contacts the account has had, each with its
key. `JobsTellStoredCodes` compares with it what was sent, since by then another
handler may have overwritten both. `Spare` is a bound: a handler that may send starts only while
a job is left to send its message as.

### SignUp

`pc` walks through `findOne`, the two upserts and the commit. `txn[r]` holds the
uncommitted writes; the transaction's snapshot is taken by its first operation,
so `UpsertAuth` sees what is committed at that moment. An upsert of a document
that an open transaction has written is a write conflict. `Commit` may apply and
fail. `Crash` leaves the transaction open until `Expire`. A sign-up without an
email sends the filter `{ email: undefined }`, which MongoDB reads as null: `None`
is one more email. Verification codes are left to `AuthAccount`. `overlapped`, whether
the sign-up that began last began beside another one, is history: while it is false,
`KeepsRegistry` promises `AccountRegistry`, also after sign-ups that raced.

### JobQueue

Each job has a `stage`; `listening` is the set of subscriptions that the API
process keeps; `replies` are on their way. What the code's libraries do at this
version and configuration, as used by `src/`:

- `@EventPattern` handlers answer messages sent with `send`; success completes
  the observable without a value, an exception becomes an error reply, and so
  does a pattern that has no handler (`UPLOAD_PHOTO`).
- The error callback in `job.service.ts:19` is an operand of a comma expression
  and is discarded. An error reply that finds its subscription is an unhandled
  error and ends the API (`ReceiveReply`, `SendFails`).
- The queue is durable and its messages are not persistent (`BrokerRestart`);
  `noAck` makes the broker forget a message when it is consumed (`Lost`).
- An exception in the callback of `fs.readFile` ends the worker, with every job it
  holds (`Render`).
- `app.verification.smsService` is not in `configuration.ts`: an SMS is rendered
  and given to no provider.

### CrudResource

`docs` is the collection by `_id`, `config` the resource's static `config()`
merged over the defaults, and each handler has the call it waits for (`pc`), its
request (`call`), what it found (`held`) and its answer (`out`).

| action | code |
|---|---|
| `RetrieveExisting`, `Insert` | `create`: `retrieveExistingResource`, `createNewObject` |
| `FindObject` | `findObject`, and all of `findOne` |
| `SavePatch` | `patchUpdate`: `save()` writes what differs from the document found, and throws if there is none |
| `Upsert` | `updateObject`: `findOneAndUpdate` by `_id` with `upsert` |
| `Delete` | `deleteObject`: `save()` with `deleted`, or `remove()` |
| `Finish` | the answer is sent, or the request fails or its process dies |

A document is one key (the fields of `uniques`), one value (its other fields) and
`deleted`. A body may name all three. Where `updateFillables` lists fields, they are
part of the value, as in `user.schema.ts`, and a patch or an update takes nothing else;
where the list is empty, which is the default and so in `auth.schema.ts` and
`media.schema.ts`, everything is taken (`Body`, `Fill`, `Save`): a body can then change a
unique key, or delete or revive the document. `fillables` is the same for
a create, but lists the keys. Such bodies are excepted from `KeepsResource`, and one
that says `deleted: false` from `SoftDeletedStays`, for the step that writes them
and no other (`Unpicked`, `Writes`). A `publicId` in the body of a patch is left out: the
properties do not tell which document a public id names. No schema of the repository sets
`softDelete`, which `deleteObject` supports. Public ids are
given in order. A body
without the unique field has the key `None`: `retrieveExistingResource` then
looks for null. The hooks `validateCreate`, `validateUpdate` and `validateDelete`
return null everywhere. `config.user` says whether a guard sets `req.user`: no
guard does on `/users/:id`, and `remove` throws there before it looks for
anything. `validate`, `searchOne` and `findByUniqueKey` only read, and are left
out. The variables `seen` (what a request could have seen while it ran) and
`overlapped` (the request that began last began beside another) are history: with the
second, the promise to a request that runs alone is checked in the concurrent run, on
whatever collection racing requests have left.
`find` has a module of its own, `Listing`.

### Listing

`docs` is the collection of the documents that are not deleted; `query`, `found`
and `next` are the request being served, its page and its link; `asked`, `start`, `met`
and `left` are history of the client's walk. `page` and `perPage` are what `parseInt`
makes of any text: a number, negative ones too, or `NaN`.

| action | code |
|---|---|
| `Request` | `find` is called: `new QueryParser(...)`, `new Pagination(...)` |
| `FindPage` | `buildModelQueryObject`: the sort (`Returned`, `OrderOf`), `skip`, `limit`, and the first awaited call |
| `Count` | `countDocuments`, `totalCount`, `morePages`, `next` |
| `Follow` | the client requests the `nextPage` link |
| `Reject` | the find is refused: a scalar as sort (the getter throws), a direction mongoose does not know, a negative skip |
| `Fail`, `Leave` | a call fails, or its process dies; the client stops |
| `Insert`, `Update`, `Remove` | other requests |

The getter of the sort is read twice per request, once in the test and once for its
value, and each read turns round the directions that are strings: `Returned`
reads twice, and `SortedAsAsked` says that the result is what the comment on the
getter promises of the directions that it names, `asc` and `desc`. Every other string is
one direction, "other": the first read makes it ASC, the second DESC. MongoDB leaves the order of documents that compare equal open,
so `FindPage` chooses any list that the keys allow (`Lists`). `createdAt` is read by
the process before the save arrives, so insertions come in any order of it. A
`perPage` of 0 reaches `limit(0)`, which is no limit, a negative one is a limit without
its sign, and a `page` of 0 or less is page 1 (`Skip`, `Limit`, `To`); with `NaN` every
comparison fails, so nothing is skipped and no link follows. One client is enough: a walk reads, and no walk sees another.

What a walk is promised needs conditions that the properties state: no document
at all has left the list (one that leaves moves the others to earlier pages), the walk
started on the first page, and either it ended there or it is a plain one over
documents of different `createdAt`. The
links keep neither sort nor filter, so a filtered or sorted walk continues as
another list. Insertions are allowed everywhere in `WalkMissesNothing`: a newer
document pushes the others to later pages, which the client has yet to read.

### MediaUpload and Worker

`bucket` is the configured store, `step` the call each upload waits for, `objects` what
the bucket's keys name, `media` the documents.

| action | code |
|---|---|
| `Upload` | `MediaController.upload` up to the first call; no file is a TypeError |
| `Store` | `uploadToS3` or the stream of `uploadToGCS` |
| `MakePublic`, `MakePublicRejected` | `await file.makePublic()` in the `finish` listener |
| `SaveMedia`, `Answer` | `createNewObject`, `getResponse` |
| `Rejected` | an error, given to `next` |
| `ProcessDies` | the worker ends with all it serves |
| `Tick` | a millisecond passes |

A promise that rejects in an `async` event listener is handled by nobody, and Node
ends the process: `MakePublicRejected` is `ProcessDies`. Each call may fail after
it took effect (`Store` and `SaveMedia` may end in "failed" with their effect).
`Worker` conjoins the two modules over disjoint variables: a step of the queue
that ends the worker is the death of its uploads (`JobStep`), the rejection above is
a crash of the queue's worker (`PublishCrash`), and no upload runs while the worker
is down (`UploadStep`). A request that arrives then gets no answer and changes
nothing, so it has no action.

## 3. The runs

| run | question | bounds |
|---|---|---|
| `auth_verify` | do `TypeOK`, `CodesWereIssued`, `VerifiedWasProven`, `ContactsAgree` and `MessagesTellIssuedCodes` hold while two handlers verify, link contacts and send codes, and does a handler that runs alone do what `Account` does (`KeepsPromise`)? | 2 handlers, 1 code, 1 email, 2 mobiles, 2 ticks, an hour of 1 tick; 5.0 million states |
| `auth_password` | `CodesWereIssued`, `VerifiedWasProven`, `PasswordWasAuthorised`, `MessagesTellIssuedCodes`, `KeepsPromise` while two handlers request codes, reset and change the password and verify the email, with reset codes sent as verifications | 2 handlers, 2 codes, 2 passwords, accounts with one contact, 2 ticks, an hour of 1 tick; 4.7 million states |
| `auth_system` | does what is sent as a job tell a code, and go to a contact, that the account had before (`JobsTellStoredCodes`), and does every request end (`RequestsEnd`), while jobs, crashes and a lost broker end the API? | 2 handlers that send SMS codes, request reset codes, reset and change the password; 1 email and 1 SMS, 1 crash that no job causes, time stands still |
| `auth_for_good` | **violated**: is a verification never undone (`VerifiedForGood`)? | 2 handlers |
| `auth_half_hour` | **violated**: is a code refused after half an hour (`HalfHourCodes`)? | 1 handler |
| `sign_up_races` | `TypeOK`, `AuthsHaveUsers`, `TokenNamesAccount`, `ConflictsAreReal` (a given email is refused only for a user who has it) while two clients sign up; `KeepsRegistry` for a sign-up that runs alone | 2 clients, 2 emails, 1 mobile, 2 passwords, 3 accounts |
| `sign_up_one_account` | **violated**: has an email one account (`OneAccountPerEmail`)? | 2 clients |
| `sign_up_conflict` | **violated**: does a conflict mean that the credential exists (`ConflictNamesDuplicate`)? | 1 client |
| `jobs` | `QueueTypeOK`, `DoneEmailsWereSent`, `KeepsDelivery`, `JobsSettle` while worker, API and broker crash | 5 jobs, 2 crashes that no job causes |
| `crud` | `TypeOK`, `AnswersWereTrue`, `SoftDeletedStays` while two handlers create, find, patch, update and remove; `KeepsResource` for a request that runs alone | 2 handlers, 2 documents ever, 1 key or none, 2 values, 5 configurations; 3.2 million states |
| `list` | `TypeOK`, `SortedAsAsked`, `WalkMissesNothing`, `WalkRepeatsNothing`, `WalkEnds` while a client walks and others insert, update and remove | 3 documents ever, 2 names, 3 times, 16 queries (pages of -1, 0, 1, 2 and `NaN` documents; from page -1, 1, 2 and `NaN`), pages up to 3 followed |
| `worker` | `UploadTypeOK`, `MediaServesItsFile`, `UploadsSettle`, `JobsSettle` while uploads and jobs end each other's process | 2 files that may share a key, a request without one, 1 job whose template ends the worker, 2 other crashes, 2 milliseconds |

**Bounds.** Two handlers are enough for the races here: every handler's window is
one read followed by writes of what it read, so a property breaks, if it does,
by another handler's write inside one window, and that handler may be followed
by any number of others in sequence (a handler that ended is free to start
again). The proofs then hold for any number. `MaxTime` exceeds `Hour` by one so
that a code can be exactly an hour old, and expired; in `auth_system` time stands
still, since a code that has expired or was never right only makes a handler end
early, which a wrong code does too. There, one job of each kind is enough for
every way a handler can answer, and one crash for every step it can be cut at;
the email with a verification code takes the steps of the SMS, and
`verifyEmail` and `verifyMobile` those of `resetPassword`, with no step in which they
could wait. `MaxAccounts` = 3 lets two racing sign-ups and a later one each create a
document. The five jobs of `jobs` are one of every end: an email that can be
sent, one whose template kills the worker, one that names no template and fails
at once, an SMS that is done without being sent, and a ping.

In `auth_verify` two mobiles are what two requests need to link different ones; the
email has the same code. In `auth_password` accounts have an email or a mobile, not
both: the reset reads only whether there is an email. A code that is asked for with an undefined
contact is in `auth_system`.

In `crud` the second id is what an update inserts when it finds its document
removed, and the one key and its absence are enough for a conflict. With filled lists
of fillables the run leaves out of the bodies what the lists drop, and with empty ones it
asks by `_id` only and does not find without writing (`WhatIsRead`): the former changes nothing, the
latter is in the other configurations. A body names a key or `deleted`, not both.

In `list` three documents on pages of one make a first, a middle and a last page,
and a page past the end; on pages of two, a full and a partial one. Every order of
three `createdAt` occurs, and ties. A document can be inserted before or after
the page being read, and between its find and its count. `MaxPage` is the last page
that three documents fill. The queries have no sort, one of each notation (a
scalar, a name, a direction as a string, one that is neither `asc` nor `desc`, one that names
`createdAt`), a filter, `all`, and each boundary of page and size.

In `worker` two uploads are what it takes to share a key, one tick apart or not;
the job is the one that ends the process.

**Deadlock** is checked in all runs but `jobs` and `worker`: there jobs and uploads
are finite, and the system stops when all are settled and answered. In `auth_system`
requests that send nothing can always come. Symmetry is
used where a run has only safety properties, which the permuted constants do not
distinguish.

## 4. Fairness

`AuthSystem!SystemFairness` is weak fairness of each handler's own steps: MongoDB's
driver answers or fails every call (it has timeouts), and Node runs every
continuation of a settled promise. It includes none of `Accept`, `HandlerFails`,
`QueueStep` and `TimePasses`: nobody must send a request, nothing must fail, and the
worker need not run for a request to end.

`JobQueue!QueueFairness` is weak fairness of the worker's restart (the deployment
restarts it, `_kubernetes/`, `docker-compose.yml`), of consumption and of a
handler's steps (files and HTTP answer or fail). A crash that no job causes
happens at most `MaxFailures` times in a behaviour; those that jobs cause are
not bounded. The API's restart needs no fairness: `JobsSettle` does not depend on
the API being up.

`Worker!WorkerFairness` adds weak fairness of each upload's own steps: bucket and
MongoDB answer or fail. A weakly fair `Serve` is enough although the worker may
be down: an upload in flight dies with it.

`Listing!FairSpec` is weak fairness of serving a request (the database answers or
fails) and of following a link, which is the client's part and what the property is
about: `WalkEnds` says that *a client that follows the links* comes to an end.
Insertions are bounded by `MaxDocs`; a collection that grows by a page for each
page read has no last page, in the code either.

## 5. Proofs

The theorems rest on the named assumptions: `Hour` is a positive natural, the
clients' requests are values of the DTOs, `None` is none of the values it stands
beside (`AuthAccount`); `MaxAccounts` is a natural and `None` is new (`SignUp`);
jobs are records of an id, a task and a template, `MaxFailures` is a natural
(`JobQueue`); requests are of the five kinds, pages hold at least one document,
`None` is new (`CrudResource`); names and times are natural, queries have the fields
that the parser makes, `None` is new (`Listing`); uploads have an id and an
extension or none (`MediaUpload`). Nothing bounds the sets.

**AuthAccountProofs.**
`TypeCorrect`: `TypeOK` is not inductive, because a handler's steps use the
document it holds; `TypeInv` adds `Protocol`, which says which handlers hold a
document at which step and for which request.
`CodesAreIssued`, `VerifiedIsProven`, `PasswordIsAuthorised`: the stored document is
sound only because the documents in the handlers' hands are; `SafetyInv` says that
the stored document *and every held one* contain only issued codes of bounded
expiration, proven flags and authorised passwords. `lastIssued`, `proven` and
`authorised` only grow, so a stale document stays sound, and a save of it is
harmless. That is the whole reason why the races of whole-object writes, which do
undo verifications (`auth_for_good`), do no worse.
`ContactsAgreeUnlessRaced`: `ContactInv` adds that handlers that have yet to link a
contact of one kind link the same one unless the kind is in `raced`, and that one about to
save a contact has updated the user with it: nobody has written another one since.
`MessagesAreTrue`: `MessageInv` adds that the code a handler just issued is still
in its hands when it replies, whatever was saved meanwhile.
`AloneKeepsPromise`: among any number of handlers, one that runs alone implements
`Account`, call by call. `AloneInv` says that while `overlapped` is false nobody else
runs, and that the document in hand is the stored one but for what
the request is about: nobody wrote between the read and the save, so a save of a
whole object changes one key of it. It also carries what the guard of
`sendVerification` saw to the save that relies on it. Each save is then an action of
`Account`, every other step a stutter, a death in the middle included. The proof
assumes nothing of what earlier handlers left: a document that races have made
inconsistent is as good a start as any. Two consequences: with one
handler in all the service implements the whole of `AccountSpec`
(`SerialHandlersImplementAccount`), and no handler that runs alone undoes a
verification (`AloneVerificationsStay`), so that the violation in `auth_for_good` takes
an overlap.

**AccountProofs.** In `Account`, a verified contact has no code left
(`VerifiedContactsHaveNoCode`), and hence stays verified and unchanged
(`VerifiedContactsStay`). With `SerialHandlersImplementAccount` this says what
overlapping requests break.

**AuthSystemProofs.** Every step of the system is, for the account, a step of
`AuthAccount` or none (`SystemRunsAccount`) and, for the queue, one of `JobQueue` or none
(`SystemRunsQueue`): what is proved of each part alone holds of the whole, and
`SystemDeliversAtMostOnce` and `SystemKeepsPromise` are the two instances worth stating.
`ToldCodesWereStored` is about both and needs an invariant of its own:
`ToldInv` says that the contacts in any handler's hands have been stored, and that so
have all the codes in the hands of one that is about to answer. The first holds because
a handler's contacts come from the document it read or from the one it has just
written (`HeldContacts`), the second because the step to the answer is the save of
just those codes (`HeldCodes`). Neither holds of the account as it is: another handler
may have replaced both, which is why the property is about `everStored`. `TypeInv` and
`QueueTypeOK` come from the parts.

**SignUpProofs.** `IInv` strengthens `TypeOK` and `AuthsHaveUsers` with: ids in use are
at most `lastId` and unique (a fresh id is fresh), what a transaction holds at each
step (`TxnInv`: a user is pending unless the account has one), agreement of all
versions of a document on its email (`PendingInv`: an update of an account whose
other version commits later keeps the email), and `TokenInv`: what is being
answered is stored. `AuthsAlwaysHaveUsers` and `TokensNameAccounts` follow, and, with
`ConflictInv` (a refusal names a stored account) and `SameEmail` (an `Auth` and its `User` have one
email), `ConflictsNameUsers`: the test outside the transaction never refuses an email for
an account of which half is missing.
`SerialSignUpsRegister` proves `KeepsRegistry`: while `overlapped` is false at most one
handler runs (`SerialInv`), so what `findOne` did not find is not there at the commit,
and an email that is registered is new.

**JobQueueProofs.** `QueueInv` adds `SentInv`: what is sent is accepted or settled, what
is accepted is sent. From it, `DoneMeansSent`, and `DeliveredAtMostOnce`, which is
the refinement `QueueSpec => KeepsDelivery`: `QueueSimulation` maps every step to a step of
`JobDelivery` or a stutter.

**CrudResourceProofs.** A handler writes to what it found, so `IInv` says what a handler
holds at each step (`Protocol`) and that only ids given have documents
(`Collection`): `TypeCorrect`. `BodyType`, `FillType` and `SaveType` say once what a body
makes of a document. `DeletionIsFinal`: every write to a stored
document leaves its `deleted` alone or sets it, unless its body says `deleted: false` and
nothing drops that, and a resource that deletes softly loses no document. `AnswersAreTrue`: `SeenInv` says that what a handler relies
on, the key it found free or the value it holds, it has seen since it began.
`SerialRequestsKeepResource`: what a handler that runs alone found is
what is stored (`AloneInv`, `Fresh`), whatever was there when it began, and every write is an action of `Resource`.

**ListingProofs.** `ListTypeCorrect`: a link follows only where page and size are numbers.
`ListSorted`: turning the documented directions round twice is the identity
(`ReadTwice`), and adding the newest-first key to what was asked leaves its order
(`OrderAsked`). `ListMissesNothing` counts: the *rank* of a document is the number of newer
ones, a page of a plain walk holds the documents whose ranks it spans, and
`WalkInv` says that every document of `start` whose rank lies before the next page's
first has been met. An insertion only raises ranks, so nobody slips behind the
client; a count that leaves no next page says that no rank is left.
`ListRepeatsNothing` is the same count the other way round: if nothing changes,
everything met has a rank before the next page (`RepeatInv`, `Ahead`).

**WorkerProofs.** A behaviour of `Worker` is, for the queue, a behaviour of `JobQueue`
(`WorkerRunsJobs`) and, for the uploads, one of `MediaUpload` (`WorkerRunsUploads`): hence
`WorkerDeliversAtMostOnce`, from the theorem about the queue alone, and
`UploadTypeCorrect` and `MediaServed`, whose invariant says what has been stored, and
made public, at each step of an upload, unless another one has its key.

**Only model-checked:** liveness (`RequestsEnd`, `JobsSettle`, `UploadsSettle`, `WalkEnds`),
and the four violated properties.

## 6. Plan

Done: the operations that write, the lists, the uploads, the worker and the API as
wholes, and a proof of each safety property the runs check. What could follow:

1. Proofs that relate the halves of the CRUD base: `Listing`'s insertions and removals
   are the steps of `Resource`.
2. One process for all of it: `AuthSystem` and `Worker` share `JobQueue`, so the
   theorems of both would hold of their conjunction by the same argument.

## 7. Findings

1. A verification can be undone (`auth_for_good`): `verifyEmail` and `verifyMobile`
   write whole objects from the document they read.
2. A code lives an hour and its mail says half an hour (`auth_half_hour`).
3. Two overlapping sign-ups create two accounts with one email
   (`sign_up_one_account`): the schema's `uniques` makes no index.
4. The second sign-up by mobile number ever is refused as a duplicate
   (`sign_up_conflict`): the filter on an absent email matches the first.

## 8. Not modelled

- **Sign-in** (`validateUser`, `signIn`) reads one document, compares and signs; it
  writes nothing and nothing depends on when it runs. What `signUp` does with it is
  in `SignUp`.
- **SQL base service, wallet and transaction entities**: no class extends the service
  and no service has the tables, so no state of the program reaches them.
- **finfrac-email** is a stub. **Pipes, filters and responses** are stateless mappings of
  values and errors; that a request satisfies its DTO is used in `AuthAccount` and `SignUp`.
- **Configuration, language strings and deployment** are data; where a key is missing,
  the code that reads it is modelled as it runs.
- **The publisher's resend**: `amqp-connection-manager`, outside the repository, sends
  a message again whose channel was lost. In `JobQueue` a job is sent once.
- **Utils**: dates and codes are in `AuthAccount`. `generateDateRange` puts the end before the
  start, but only a schema with `dateFilters` reaches it, and none that a service lists
  has any.

Some hazards have no property because no document of the repository promises the
opposite of what the code does; `PROJECT.json` says which. The models show these,
and a maintainer may want to know them:

- two `sendVerification` requests with different emails, or mobiles, can leave one in the
  account and the other in its user: update user e1, update user e2, save account e2, save
  account e1 (`auth.service.ts:158-165`);
- a password reset asked for with a mobile and no email looks for an account
  without an email, whichever that is (`auth.service.ts:264`, `reset-code.dto.ts:6`);
- of two password changes that overlap, the later save overwrites the earlier, and a
  sign-up that races another one for the same email may overwrite its password;
- where `updateFillables` is empty, a body can give a document the unique key of another one,
  or `deleted: false` (`base.service.ts:49-53, 71-75`);
- every sort direction but `asc`, `desc` and numbers comes out descending, so `?sort[name]=1` and
  `?sort[name]=ascending` do;
- a list from page -1 links to page 0, one from a page that is no number has no link, and the second
  page of a list with a negative `perPage` is refused;
- a subscription whose job was lost is never removed, an SMS is given to no provider;
- `?sort=createdAt` gives the newest first, as no sort at all gives it: the getter's
  own key is assigned over the client's (`WithCreatedAt`);
- the links of a list keep neither its sort nor its filter; pages of size 0 hold the
  whole list and always link to another page; page 0 is page 1 and links to page 1;
- two uploads of one type in one millisecond have one key, and the later one
  replaces the earlier one's file; a file whose document could not be saved stays in
  the bucket.
