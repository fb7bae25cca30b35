# TLA+ models of openstor-go's object retention and bucket encryption calls

This directory holds TLA+ models of the code under `src/`, the TLC runs that
check them on small instances, and the TLAPS proofs that establish some of
their properties for every instance. Three parts of `src/` are code:

* `src/unnamed/part_000` covers object retention. It holds the `objectRetention`
  struct, `newObjectRetention`, `PutObjectRetention` and `GetObjectRetention`.
* `src/api-bucket-encryption.go` covers bucket encryption. It holds
  `SetBucketEncryption`, `RemoveBucketEncryption` and `GetBucketEncryption`.
* `src/unnamed/part_001` is the SDK's README, with a sample uploader program.
  It has no library state to model.

## The system and how its parts interact

Every client call has the same shape:

1. Validate the arguments: bucket and object names, and the mode.
2. Build and encode a body.
3. Block in `c.executeMethod` on one HTTP request to the S3 store.
4. Classify the response by transport error and status code, and decode the body.

Many goroutines may share one `Client` and call it at once. Their calls
interleave only through the store. The store serves each request
atomically. It keeps a retention mode per object version and an encryption
configuration per bucket. The network between the client and the store can:

* lose a request;
* lose a response;
* cancel the context before or after the store acted;
* break a body off while it is read.

The store and `executeMethod` are not under `src/`. They are modelled from
`spec.md`:

* section 4.4: retention modes. NONE may take any mode. GOVERNANCE may be
  raised, and lowered or removed only with the bypass header. COMPLIANCE is
  terminal.
* section 6: status codes.

Their definitions are marked `spec_modelled` in `PROJECT.json`.

## Modules

| Module | Models | State and actions |
|---|---|---|
| `RetentionCodec` | `objectRetention`, `newObjectRetention`, `xml.Marshal`/`Decode` of `<Retention>`, the values `GetObjectRetention` returns (part_000:37-58, 102-105, 179-184) | Pure operators. A `time.Time` is an instant and a zone. `FarTime` is a year above 9999, where `MarshalText` fails. `ZeroTime` is the zero time. |
| `ObjectRetention` | `PutObjectRetention`, `GetObjectRetention` and the object-lock store | See below. |
| `RetentionLock` | what the retention calls promise (abstract) | `mode` per version, `locked` versions; `SetMode` (COMPLIANCE terminal) and `Acknowledge` (only a version in COMPLIANCE). |
| `ObjectRetentionProofs` | TLAPS: type correctness of `ObjectRetention` | lemmas on the codec and the outcome operators, `TypeInv` |
| `ObjectRetentionOutcome` | TLAPS: `PutOutcomeExact` | extends `ObjectRetentionProofs`, adds `ExactInv` |
| `ObjectRetentionRefinement` | TLAPS: `ObjectRetention` implements `RetentionLock` | extends `ObjectRetentionOutcome`, adds `LockInv` |
| `ObjectRetentionVisible` | TLAPS: `ComplianceLockVisible` | extends `ObjectRetentionRefinement`, adds `VisibleInv` |
| `ObjectRetentionBypass` | TLAPS: `GovernanceRemovedOnlyByBypass` | extends `ObjectRetentionProofs`, adds `BypassInv` |
| `BucketEncryption` | `SetBucketEncryption`, `RemoveBucketEncryption`, `GetBucketEncryption` and the encryption store | See below. |
| `BucketEncryptionProofs` | TLAPS: type correctness of `BucketEncryption` | `TypeInv` |
| `BucketEncryptionOutcome` | TLAPS: `EncryptionReadHeld` | extends `BucketEncryptionProofs`, adds `HeldInv` |
| `BucketEncryptionExact` | TLAPS: `EncryptionOutcomeExact` when SET is answered with 200 only | extends `BucketEncryptionProofs`, adds `ExactAt` |
| `MCObjectRetention`, `MCBucketEncryption` | instances for TLC | Symmetry over callers, and the sets of input dates. |

`ObjectRetention` has these variables:

* `ret`: the store's mode per version.
* Per caller:
  * `pc`: idle, or waiting in `executeMethod`;
  * `call`: the arguments;
  * `req`: the request in flight;
  * `resp`: the transport outcome;
  * `result`: what the call returned.
* `calls`: a bound on the number of calls.
* History variables that exist only for the properties:
  * `applied`: the store carried out this call's PUT;
  * `acked`: versions a COMPLIANCE PUT was acknowledged on;
  * `lockedAtSend`: a GET was sent after such an acknowledgement.

Each Go call is two actions, split at `c.executeMethod`:

* `PutObjectRetention` and `GetObjectRetention` run everything before the
  send. That is the name checks, `newObjectRetention`, `xml.Marshal`, the
  `versionId` parameter (only for a non-empty id) and the bypass header. The
  early returns keep the code's order: validation errors, then the encoding
  error.
* `PutObjectRetentionReturn` and `GetObjectRetentionReturn` run everything
  after the send. That is the transport error, the status check (PUT accepts
  200 and 204, GET only 200), and decoding, where a truncated body gives
  the decode error.

`ServePutRetention`, `ServeGetRetention`, `DropRequest`, `LoseResponse` and
`TruncateBody` are the store and the transport.

`BucketEncryption` has the same layout:

* `enc` is the configuration of each bucket.
* `held` records the configurations a bucket held while a call was in flight.
  It is the witness of linearizability for GET.

## Runs

| Run | Checks | Result |
|---|---|---|
| `retention_valid` (`MCObjectRetentionValid.cfg`) | `PutOutcomeExact`, `ComplianceLockVisible` | pass, 480,401 states |
| `retention_inputs` (`MCObjectRetentionInputs.cfg`) | `TypeOK` with bad bucket and object names, a bogus mode, and unset, UTC, local, zero and far dates; `PutBodyRoundTrip` | pass, 7,675 states |
| `retention_bypass` (`MCObjectRetentionBypass.cfg`) | `NoBypassForCompliance` (spec section 4.3) | **violated** |
| `encryption` (`MCBucketEncryption.cfg`) | `TypeOK`, `EncryptionOutcomeExact`, `EncryptionReadHeld` | pass, 1,533,856 states |
| `encryption_set204` (`MCBucketEncryptionSet204.cfg`) | `EncryptionOutcomeExact` with a store that answers SET with 204 | **violated** |
| `retention_lock` (`MCObjectRetentionLock.cfg`) | `LockRefinement`: `ObjectRetention` implements `RetentionLock`; `GovernanceRemovedOnlyByBypass` | pass, 480,401 states |

The properties:

* `PutOutcomeExact` and `EncryptionOutcomeExact`: a call reports success
  only if the store carried it out, and a service error only if it did not.
  An ambiguous outcome, where the store applied the change and the response
  was lost, is only ever a transport error. This holds for a transport that
  delivers each request at most once, which is what the model has. Spec
  section 1 puts retries in the transport, outside `src/`. A transport that
  re-sent an applied PUT could turn it into a 403 (see the hazards).
  The modelled encryption store never refuses a SET or a REMOVE, since
  spec section 6 gives it no reason to. So the "service error only if not
  carried out" half of `EncryptionOutcomeExact` is met in the runs only
  through the transport, and only the mutants exercise it directly.
* `ComplianceLockVisible`: once a COMPLIANCE lock is acknowledged, every
  later GET of that version that the store answers reports COMPLIANCE. It
  never reports 404 or another mode. This covers a version named by id and
  the current version named by an empty id.
* `PutBodyRoundTrip`: spec section 8's law `decode(encode(c)) == c` on what
  is sent. The body of every PUT in flight whose options are constructible
  (mode unset or valid, date unset or a UTC instant) decodes, as
  `GetObjectRetention` decodes a `<Retention>` document, to exactly the
  configuration `newObjectRetention` built. An unset mode is omitted
  (`omitempty`) and decodes to `""` again. A UTC date is written with `Z`
  and parses back to a UTC time. Its mutant writes a numeric offset for a
  UTC date, and the date then comes back in a fixed zone.
* `LockRefinement`: the abstract `RetentionLock` specification, under the
  mapping `mode <- ret`, `locked <- acked`, holds of `ObjectRetention`.
  Every step changes at most one version's mode, never takes a version out
  of COMPLIANCE, and acknowledges a COMPLIANCE lock only on the version the
  call named and only once that version is locked. The mutant that drops
  the `versionId` parameter breaks it: the lock lands on the current
  version, and the acknowledgement names another.
* `GovernanceRemovedOnlyByBypass` (an action property): a step that takes
  a version from GOVERNANCE to NONE is the store serving a PUT on that
  version that carries the bypass header, sent by a call whose
  `GovernanceBypass` was set. Its mutant sends the header whatever the
  flag says (part_000:110).
* `EncryptionReadHeld`: GET returns a configuration the bucket held at some
  moment of the call. It reports 404 only if the bucket had none at some such
  moment.

Each property of a passing run has a mutant in `PROJECT.json`: the code
with one plausible bug, which TLC must catch. For example:

* accepting only 200 for a PUT or DELETE;
* dropping the `versionId` parameter;
* ignoring a decode error;
* skipping `IsValid`.

### Bounds

* `retention_valid` uses two callers and three calls. That is enough for:
  * a PUT and a GET overlapping;
  * a PUT lost after it was applied, then a GET;
  * two PUTs racing on one version.

  It uses one bucket and one object with two versions (one current), so
  naming by id and by empty id both occur.
* `retention_inputs` uses one caller and two calls, with a valid and an
  invalid bucket, a valid and an invalid object, a bogus mode, and dates
  that are unset, UTC, local-zone, zero and beyond year 9999. Each early
  return is reached: the name check, `newObjectRetention`, and the encoding
  error. The run does not check which of two errors comes first when
  both apply: the name and mode checks both give a validation error.
  Concurrency is covered by the valid run. `TypeOK` catches a bogus mode
  that reaches the request. It would not catch a `Marshal` or decode error
  that was ignored; `PutOutcomeExact` and `EncryptionReadHeld` cover those
  paths.
* `encryption` uses three callers and four calls on one valid and one
  invalid bucket. That is enough for a GET to overlap a SET and a REMOVE.

* `retention_lock` uses the instance of `retention_valid`.

There are three configurations: empty, AES and KMS. Symmetry over callers
is sound because no definition names a particular caller.

Deadlock is checked in every run. A finished behaviour stutters in
`Finished` once every call has returned, so a deadlock would be a call
left waiting with nothing enabled. The runs show the model has none.

### Fairness

No run assumes fairness. Every property checked is a safety property, and
`Spec` has no fairness conditions. The code sets no deadline of its own. A
call returns only when `executeMethod` does, and that is outside `src/`.
So no liveness property is stated that the code alone would justify.

## Findings

1. **Bypass header with COMPLIANCE.** `PutObjectRetention` (part_000:110)
   sends `x-amz-bypass-governance-retention` whenever `GovernanceBypass` is
   set. Spec section 4.3 says the header is never sent for a COMPLIANCE
   intent. The same section also says the header is sent iff the flag is set.
2. **SetBucketEncryption and 204.** The code (api-bucket-encryption.go:77)
   and spec section 4.4 accept only 200. Spec section 6 lists 200 and 204 as
   success for SET. A store answering 204 applies the configuration while the
   caller gets an error.

## Proofs (checked by `tlapm`)

The proofs are split over modules that extend one another, so that each
`tlapm` run stays short. For object retention: `ObjectRetentionProofs`,
then `ObjectRetentionOutcome`, `ObjectRetentionRefinement` and
`ObjectRetentionVisible` in a chain, and `ObjectRetentionBypass` beside
them. For bucket encryption: `BucketEncryptionProofs`, with
`BucketEncryptionOutcome` and `BucketEncryptionExact` beside each other.

Each object-retention theorem rests on the constant assumptions
`CodecAssumption` and `ObjectRetentionAssumption`:

* Sentinels are distinct: `Nil`, `Empty` and `Truncated` differ from every
  mode and document.
* The valid names are a subset of the names.
* `PutOkCodes` is a subset of {200, 204}.

Each bucket-encryption theorem rests on `BucketEncryptionAssumption`: the
valid buckets are buckets, `Nil` and `Truncated` are not configurations,
and `SetOkCodes` and `RemoveOkCodes` are non-empty subsets of {200, 204}.

Every step proof has the same layout: one lemma or step per action of
`Next`, for a fixed caller, and a final step that picks the caller of the
step and the action it takes.

### `TypeCorrect == Spec => []TypeOK`

`TypeOK` alone is not inductive. `GetOutcome` decodes a 200 body, so the
proof needs that body to be a document. It strengthens `TypeOK` to
`TypeInv`, which adds:

* `ReqInv`: a request in flight belongs to a waiting call of the same
  operation, and a PUT carries a document.
* `RespInv`: a response belongs to a waiting call whose request was consumed,
  and a non-error 200 response to a GET carries a document unless it was
  truncated.
* `WaitInv`: a waiting call passed the name checks, so the version it acts
  on is a target of the store.

TLC checked `TypeInv` on both input sets before it was proved. The proof
takes one step per action, with lemmas for `newObjectRetention` and
`xml.Marshal` (the encoded body is a document) and for decoding.

### `PutOutcomeCorrect == Spec => []PutOutcomeExact` (in `ObjectRetentionOutcome`)

The inductive invariant is `IInv == TypeInv /\ ExactInv /\ PutOutcomeExact`.
`ExactInv` says:

* a PUT still in flight has not been applied;
* a non-error response to a PUT has status 200 or 204 exactly when the store
  applied it.

This is the argument the code relies on:

* `applied` is set only when the store answers with a success code.
* A lost response turns into a transport error.
* The status check maps {200, 204} to success.

### `LockRefinementCorrect == Spec => LockRefinement` (in `ObjectRetentionRefinement`)

This proves that `ObjectRetention` implements `RetentionLock` for every
instance. The layout follows the usual refinement proof:

* `Init => Lock!Init`.
* `RInv /\ [Next]_vars => [Lock!Next]_<<ret, acked>>` (lemma `LockStep`):
  * a served PUT the store allows is `SetMode`;
  * a PUT return that acknowledges COMPLIANCE is `Acknowledge`;
  * every other step leaves `ret` and `acked` unchanged.
* `RInv` is inductive.

`RInv == IInv /\ LockInv`. `LockInv` says:

* A COMPLIANCE PUT in flight asks for COMPLIANCE on the version its call
  named. This is `versionId` or, when the id is empty, the current version.
* An applied PUT names a version of the store. If it asked for COMPLIANCE,
  that version is in COMPLIANCE.
* Every acknowledged version is in COMPLIANCE.

`Acknowledge` requires the version to be in COMPLIANCE. The proof gets that
from `ExactInv`: a PUT reported "ok" was applied. The second clause of
`LockInv` then gives the version's mode. A version stays in COMPLIANCE
because the store's `Allowed` lets COMPLIANCE go only to COMPLIANCE (lemma
`ComplianceTerminal`). TLC checked `RInv` as an invariant before it was
proved: 2,200,503 states, with a bogus mode among the inputs.

### `ComplianceLockVisibleCorrect == Spec => []ComplianceLockVisible` (in `ObjectRetentionVisible`)

`ComplianceLockVisible` speaks of a returned GET. It says nothing of the
request and response of a GET still in flight, so it is not inductive. The
inductive invariant is `VInv == RInv /\ VisibleInv /\ ComplianceLockVisible`.
`VisibleInv` says that a waiting GET sent after a COMPLIANCE lock was
acknowledged on its version:

* names an acknowledged version;
* has a request, if one is in flight, that reaches that version;
* has a response, if any, that is an error, or a 200 with the locked
  document or a truncated body.

The last clause needs `LockInv`: an acknowledged version is in COMPLIANCE,
and it stays there. Lemma `LockedOutcome` shows that `GetOutcome` of such a
response is a transport or decode error, or COMPLIANCE. TLC checked `VInv`
as an invariant of `retention_valid` before it was proved.

### `GovernanceBypassCorrect == Spec => GovernanceRemovedOnlyByBypass` (in `ObjectRetentionBypass`)

This is an action property. It is proved from the invariant `BypassInv`:
a PUT in flight carries the bypass header exactly when its call's
`GovernanceBypass` was set. The step lemma `BypassStepNext` shows that
every step satisfies the property's action:

* `ServePutRetention` takes GOVERNANCE to NONE only when the store's
  `Allowed` sees the header, and `BypassInv` ties the header to the flag.
* Every other action leaves `ret` unchanged.

### `TypeCorrect == Spec => []TypeOK` (in `BucketEncryptionProofs`)

As for object retention, `TypeOK` is strengthened to `TypeInv`:

* `ReqInv`: a request in flight belongs to a waiting call. It has the
  method of the call's operation and names the call's bucket.
* `RespInv`: a response belongs to a waiting call whose request was
  consumed.
* `WaitInv`: a waiting call passed the bucket-name check.

### `EncryptionReadHeldCorrect == Spec => []EncryptionReadHeld` (in `BucketEncryptionOutcome`)

The inductive invariant is `HInv == TypeInv /\ HeldInv /\ EncryptionReadHeld`.
`HeldInv` says that a waiting GET:

* counts the bucket's current configuration among those it has seen
  (`held`);
* has an answer, if one is not an error, that is one it has seen. A 200
  carries a held configuration or a truncated body, and a 404 means that
  `Nil` was held.

It is needed because `EncryptionReadHeld` speaks only of a returned call.
A store write adds its value to `held` of every waiting call on the bucket.
That keeps the first clause true, while `ServeGet` answers with
`enc[bucket]`. TLC checked `HInv` on the `encryption` instance
(1,533,856 states) before it was proved.

### `EncryptionOutcomeExactCorrect` (in `BucketEncryptionExact`)

`ASSUME SetOkCodes = {200} PROVE Spec => []EncryptionOutcomeExact`.

The hypothesis is needed, not a convenience. The run `encryption_set204`
shows that the property fails when the store may answer 204 to a SET (see
finding 3). RemoveOkCodes stays any non-empty subset of {200, 204}, because
`RemoveOutcome` accepts both.

The inductive invariant is `EInv == TypeInv /\ ExactAll`, where `ExactAll`
says `ExactAt(c) /\ OutAt(c)` for every caller `c`. `OutAt(c)` is the
property for caller `c`. `ExactAt(c)` says that a waiting
SET or REMOVE:

* has not been carried out while its request is in flight;
* has been carried out, if it has a non-error answer, and that answer has
  one of the store's success codes for the operation.

`SetOutcome` and `RemoveOutcome` then report "ok" only when `applied` holds.
They report "service" only for a status outside the success codes, and no
such answer exists. TLC checked `EInv` on the `encryption` instance before
it was proved.

### What is only model-checked

These properties are checked by TLC only, on the instances above:

* The codec's round trip (`PutBodyRoundTrip`). It is checked on every
  PUT body the `retention_inputs` instance sends.
* No liveness is stated. Liveness and `ENABLED` would in any case be beyond
  what TLAPS can prove.
* `EncryptionOutcomeExact` when SET may be answered with 204. There it is
  violated, as the run `encryption_set204` shows.

## Not modelled

* **Inside `executeMethod`:** retries, signing, redirects, region lookup and
  bucket-location caching. These are not under `src/`. Only their
  observable outcomes are modelled: a response, or an error, before or after
  the store acted.
* **Formatting and I/O:** request metadata, MD5/SHA sums, URL escaping and
  `httpRespToErrorResponse` wording.
* **Encryption rules:** the content of an `sse.Configuration`, and an
  `xml.Marshal` failure of one.
* **RetainUntilDate in the store:** the store keeps only the mode. Expiry of
  a retention period is not modelled.
* **`executeMethod` returning `(nil, nil)`:** that would panic at
  part_000:180 and api-bucket-encryption.go:77. Spec section 6 excludes it,
  so the model's transport never returns it.

## Plan for later work

1. Prove that `BucketEncryption` implements an abstract register
   specification of a bucket's configuration, with `held` as the witness
   of linearizability.
2. If `executeMethod` comes under `src/` with its context deadline,
   state that every call returns under the fairness that deadline gives.
3. Model the retain-until date in the store and the GOVERNANCE date rules.
4. If retries inside `executeMethod` come under `src/`, model them: an
   applied PUT retried after another caller's COMPLIANCE gets a 403 (see the
   hazards).
