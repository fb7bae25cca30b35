--------------------------- MODULE ObjectRetention ---------------------------
(***************************************************************************)
(* PutObjectRetention and GetObjectRetention (src/unnamed/part_000) issued *)
(* concurrently by several goroutines sharing one Client, against the      *)
(* remote store that holds the retention mode of each object version.      *)
(*                                                                         *)
(* Each call is two actions: the part before c.executeMethod (validation,  *)
(* building and sending the request), and the part after it (classifying  *)
(* the outcome).  Between them the store serves the request and the       *)
(* transport may fail: the request is lost or the context cancelled before *)
(* the store sees it, the response is lost after the store applied it, or  *)
(* the body of a GET response breaks off while it is decoded.              *)
(*                                                                         *)
(* The store and the transport are not code of this repository: they are  *)
(* written from the spec (section 4.4, the retention mode state machine,   *)
(* and section 6, the status codes).  The store keeps the mode of each     *)
(* version; the retain-until date travels in the documents but the store's *)
(* rules about it are out of scope.                                        *)
(***************************************************************************)
EXTENDS RetentionCodec

CONSTANTS
    Callers,        \* goroutines calling the shared Client
    Buckets,        \* bucket names callers pass
    ValidBuckets,   \* those s3utils.CheckValidBucketName accepts
    Objects,        \* object names callers pass
    ValidObjects,   \* those s3utils.CheckValidObjectName accepts
    Versions,       \* version ids of every object
    CurrentVersion, \* the version an empty VersionID designates
    ModeInputs,     \* values callers pass as opts.Mode (Nil for none)
    DateInputs,     \* values callers pass as opts.RetainUntilDate
    PutOkCodes,     \* statuses the store answers an accepted PUT with
    MaxCalls,       \* bound on the number of calls in a behaviour
    Truncated       \* a response body that broke off while being read

NoVersion == Empty  \* opts.VersionID left empty

ASSUME ObjectRetentionAssumption ==
    /\ ValidBuckets \subseteq Buckets
    /\ ValidObjects \subseteq Objects
    /\ CurrentVersion \in Versions
    /\ NoVersion \notin Versions
    /\ ModeInputs \subseteq RetentionMode \cup {Nil, "BOGUS"}
    /\ DateInputs \subseteq Time \cup {Nil}
    /\ PutOkCodes \subseteq {200, 204} /\ PutOkCodes # {}
    /\ MaxCalls \in Nat
    /\ Truncated \notin Document \cup {Nil}

-----------------------------------------------------------------------------
(* Values *)

\* Retention state of a version at the store.
StoreMode == RetentionMode \cup {"NONE"}
Targets == ValidBuckets \X ValidObjects \X Versions

\* A caller's call and its arguments.
Call == [op : {"PutRet", "GetRet"}, bucket : Buckets, object : Objects,
         version : Versions \cup {NoVersion}, mode : ModeInputs \cup {Nil},
         date : DateInputs \cup {Nil}, bypass : BOOLEAN]

\* The request c.executeMethod sends: method, bucket, object, the versionId
\* query parameter (NoVersion when absent), the body document (Nil for
\* none) and whether the bypass-governance header is present.
Request == [method : {"PUT", "GET"}, bucket : ValidBuckets, object : ValidObjects,
            versionId : Versions \cup {NoVersion}, body : Document \cup {Nil},
            bypass : BOOLEAN]

\* A transport outcome: a transport error, or a status and a body that is
\* a document, Nil or broken off (Truncated).
Statuses == {200, 204, 403, 404}
Response == [err : BOOLEAN, status : Statuses \cup {0}, body : Document \cup {Nil, Truncated}]
TransportError == [err |-> TRUE, status |-> 0, body |-> Nil]

\* What a call returns to its caller.
Kinds == {"ok", "validation", "encode", "transport", "service", "decode"}
Result == [kind : Kinds, status : Statuses \cup {0},
           mode : RetentionMode \cup {Empty, Nil}, date : Time \cup {Nil}]
Fail(kind, status) == [kind |-> kind, status |-> status, mode |-> Nil, date |-> Nil]

-----------------------------------------------------------------------------
VARIABLES
    ret,          \* store: retention mode of each version
    pc,           \* "idle" or "wait" (blocked in c.executeMethod)
    call,         \* the caller's current or last call
    req,          \* request in flight for the caller, or Nil
    resp,         \* transport outcome awaiting the caller, or Nil
    result,       \* what the caller's last call returned, or Nil
    calls,        \* number of calls started
    applied,      \* history: the store accepted this call's PUT
    acked,        \* history: versions a PUT of COMPLIANCE was acknowledged on
    lockedAtSend  \* history: this GET was sent after such an acknowledgement

vars == <<ret, pc, call, req, resp, result, calls, applied, acked, lockedAtSend>>

TypeOK ==
    /\ ret \in [Targets -> StoreMode]
    /\ pc \in [Callers -> {"idle", "wait"}]
    /\ call \in [Callers -> Call \cup {Nil}]
    /\ req \in [Callers -> Request \cup {Nil}]
    /\ resp \in [Callers -> Response \cup {Nil}]
    /\ result \in [Callers -> Result \cup {Nil}]
    /\ calls \in 0..MaxCalls
    /\ applied \in [Callers -> BOOLEAN]
    /\ acked \subseteq Targets
    /\ lockedAtSend \in [Callers -> BOOLEAN]

Init ==
    /\ ret = [t \in Targets |-> "NONE"]
    /\ pc = [c \in Callers |-> "idle"]
    /\ call = [c \in Callers |-> Nil]
    /\ req = [c \in Callers |-> Nil]
    /\ resp = [c \in Callers |-> Nil]
    /\ result = [c \in Callers |-> Nil]
    /\ calls = 0
    /\ applied = [c \in Callers |-> FALSE]
    /\ acked = {}
    /\ lockedAtSend = [c \in Callers |-> FALSE]

\* The version a version id designates.
Resolve(v) == IF v = NoVersion THEN CurrentVersion ELSE v
\* The version a caller's call is about, and the one a request reaches.
Intended(cl) == <<cl.bucket, cl.object, Resolve(cl.version)>>
Reached(r) == <<r.bucket, r.object, Resolve(r.versionId)>>

\* s3utils.CheckValidBucketName and CheckValidObjectName.
NamesValid(b, o) == b \in ValidBuckets /\ o \in ValidObjects

-----------------------------------------------------------------------------
(* The client: src/unnamed/part_000 *)

\* A caller starts a call.
StartCall(c, cl) ==
    /\ pc[c] = "idle"
    /\ calls < MaxCalls
    /\ calls' = calls + 1
    /\ call' = [call EXCEPT ![c] = cl]
    /\ applied' = [applied EXCEPT ![c] = FALSE]

\* The call blocks in c.executeMethod with request r.
Send(c, r) ==
    /\ req' = [req EXCEPT ![c] = r]
    /\ pc' = [pc EXCEPT ![c] = "wait"]
    /\ result' = [result EXCEPT ![c] = Nil]

\* The call returns before any request is sent.
ReturnEarly(c, kind) ==
    /\ result' = [result EXCEPT ![c] = Fail(kind, 0)]
    /\ UNCHANGED <<req, pc>>

\* Mutant: the versionId parameter is never set.
PutRetentionRequestNoVersion(b, o, v, doc, bypass) ==
    [method |-> "PUT", bucket |-> b, object |-> o, versionId |-> NoVersion,
     body |-> doc, bypass |-> bypass]

\* Mutant: the bypass header is set whatever GovernanceBypass says.
PutRetentionRequestAlwaysBypass(b, o, v, doc, bypass) ==
    [method |-> "PUT", bucket |-> b, object |-> o, versionId |-> v,
     body |-> doc, bypass |-> TRUE]

\* The request PutObjectRetention builds: the versionId parameter only for
\* a non-empty VersionID, the bypass header only when GovernanceBypass is set.
PutRetentionRequest(b, o, v, doc, bypass) ==
    [method |-> "PUT", bucket |-> b, object |-> o, versionId |-> v,
     body |-> doc, bypass |-> bypass]

\* PutObjectRetention up to c.executeMethod: name checks, newObjectRetention,
\* xml.Marshal, headers, send.
PutObjectRetention(c, b, o, v, m, d, bypass) ==
    LET nr == NewObjectRetention(m, d)
        mr == MarshalRetention(nr.val)
    IN
    /\ StartCall(c, [op |-> "PutRet", bucket |-> b, object |-> o, version |-> v,
                     mode |-> m, date |-> d, bypass |-> bypass])
    /\ IF ~NamesValid(b, o) \/ nr.err THEN ReturnEarly(c, "validation")
       ELSE IF mr.err THEN ReturnEarly(c, "encode")
       ELSE Send(c, PutRetentionRequest(b, o, v, mr.doc, bypass))
    /\ UNCHANGED <<ret, resp, acked, lockedAtSend>>

\* Mutant: 204 No Content is taken for an error.
PutOutcomeOnly200(r) ==
    IF r.err THEN Fail("transport", 0)
    ELSE IF r.status # 200 THEN Fail("service", r.status)
    ELSE [kind |-> "ok", status |-> r.status, mode |-> Nil, date |-> Nil]

\* How PutObjectRetention classifies the outcome of c.executeMethod.
PutOutcome(r) ==
    IF r.err THEN Fail("transport", 0)
    ELSE IF r.status \notin {200, 204} THEN Fail("service", r.status)
    ELSE [kind |-> "ok", status |-> r.status, mode |-> Nil, date |-> Nil]

\* PutObjectRetention after c.executeMethod returns.
PutObjectRetentionReturn(c) ==
    LET out == PutOutcome(resp[c]) IN
    /\ pc[c] = "wait"
    /\ call[c].op = "PutRet"
    /\ resp[c] # Nil
    /\ result' = [result EXCEPT ![c] = out]
    /\ pc' = [pc EXCEPT ![c] = "idle"]
    /\ resp' = [resp EXCEPT ![c] = Nil]
    /\ acked' = IF out.kind = "ok" /\ call[c].mode = "COMPLIANCE"
                THEN acked \cup {Intended(call[c])}
                ELSE acked
    /\ UNCHANGED <<ret, call, req, calls, applied, lockedAtSend>>

\* The request GetObjectRetention builds.
GetRetentionRequest(b, o, v) ==
    [method |-> "GET", bucket |-> b, object |-> o, versionId |-> v,
     body |-> Nil, bypass |-> FALSE]

\* GetObjectRetention up to c.executeMethod.
GetObjectRetention(c, b, o, v) ==
    LET cl == [op |-> "GetRet", bucket |-> b, object |-> o, version |-> v,
               mode |-> Nil, date |-> Nil, bypass |-> FALSE]
    IN
    /\ StartCall(c, cl)
    /\ IF NamesValid(b, o)
       THEN /\ Send(c, GetRetentionRequest(b, o, v))
            /\ lockedAtSend' = [lockedAtSend EXCEPT ![c] = Intended(cl) \in acked]
       ELSE /\ ReturnEarly(c, "validation")
            /\ UNCHANGED lockedAtSend
    /\ UNCHANGED <<ret, resp, acked>>

\* How GetObjectRetention classifies the outcome and decodes the body.
GetOutcome(r) ==
    IF r.err THEN Fail("transport", 0)
    ELSE IF r.status # 200 THEN Fail("service", r.status)
    ELSE IF r.body = Truncated THEN Fail("decode", 0)
    ELSE LET g == GetObjectRetentionResult(DecodeRetention(r.body))
         IN  [kind |-> "ok", status |-> 200, mode |-> g.mode, date |-> g.date]

\* GetObjectRetention after c.executeMethod returns.
GetObjectRetentionReturn(c) ==
    /\ pc[c] = "wait"
    /\ call[c].op = "GetRet"
    /\ resp[c] # Nil
    /\ result' = [result EXCEPT ![c] = GetOutcome(resp[c])]
    /\ pc' = [pc EXCEPT ![c] = "idle"]
    /\ resp' = [resp EXCEPT ![c] = Nil]
    /\ UNCHANGED <<ret, call, req, calls, applied, acked, lockedAtSend>>

-----------------------------------------------------------------------------
(* The store and the transport (spec sections 4.4 and 6) *)

\* The mode a PUT body asks for.
Requested(doc) == IF doc.Mode = Nil THEN "NONE" ELSE doc.Mode

\* Spec 4.4: NONE may take any mode; GOVERNANCE may be escalated, and
\* removed or lowered only with the bypass header; COMPLIANCE is terminal.
Allowed(cur, new, bypass) ==
    \/ cur = "NONE"
    \/ cur = "GOVERNANCE" /\ (new \in RetentionMode \/ bypass)
    \/ cur = "COMPLIANCE" /\ new = "COMPLIANCE"

\* The store serves a PUT ?retention atomically.
ServePutRetention(c) ==
    LET r == req[c]
        t == Reached(r)
        new == Requested(r.body)
    IN
    /\ r # Nil
    /\ r.method = "PUT"
    /\ req' = [req EXCEPT ![c] = Nil]
    /\ IF Allowed(ret[t], new, r.bypass)
       THEN \E s \in PutOkCodes :
              /\ ret' = [ret EXCEPT ![t] = new]
              /\ resp' = [resp EXCEPT ![c] = [err |-> FALSE, status |-> s, body |-> Nil]]
              /\ applied' = [applied EXCEPT ![c] = TRUE]
       ELSE /\ resp' = [resp EXCEPT ![c] = [err |-> FALSE, status |-> 403, body |-> Nil]]
            /\ UNCHANGED <<ret, applied>>
    /\ UNCHANGED <<pc, call, result, calls, acked, lockedAtSend>>

\* The store serves a GET ?retention: NoSuchObjectLockConfiguration (404)
\* for a version without retention, else the <Retention> document.
ServeGetRetention(c) ==
    LET r == req[c]
        m == ret[Reached(r)]
    IN
    /\ r # Nil
    /\ r.method = "GET"
    /\ req' = [req EXCEPT ![c] = Nil]
    /\ resp' = [resp EXCEPT ![c] =
                  IF m = "NONE"
                  THEN [err |-> FALSE, status |-> 404, body |-> Nil]
                  ELSE [err |-> FALSE, status |-> 200,
                        body |-> [Mode |-> m, RetainUntilDate |-> Nil]]]
    /\ UNCHANGED <<ret, pc, call, result, calls, applied, acked, lockedAtSend>>

\* The request is lost, or the context is cancelled, before the store sees it.
DropRequest(c) ==
    /\ req[c] # Nil
    /\ req' = [req EXCEPT ![c] = Nil]
    /\ resp' = [resp EXCEPT ![c] = TransportError]
    /\ UNCHANGED <<ret, pc, call, result, calls, applied, acked, lockedAtSend>>

\* The response is lost, or the context is cancelled, after the store served.
LoseResponse(c) ==
    /\ resp[c] # Nil
    /\ ~resp[c].err
    /\ resp' = [resp EXCEPT ![c] = TransportError]
    /\ UNCHANGED <<ret, pc, call, req, result, calls, applied, acked, lockedAtSend>>

\* The body of a 200 response to a GET breaks off while it is read.
TruncateBody(c) ==
    /\ resp[c] # Nil
    /\ ~resp[c].err
    /\ resp[c].status = 200
    /\ resp[c].body \in Document
    /\ resp' = [resp EXCEPT ![c].body = Truncated]
    /\ UNCHANGED <<ret, pc, call, req, result, calls, applied, acked, lockedAtSend>>

-----------------------------------------------------------------------------
\* Every call has been made and has returned.
Finished ==
    /\ calls = MaxCalls
    /\ \A c \in Callers : pc[c] = "idle"
    /\ UNCHANGED vars

Next ==
    \/ \E c \in Callers :
          \/ \E b \in Buckets, o \in Objects, v \in Versions \cup {NoVersion} :
                \/ \E m \in ModeInputs \cup {Nil}, d \in DateInputs \cup {Nil},
                      bypass \in BOOLEAN :
                      PutObjectRetention(c, b, o, v, m, d, bypass)
                \/ GetObjectRetention(c, b, o, v)
          \/ PutObjectRetentionReturn(c)
          \/ GetObjectRetentionReturn(c)
          \/ ServePutRetention(c)
          \/ ServeGetRetention(c)
          \/ DropRequest(c)
          \/ LoseResponse(c)
          \/ TruncateBody(c)
    \/ Finished

Spec == Init /\ [][Next]_vars

-----------------------------------------------------------------------------
(* Properties *)

\* The caller's last call has returned.
Returned(c) == pc[c] = "idle" /\ result[c] # Nil

\* PutObjectRetention reports success only for a PUT the store accepted,
\* and a service error only for one the store refused: a caller who gets a
\* service error may take it that nothing changed, and an ambiguous outcome
\* (applied, then the response lost) is only ever a transport error.
PutOutcomeExact ==
    \A c \in Callers :
        Returned(c) /\ call[c].op = "PutRet" =>
            /\ result[c].kind = "ok" => applied[c]
            /\ result[c].kind = "service" => ~applied[c]

\* Once PutObjectRetention has acknowledged a COMPLIANCE lock on a version,
\* every GetObjectRetention of that version sent later that gets an answer
\* from the store reports the COMPLIANCE mode: never "no configuration"
\* (404) and never another mode (spec 4.4: COMPLIANCE is terminal).
ComplianceLockVisible ==
    \A c \in Callers :
        /\ Returned(c)
        /\ call[c].op = "GetRet"
        /\ lockedAtSend[c]
        /\ result[c].kind \in {"ok", "service"}
        => result[c].kind = "ok" /\ result[c].mode = "COMPLIANCE"

\* Spec section 8's round trip, on what is sent: the body of every PUT
\* ?retention in flight, marshalled by PutObjectRetention, decodes (as
\* GetObjectRetention decodes a <Retention> document) to exactly the
\* configuration newObjectRetention built from its caller's options,
\* whenever those are constructible (a date unset or a UTC instant).  An
\* unset mode is omitted and comes back as ""; a UTC date comes back UTC.
PutBodyRoundTrip ==
    \A c \in Callers :
        /\ req[c] # Nil
        /\ req[c].method = "PUT"
        /\ call[c].date \in {Nil} \cup ConstructibleDates
        => DecodeRetention(req[c].body) = Constructed(call[c].mode, call[c].date)

\* The abstract retention lock, with the store's modes as its modes and the
\* versions a COMPLIANCE PUT was acknowledged on as its locked versions.
Lock == INSTANCE RetentionLock WITH mode <- ret, locked <- acked

\* ObjectRetention implements RetentionLock: every step of the callers, the
\* store and the transport changes at most one version's mode, never takes
\* a version out of COMPLIANCE, and PutObjectRetention reports a COMPLIANCE
\* lock as done only for the version it named (versionId or the current
\* version) and only once that version is locked.
LockRefinement == Lock!Spec

\* A version loses its GOVERNANCE mode only in a step where the store
\* serves a PUT of that version that carries the bypass-governance header,
\* sent by a caller whose PutObjectRetention set GovernanceBypass: no
\* caller removes another's GOVERNANCE retention without asking to.
GovernanceRemovedOnlyByBypass ==
    [][\A t \in Targets :
          ret[t] = "GOVERNANCE" /\ ret'[t] = "NONE" =>
              \E c \in Callers :
                  /\ req[c] # Nil /\ req[c].method = "PUT"
                  /\ Reached(req[c]) = t
                  /\ req[c].bypass /\ call[c].bypass]_vars

\* Spec 4.3: the bypass-governance header is never sent with a request
\* whose intent is a COMPLIANCE lock.
NoBypassForCompliance ==
    \A c \in Callers :
        req[c] # Nil /\ req[c].method = "PUT" /\ req[c].bypass =>
            req[c].body.Mode # "COMPLIANCE"
=============================================================================
