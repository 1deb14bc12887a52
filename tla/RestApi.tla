------------------------------- MODULE RestApi -------------------------------
(***************************************************************************)
(* The REST handlers of server.go on one router name.  They run side by    *)
(* side, and with the operator: a handler is cut at its calls.  Get and    *)
(* List read the informer cache, which lags; Create, Update, Patch and     *)
(* Delete go to the API server.  Update is made from the copy that Get     *)
(* returned and carries its resource version; Patch and Delete go by name. *)
(*                                                                         *)
(* What the operator does to the router is here what it may do to it: see  *)
(* Reconciler for when it does.                                            *)
(***************************************************************************)
EXTENDS FiniteSets

CONSTANTS
    Requests,       \* requests handled at the same time
    Fields,         \* fields of TelemetryRouterSpec
    Values,         \* what a field may hold
    Unset           \* the field of a router that is not there

ASSUME FieldsAssumption == Fields # {} /\ IsFiniteSet(Fields)
ASSUME ValuesAssumption == Unset \notin Values

VARIABLES
    router,         \* the router of that name on the API server
    cache,          \* what the informer holds
    fresh,          \* is the cached copy the server's version?
    request         \* request[r]: the request in slot r and its answer

vars == <<router, cache, fresh, request>>

-----------------------------------------------------------------------------
Specs == [Fields -> Values]
Patches == UNION {[S -> Values] : S \in SUBSET Fields}

Router == [exists : BOOLEAN, deleting : BOOLEAN, finalizer : BOOLEAN,
           spec : [Fields -> Values \cup {Unset}]]

NoRouter == [exists |-> FALSE, deleting |-> FALSE, finalizer |-> FALSE,
             spec |-> [f \in Fields |-> Unset]]

\* GET stands for the list, too.
Methods == {"GET", "POST", "PUT", "PATCH", "DELETE"}
Writes == {"POST", "PUT", "PATCH"}

\* 400 stands for 405 as well: the request does not get past its checks.
Codes == {"200", "201", "400", "404", "409", "500"}

\* `current`: is the copy in hand still the server's version?
Request == [pc : {"idle", "received", "write", "answered"},
            method : Methods, body : Patches,
            copy : Router, current : BOOLEAN,
            code : Codes, reply : [Fields -> Values \cup {Unset}]]

NoBody == [f \in {} |-> Unset]

NoRequest == [pc |-> "idle", method |-> "GET", body |-> NoBody,
              copy |-> NoRouter, current |-> FALSE, code |-> "500",
              reply |-> NoRouter.spec]

-----------------------------------------------------------------------------
Handles(r, method) == request[r].pc = "received" /\ request[r].method = method

\* The request in slot r with its answer.
Answered(r, code, reply) ==
    [NoRequest EXCEPT !.pc = "answered", !.method = request[r].method,
                      !.code = code, !.reply = reply]

\* The handler answers and the router stays as it is.
Answer(r, code, reply) ==
    /\ request' = [request EXCEPT ![r] = Answered(r, code, reply)]
    /\ UNCHANGED <<router, cache, fresh>>

\* The answer to an error.
Fails(r, code) == Answer(r, code, NoRouter.spec)

\* Every copy of the router, cached or in hand, is out of date.
OutdateRequests ==
    [q \in Requests |-> [request[q] EXCEPT !.current = FALSE]]

\* A write of the handler takes effect.  One that changes nothing leaves the
\* resource version alone; whether the handler hears of its success is open.
Store(r, new, code, reply) ==
    \E told \in BOOLEAN :
        LET done == IF told THEN Answered(r, code, reply)
                            ELSE Answered(r, "500", NoRouter.spec)
        IN
        /\ router' = new
        /\ UNCHANGED cache
        /\ IF new = router
           THEN UNCHANGED fresh /\ request' = [request EXCEPT ![r] = done]
           ELSE fresh' = FALSE /\ request' = [OutdateRequests EXCEPT ![r] = done]

-----------------------------------------------------------------------------
(* The handlers. *)

\* A client sends its next request; POST and PUT carry a whole spec.
Send(r) ==
    /\ request[r].pc \in {"idle", "answered"}
    /\ \E method \in Methods, body \in Patches :
          /\ method \in {"POST", "PUT"} => body \in Specs
          /\ method \in {"GET", "DELETE"} => body = NoBody
          /\ request' = [request EXCEPT ![r] =
                [NoRequest EXCEPT !.pc = "received", !.method = method,
                                  !.body = body]]
    /\ UNCHANGED <<router, cache, fresh>>

\* No name, a body that is not JSON or a method that is not served.
Refuse(r) == request[r].pc = "received" /\ Fails(r, "400")

\* A call fails without effect: the caches are not started, the API server
\* rejects the spec or cannot be reached.
CallFails(r) == request[r].pc \in {"received", "write"} /\ Fails(r, "500")

GetRouter(r) ==
    /\ Handles(r, "GET")
    /\ IF cache.exists THEN Answer(r, "200", cache.spec) ELSE Fails(r, "404")

CreateRouter(r) ==
    LET new == [NoRouter EXCEPT !.exists = TRUE, !.spec = request[r].body] IN
    /\ Handles(r, "POST")
    /\ IF router.exists THEN Fails(r, "409")
                        ELSE Store(r, new, "201", new.spec)

\* The Get with which updateRouter and deleteRouter begin.
ReadCopy(r) ==
    /\ Handles(r, "PUT") \/ Handles(r, "DELETE")
    /\ IF ~cache.exists THEN Fails(r, "404")
       ELSE /\ request' = [request EXCEPT ![r].pc = "write",
                                          ![r].copy = cache,
                                          ![r].current = fresh]
            /\ UNCHANGED <<router, cache, fresh>>

\* Mutant of Accepts: an Update without a resource version.
Accepts_NoVersion(r) == router.exists

Accepts(r) == request[r].current

\* Update sends the whole copy, its finalizers included.  A conflict is an
\* error like any other.
UpdateRouter(r) ==
    LET new == [router EXCEPT !.spec = request[r].body,
                              !.finalizer = request[r].copy.finalizer]
    IN
    /\ request[r].pc = "write" /\ request[r].method = "PUT"
    /\ IF Accepts(r) THEN Store(r, new, "200", new.spec) ELSE Fails(r, "500")

\* Mutants of Merged: the patch replaces the spec; it is merged into the
\* cached copy.
Merged_Replaced(patch) == patch
Merged_Cached(patch) ==
    [f \in Fields |-> IF f \in DOMAIN patch THEN patch[f] ELSE cache.spec[f]]

\* The API server merges the patch into the spec it holds.
Merged(patch) ==
    [f \in Fields |-> IF f \in DOMAIN patch THEN patch[f] ELSE router.spec[f]]

\* Mutant of PatchReply: the handler reads the router again.
PatchReply_FollowUpGet(new) == cache.spec

PatchReply(new) == new.spec

PatchRouter(r) ==
    LET new == [router EXCEPT !.spec = Merged(request[r].body)] IN
    /\ Handles(r, "PATCH")
    /\ IF router.exists THEN Store(r, new, "200", PatchReply(new))
                        ELSE Fails(r, "404")

\* Delete goes by name, whatever router has it now.
DeleteRouter(r) ==
    LET new == IF router.finalizer THEN [router EXCEPT !.deleting = TRUE]
                                   ELSE NoRouter
    IN
    /\ request[r].pc = "write" /\ request[r].method = "DELETE"
    /\ IF router.exists THEN Store(r, new, "200", NoRouter.spec)
                        ELSE Fails(r, "500")

-----------------------------------------------------------------------------
(* The operator and the informer. *)

OperatorWrites(new) ==
    /\ router' = new
    /\ fresh' = FALSE
    /\ request' = OutdateRequests
    /\ UNCHANGED cache

AddFinalizer ==
    /\ router.exists /\ ~router.deleting /\ ~router.finalizer
    /\ OperatorWrites([router EXCEPT !.finalizer = TRUE])

\* The status is not here; its resource version is.
WriteStatus == router.exists /\ OperatorWrites(router)

RemoveFinalizer ==
    /\ router.exists /\ router.deleting /\ router.finalizer
    /\ OperatorWrites(NoRouter)

InformerCatchesUp ==
    /\ ~fresh
    /\ cache' = router
    /\ fresh' = TRUE
    /\ UNCHANGED <<router, request>>

-----------------------------------------------------------------------------
Init ==
    /\ router = NoRouter
    /\ cache = NoRouter
    /\ fresh = TRUE
    /\ request = [r \in Requests |-> NoRequest]

Handler(r) ==
    \/ Refuse(r) \/ CallFails(r)
    \/ GetRouter(r) \/ CreateRouter(r) \/ ReadCopy(r)
    \/ UpdateRouter(r) \/ PatchRouter(r) \/ DeleteRouter(r)

Operator == AddFinalizer \/ WriteStatus \/ RemoveFinalizer

Next ==
    \/ \E r \in Requests : Send(r) \/ Handler(r)
    \/ Operator
    \/ InformerCatchesUp

Spec == Init /\ [][Next]_vars

-----------------------------------------------------------------------------
TypeOK ==
    /\ router \in Router
    /\ cache \in Router
    /\ fresh \in BOOLEAN
    /\ request \in [Requests -> Request]

\* What the copies are worth: one that is said to be current is the router
\* itself.  (With TypeOK the inductive invariant of RestApi_proofs.)
InHand ==
    /\ fresh => cache = router
    /\ \A r \in Requests : request[r].current => request[r].copy = router

\* POST and PUT carry a whole spec, and only a PUT or a DELETE is cut in two.
WholeBodies ==
    \A r \in Requests :
        /\ request[r].method \in {"POST", "PUT"}
              => request[r].pc = "answered" \/ request[r].body \in Specs
        /\ request[r].pc = "write" => request[r].method \in {"PUT", "DELETE"}

Absent == router.exists \/ ~router.finalizer

IInv == TypeOK /\ InHand /\ WholeBodies /\ Absent

\* A router keeps the operator's finalizer until it is being deleted, whatever
\* a PUT sends that was made from an older copy (server.go:207-211): otherwise
\* a delete would not drain Vector.
FinalizerKept ==
    [][ router.finalizer /\ ~router'.finalizer => router.deleting ]_vars

\* Of two writes side by side neither undoes the other: a field of a router
\* changes only when a request that names the field is served, and to the value
\* that it gives (server.go:219-252).
FieldsByTheirWriters ==
    [][ \A f \in Fields :
          router.exists /\ router'.exists /\ router'.spec[f] # router.spec[f]
            => \E r \in Requests :
                 /\ request[r].pc \in {"received", "write"}
                 /\ request'[r].pc = "answered"
                 /\ f \in DOMAIN request[r].body
                 /\ router'.spec[f] = request[r].body[f] ]_vars

\* The answer to a write that succeeds shows what it has written, however far
\* the informer lags (server.go:235-238).
ReplyShowsTheWrite ==
    [][ \A r \in Requests :
          request[r].pc \in {"received", "write"}
            /\ request[r].method \in Writes
            /\ request'[r].pc = "answered"
            /\ request'[r].code \in {"200", "201"}
          => \A f \in DOMAIN request[r].body :
                request'[r].reply[f] = request[r].body[f] ]_vars
=============================================================================
