---------------------------- MODULE RestApi_proofs ----------------------------
(***************************************************************************)
(* Theorems of RestApi.  They rest on InHand: a copy that is said to be    *)
(* current is the router itself, and an informer that is up to date holds  *)
(* the router itself.                                                      *)
(***************************************************************************)
EXTENDS RestApi, TLAPS

LEMMA WholeSpecs == Specs \subseteq Patches
BY DEF Specs, Patches

LEMMA PatchValues ==
    ASSUME NEW patch \in Patches, NEW f \in DOMAIN patch
    PROVE  f \in Fields /\ patch[f] \in Values
BY DEF Patches

LEMMA EmptyBody == NoBody \in Patches
BY DEF NoBody, Patches

LEMMA Blanks ==
    /\ NoRouter \in Router
    /\ NoRequest \in Request
    /\ NoRouter.spec \in [Fields -> Values \cup {Unset}]
BY EmptyBody DEF NoRouter, Router, NoRequest, Request, Methods, Codes

Replies == [Fields -> Values \cup {Unset}]

\* The empty slot, or one with an answer, is a well-formed one.
LEMMA AnsweredTyped ==
    ASSUME TypeOK, NEW r \in Requests, NEW code \in Codes, NEW reply \in Replies
    PROVE  /\ Answered(r, code, reply) \in Request
           /\ Answered(r, code, reply).pc = "answered"
           /\ Answered(r, code, reply).current = FALSE
           /\ Answered(r, code, reply).code = code
           /\ Answered(r, code, reply).reply = reply
<1>1. NoRequest \in Request /\ request[r].method \in Methods
  BY Blanks DEF TypeOK, Request
<1>2. NoRequest.current = FALSE
  BY DEF NoRequest
<1> QED
  BY <1>1, <1>2 DEF Answered, Request, Replies

-----------------------------------------------------------------------------
(* The three ways in which the state changes. *)

\* Outdating the copies keeps what is known of the requests.
LEMMA OutdateStep ==
    ASSUME IInv, NEW new \in Router, new.exists \/ ~new.finalizer,
           NEW q \in [Requests -> Request],
           \A r \in Requests :
              /\ q[r].current => q[r].copy = new
              /\ q[r].method \in {"POST", "PUT"}
                    => q[r].pc = "answered" \/ q[r].body \in Specs
              /\ q[r].pc = "write" => q[r].method \in {"PUT", "DELETE"},
           router' = new, cache' = cache, fresh' = FALSE, request' = q
    PROVE  IInv'
BY DEF IInv, TypeOK, InHand, WholeBodies, Absent

LEMMA OutdatedRequests ==
    ASSUME TypeOK
    PROVE  /\ OutdateRequests \in [Requests -> Request]
           /\ \A r \in Requests :
                /\ OutdateRequests[r].current = FALSE
                /\ OutdateRequests[r].pc = request[r].pc
                /\ OutdateRequests[r].method = request[r].method
                /\ OutdateRequests[r].body = request[r].body
<1> SUFFICES ASSUME NEW r \in Requests
             PROVE  LET q == [request[r] EXCEPT !.current = FALSE] IN
                    /\ q \in Request
                    /\ q.current = FALSE
                    /\ q.pc = request[r].pc
                    /\ q.method = request[r].method
                    /\ q.body = request[r].body
  BY DEF OutdateRequests
<1> request[r] \in Request
  BY DEF TypeOK
<1> QED
  BY DEF Request

LEMMA AnswerStep ==
    ASSUME IInv, NEW r \in Requests, NEW code \in Codes, NEW reply \in Replies,
           Answer(r, code, reply)
    PROVE  IInv'
<1> DEFINE done == Answered(r, code, reply)
<1>1. done \in Request /\ done.pc = "answered" /\ done.current = FALSE
  BY AnsweredTyped DEF IInv
<1>2. /\ request' = [request EXCEPT ![r] = done]
      /\ router' = router /\ cache' = cache /\ fresh' = fresh
  BY DEF Answer
<1> HIDE DEF done
<1>3. TypeOK'
  BY <1>1, <1>2 DEF IInv, TypeOK
<1>4. InHand'
  BY <1>1, <1>2 DEF IInv, TypeOK, InHand
<1>5. WholeBodies'
  BY <1>1, <1>2 DEF IInv, TypeOK, WholeBodies
<1> QED
  BY <1>2, <1>3, <1>4, <1>5 DEF IInv, Absent

LEMMA StoreStep ==
    ASSUME IInv, NEW r \in Requests, NEW code \in Codes, NEW reply \in Replies,
           NEW new \in Router, new.exists \/ ~new.finalizer,
           Store(r, new, code, reply)
    PROVE  IInv'
<1>1. PICK told \in BOOLEAN :
        LET done == IF told THEN Answered(r, code, reply)
                            ELSE Answered(r, "500", NoRouter.spec)
        IN
        /\ router' = new
        /\ UNCHANGED cache
        /\ IF new = router
           THEN UNCHANGED fresh /\ request' = [request EXCEPT ![r] = done]
           ELSE fresh' = FALSE /\ request' = [OutdateRequests EXCEPT ![r] = done]
  BY DEF Store
<1> DEFINE done == IF told THEN Answered(r, code, reply)
                           ELSE Answered(r, "500", NoRouter.spec)
<1>2. done \in Request /\ done.pc = "answered" /\ done.current = FALSE
  <2>1. "500" \in Codes /\ NoRouter.spec \in Replies
    BY Blanks DEF Codes, Replies
  <2>2. TypeOK
    BY DEF IInv
  <2>3. CASE told
    BY <2>2, <2>3, AnsweredTyped
  <2>4. CASE ~told
    <3>1. \A c \in Codes, p \in Replies :
             /\ Answered(r, c, p) \in Request
             /\ Answered(r, c, p).pc = "answered"
             /\ Answered(r, c, p).current = FALSE
      BY <2>2, AnsweredTyped
    <3>2. done = Answered(r, "500", NoRouter.spec)
      BY <2>4
    <3> QED
      BY <2>1, <3>1, <3>2
  <2> QED
    BY <2>3, <2>4
<1>3. /\ router' = new /\ cache' = cache
      /\ new = router => fresh' = fresh /\ request' = [request EXCEPT ![r] = done]
      /\ new # router => /\ fresh' = FALSE
                         /\ request' = [OutdateRequests EXCEPT ![r] = done]
  BY <1>1
<1> HIDE DEF done
<1>4. CASE new = router
  <2>1. TypeOK'
    BY <1>2, <1>3, <1>4 DEF IInv, TypeOK
  <2>2. InHand'
    BY <1>2, <1>3, <1>4 DEF IInv, TypeOK, InHand
  <2>3. WholeBodies'
    BY <1>2, <1>3, <1>4 DEF IInv, TypeOK, WholeBodies
  <2> QED
    BY <1>3, <1>4, <2>1, <2>2, <2>3 DEF IInv, Absent
<1>5. CASE new # router
  <2> DEFINE q == [OutdateRequests EXCEPT ![r] = done]
  <2>1. q \in [Requests -> Request]
    BY <1>2, OutdatedRequests DEF IInv
  <2>2. ASSUME NEW s \in Requests
        PROVE  /\ q[s].current => q[s].copy = new
               /\ q[s].method \in {"POST", "PUT"}
                     => q[s].pc = "answered" \/ q[s].body \in Specs
               /\ q[s].pc = "write" => q[s].method \in {"PUT", "DELETE"}
    BY <1>2, OutdatedRequests DEF IInv, WholeBodies
  <2> HIDE DEF q
  <2>3. request' = q
    BY <1>3, <1>5 DEF q
  <2> QED
    BY <1>3, <1>5, <2>1, <2>2, <2>3, OutdateStep
<1> QED
  BY <1>4, <1>5

LEMMA OperatorStep ==
    ASSUME IInv, NEW new \in Router, new.exists \/ ~new.finalizer,
           OperatorWrites(new)
    PROVE  IInv'
<1>1. \A r \in Requests :
         /\ OutdateRequests[r].current => OutdateRequests[r].copy = new
         /\ OutdateRequests[r].method \in {"POST", "PUT"}
               => OutdateRequests[r].pc = "answered"
                  \/ OutdateRequests[r].body \in Specs
         /\ OutdateRequests[r].pc = "write"
               => OutdateRequests[r].method \in {"PUT", "DELETE"}
  BY OutdatedRequests DEF IInv, WholeBodies
<1>2. OutdateRequests \in [Requests -> Request]
  BY OutdatedRequests DEF IInv
<1>3. /\ router' = new /\ cache' = cache /\ fresh' = FALSE
      /\ request' = OutdateRequests
  BY DEF OperatorWrites
<1> HIDE DEF OutdateRequests
<1> QED
  BY <1>1, <1>2, <1>3, OutdateStep

-----------------------------------------------------------------------------
(* Every step preserves IInv. *)

LEMMA ErrorStep ==
    ASSUME IInv, NEW r \in Requests, NEW code \in Codes, Fails(r, code)
    PROVE  IInv'
<1>1. NoRouter.spec \in Replies
  BY Blanks DEF Replies
<1>2. Answer(r, code, NoRouter.spec)
  BY DEF Fails
<1> DEFINE blank == NoRouter.spec
<1> HIDE DEF blank
<1>3. blank \in Replies /\ Answer(r, code, blank)
  BY <1>1, <1>2 DEF blank
<1> QED
  BY <1>3, AnswerStep

LEMMA SendStep ==
    ASSUME IInv, NEW r \in Requests, Send(r)
    PROVE  IInv'
<1>1. PICK method \in Methods, body \in Patches :
        /\ method \in {"POST", "PUT"} => body \in Specs
        /\ request' = [request EXCEPT ![r] =
              [NoRequest EXCEPT !.pc = "received", !.method = method,
                                !.body = body]]
  BY DEF Send
<1> DEFINE new == [NoRequest EXCEPT !.pc = "received", !.method = method,
                                    !.body = body]
<1>2. /\ new \in Request /\ new.current = FALSE /\ new.pc = "received"
      /\ new.method = method /\ new.body = body
  <2>1. NoRequest \in Request /\ NoRequest.current = FALSE
    BY Blanks DEF NoRequest
  <2> QED
    BY <2>1 DEF Request
<1>3. request' = [request EXCEPT ![r] = new]
  BY <1>1
<1>4. router' = router /\ cache' = cache /\ fresh' = fresh
  BY DEF Send
<1> HIDE DEF new
<1>5. TypeOK' /\ InHand' /\ Absent'
  BY <1>2, <1>3, <1>4 DEF IInv, TypeOK, InHand, Absent
<1>6. WholeBodies'
  BY <1>1, <1>2, <1>3 DEF IInv, TypeOK, WholeBodies
<1> QED
  BY <1>5, <1>6 DEF IInv

LEMMA ReadCopyStep ==
    ASSUME IInv, NEW r \in Requests, ReadCopy(r)
    PROVE  IInv'
<1>1. CASE ~cache.exists
  BY <1>1, ErrorStep DEF ReadCopy, Codes
<1>2. CASE cache.exists
  <2> DEFINE new == [request[r] EXCEPT !.pc = "write", !.copy = cache,
                                       !.current = fresh]
  <2>1. request[r] \in Request /\ request[r].pc = "received"
        /\ request[r].method \in {"PUT", "DELETE"}
    BY DEF IInv, TypeOK, ReadCopy, Handles
  <2>2. /\ new \in Request /\ new.pc = "write" /\ new.copy = cache
        /\ new.current = fresh /\ new.method = request[r].method
        /\ new.body = request[r].body
    BY <2>1 DEF IInv, TypeOK, Request
  <2>3. /\ request' = [request EXCEPT ![r] = new]
        /\ router' = router /\ cache' = cache /\ fresh' = fresh
    BY <1>2, <2>1 DEF ReadCopy, Request
  <2> HIDE DEF new
  <2>4. TypeOK' /\ Absent'
    BY <2>2, <2>3 DEF IInv, TypeOK, Absent
  <2>5. InHand'
    BY <2>2, <2>3 DEF IInv, TypeOK, InHand
  <2>6. WholeBodies'
    BY <2>1, <2>2, <2>3 DEF IInv, TypeOK, WholeBodies
  <2> QED
    BY <2>4, <2>5, <2>6 DEF IInv
<1> QED
  BY <1>1, <1>2

\* What the API server stores for a PATCH is a router again.
LEMMA MergedTyped ==
    ASSUME TypeOK, NEW patch \in Patches
    PROVE  Merged(patch) \in Replies
<1>1. router.spec \in [Fields -> Values \cup {Unset}]
  BY DEF TypeOK, Router
<1> QED
  BY <1>1, PatchValues DEF Merged, Replies

LEMMA CreateStep ==
    ASSUME IInv, NEW r \in Requests, CreateRouter(r)
    PROVE  IInv'
<1> DEFINE new == [NoRouter EXCEPT !.exists = TRUE, !.spec = request[r].body]
<1>1. CASE router.exists
  BY <1>1, ErrorStep DEF CreateRouter, Codes
<1>2. CASE ~router.exists
  <2>1. request[r].body \in Specs
    BY DEF IInv, WholeBodies, CreateRouter, Handles
  <2>2. new \in Router /\ ~new.finalizer /\ new.spec \in Replies
    BY <2>1, Blanks DEF NoRouter, Router, Specs, Replies
  <2>3. Store(r, new, "201", new.spec)
    BY <1>2 DEF CreateRouter
  <2>4. "201" \in Codes
    BY DEF Codes
  <2> HIDE DEF new
  <2> QED
    BY <2>2, <2>3, <2>4, StoreStep
<1> QED
  BY <1>1, <1>2

LEMMA UpdateStep ==
    ASSUME IInv, NEW r \in Requests, UpdateRouter(r)
    PROVE  IInv'
<1> DEFINE new == [router EXCEPT !.spec = request[r].body,
                                 !.finalizer = request[r].copy.finalizer]
<1>1. CASE ~Accepts(r)
  BY <1>1, ErrorStep DEF UpdateRouter, Codes
<1>2. CASE Accepts(r)
  <2>1. request[r].body \in Specs
    BY DEF IInv, WholeBodies, UpdateRouter
  <2>2. router \in Router /\ request[r].copy = router
    BY <1>2 DEF IInv, TypeOK, InHand, Accepts
  <2>3. /\ new \in Router /\ new.spec \in Replies
        /\ new.exists \/ ~new.finalizer
    BY <2>1, <2>2 DEF IInv, Absent, Router, Specs, Replies
  <2>4. Store(r, new, "200", new.spec)
    BY <1>2 DEF UpdateRouter
  <2>5. "200" \in Codes
    BY DEF Codes
  <2> HIDE DEF new
  <2> QED
    BY <2>3, <2>4, <2>5, StoreStep
<1> QED
  BY <1>1, <1>2

LEMMA PatchStep ==
    ASSUME IInv, NEW r \in Requests, PatchRouter(r)
    PROVE  IInv'
<1> DEFINE new == [router EXCEPT !.spec = Merged(request[r].body)]
<1>1. CASE ~router.exists
  BY <1>1, ErrorStep DEF PatchRouter, Codes
<1>2. CASE router.exists
  <2>1. Merged(request[r].body) \in Replies
    BY MergedTyped DEF IInv, TypeOK, Request
  <2>2. router \in Router
    BY DEF IInv, TypeOK
  <2>3. new \in Router /\ new.exists /\ new.spec \in Replies
    BY <1>2, <2>1, <2>2 DEF Router, Replies
  <2>4. Store(r, new, "200", new.spec)
    BY <1>2 DEF PatchRouter, PatchReply
  <2>5. "200" \in Codes
    BY DEF Codes
  <2> HIDE DEF new
  <2> QED
    BY <2>3, <2>4, <2>5, StoreStep
<1> QED
  BY <1>1, <1>2

LEMMA DeleteStep ==
    ASSUME IInv, NEW r \in Requests, DeleteRouter(r)
    PROVE  IInv'
<1> DEFINE new == IF router.finalizer THEN [router EXCEPT !.deleting = TRUE]
                                      ELSE NoRouter
           blank == NoRouter.spec
<1>1. CASE ~router.exists
  BY <1>1, ErrorStep DEF DeleteRouter, Codes
<1>2. CASE router.exists
  <2>1. new \in Router /\ (new.exists \/ ~new.finalizer)
    <3>1. router \in Router /\ NoRouter \in Router /\ ~NoRouter.finalizer
      BY Blanks DEF IInv, TypeOK, NoRouter
    <3>2. CASE router.finalizer
      BY <1>2, <3>1, <3>2 DEF Router
    <3>3. CASE ~router.finalizer
      BY <3>1, <3>3
    <3> QED
      BY <3>2, <3>3
  <2>2. Store(r, new, "200", blank)
    BY <1>2 DEF DeleteRouter
  <2>3. "200" \in Codes /\ blank \in Replies
    BY Blanks DEF Codes, Replies
  <2> HIDE DEF new, blank
  <2> QED
    BY <2>1, <2>2, <2>3, StoreStep
<1> QED
  BY <1>1, <1>2

LEMMA HandlerStep ==
    ASSUME IInv, NEW r \in Requests, Handler(r)
    PROVE  IInv'
<1>1. CASE Refuse(r)
  BY <1>1, ErrorStep DEF Refuse, Codes
<1>2. CASE CallFails(r)
  BY <1>2, ErrorStep DEF CallFails, Codes
<1>3. CASE GetRouter(r)
  <2>1. CASE ~cache.exists
    BY <1>3, <2>1, ErrorStep DEF GetRouter, Codes
  <2>2. CASE cache.exists
    <3>1. cache.spec \in Replies /\ "200" \in Codes
      BY DEF IInv, TypeOK, Router, Replies, Codes
    <3> QED
      BY <1>3, <2>2, <3>1, AnswerStep DEF GetRouter
  <2> QED
    BY <2>1, <2>2
<1> QED
  BY <1>1, <1>2, <1>3, CreateStep, ReadCopyStep, UpdateStep, PatchStep,
     DeleteStep DEF Handler

LEMMA EnvironmentStep ==
    ASSUME IInv, Operator \/ InformerCatchesUp
    PROVE  IInv'
<1>1. router \in Router /\ NoRouter \in Router /\ ~NoRouter.finalizer
  BY Blanks DEF IInv, TypeOK, NoRouter
<1>2. CASE AddFinalizer
  <2> DEFINE new == [router EXCEPT !.finalizer = TRUE]
  <2>1. new \in Router /\ new.exists
    BY <1>1, <1>2 DEF AddFinalizer, Router
  <2>2. OperatorWrites(new)
    BY <1>2 DEF AddFinalizer
  <2> HIDE DEF new
  <2> QED
    BY <2>1, <2>2, OperatorStep
<1>3. CASE WriteStatus
  BY <1>1, <1>3, OperatorStep DEF WriteStatus
<1>4. CASE RemoveFinalizer
  BY <1>1, <1>4, OperatorStep DEF RemoveFinalizer
<1>5. CASE InformerCatchesUp
  BY <1>1, <1>5 DEF InformerCatchesUp, IInv, TypeOK, InHand, WholeBodies, Absent
<1> QED
  BY <1>2, <1>3, <1>4, <1>5 DEF Operator

LEMMA Inductive == IInv /\ [Next]_vars => IInv'
<1>1. CASE UNCHANGED vars
  BY <1>1 DEF vars, IInv, TypeOK, InHand, WholeBodies, Absent
<1> QED
  BY <1>1, SendStep, HandlerStep, EnvironmentStep DEF Next

LEMMA Initial == Init => IInv
<1> SUFFICES ASSUME Init PROVE IInv
  OBVIOUS
<1>1. /\ NoRequest.current = FALSE /\ NoRequest.method = "GET"
      /\ NoRequest.pc = "idle" /\ NoRouter.finalizer = FALSE
  BY DEF NoRequest, NoRouter
<1> QED
  BY <1>1, Blanks DEF Init, IInv, TypeOK, InHand, WholeBodies, Absent

-----------------------------------------------------------------------------
(* What a step does to the router. *)

\* A request changes the router only when it is served: the router becomes
\* `new`, the request is answered and the others stay where they are.
LEMMA StoreEffect ==
    ASSUME TypeOK, NEW r \in Requests, NEW code \in Codes, NEW reply \in Replies,
           NEW new, Store(r, new, code, reply)
    PROVE  /\ router' = new
           /\ request'[r].pc = "answered"
           /\ request'[r].code \in {code, "500"}
           /\ request'[r].code = code /\ code # "500"
                 => request'[r].reply = reply
           /\ \A s \in Requests \ {r} : request'[s].pc = request[s].pc
<1>1. PICK told \in BOOLEAN :
        LET done == IF told THEN Answered(r, code, reply)
                            ELSE Answered(r, "500", NoRouter.spec)
        IN
        /\ router' = new
        /\ \/ request' = [request EXCEPT ![r] = done]
           \/ request' = [OutdateRequests EXCEPT ![r] = done]
  BY DEF Store
<1> DEFINE done == IF told THEN Answered(r, code, reply)
                           ELSE Answered(r, "500", NoRouter.spec)
<1>2. /\ done.pc = "answered"
      /\ done.code \in {code, "500"}
      /\ done.code = code /\ code # "500" => done.reply = reply
  <2>1. \A c \in Codes, p \in Replies : /\ Answered(r, c, p).pc = "answered"
                                        /\ Answered(r, c, p).code = c
                                        /\ Answered(r, c, p).reply = p
    BY AnsweredTyped
  <2>2. "500" \in Codes /\ NoRouter.spec \in Replies
    BY Blanks DEF Codes, Replies
  <2>3. CASE told
    BY <2>1, <2>3
  <2>4. CASE ~told
    <3>1. done = Answered(r, "500", NoRouter.spec)
      BY <2>4
    <3> QED
      BY <2>1, <2>2, <3>1
  <2> QED
    BY <2>3, <2>4
<1>3. \/ request' = [request EXCEPT ![r] = done]
      \/ request' = [OutdateRequests EXCEPT ![r] = done]
  BY <1>1
<1>4. DOMAIN request = Requests /\ DOMAIN OutdateRequests = Requests
  BY DEF TypeOK, OutdateRequests
<1>5. \A s \in Requests : OutdateRequests[s].pc = request[s].pc
  BY OutdatedRequests
<1> HIDE DEF done
<1> QED
  BY <1>1, <1>2, <1>3, <1>4, <1>5

\* An answer to r leaves the router and the other requests alone.
LEMMA AnswerEffect ==
    ASSUME TypeOK, NEW r \in Requests, NEW code \in Codes, NEW reply \in Replies,
           Answer(r, code, reply)
    PROVE  /\ router' = router
           /\ request'[r].code = code
           /\ \A s \in Requests \ {r} : request'[s].pc = request[s].pc
<1>1. Answered(r, code, reply).code = code
  BY AnsweredTyped
<1>2. /\ router' = router
      /\ request' = [request EXCEPT ![r] = Answered(r, code, reply)]
  BY DEF Answer
<1> QED
  BY <1>1, <1>2 DEF TypeOK

LEMMA ErrorEffect ==
    ASSUME TypeOK, NEW r \in Requests, NEW code \in Codes, Fails(r, code)
    PROVE  /\ router' = router
           /\ request'[r].code = code
           /\ \A s \in Requests \ {r} : request'[s].pc = request[s].pc
<1> DEFINE blank == NoRouter.spec
<1>1. blank \in Replies /\ Answer(r, code, blank)
  BY Blanks DEF Replies, Fails
<1> HIDE DEF blank
<1> QED
  BY <1>1, AnswerEffect

\* The three writes that change the spec, once they are served.
Served(r) ==
    \/ CreateRouter(r) /\ ~router.exists
    \/ UpdateRouter(r) /\ Accepts(r)
    \/ PatchRouter(r) /\ router.exists

LEMMA ServedEffect ==
    ASSUME IInv, NEW r \in Requests, Served(r)
    PROVE  /\ request[r].pc \in {"received", "write"}
           /\ request'[r].pc = "answered"
           /\ request'[r].code \in {"200", "201"}
                 => request'[r].reply = router'.spec
           /\ \A f \in DOMAIN request[r].body :
                 router'.spec[f] = request[r].body[f]
           /\ \A f \in Fields :
                 router.exists /\ router'.spec[f] # router.spec[f]
                    => f \in DOMAIN request[r].body
           /\ router.exists => router'.finalizer = router.finalizer
           /\ \A s \in Requests \ {r} : request'[s].pc = request[s].pc
<1>1. TypeOK /\ router \in Router /\ request[r] \in Request
  BY DEF IInv, TypeOK
<1>2. request[r].body \in Patches /\ "200" \in Codes /\ "201" \in Codes
  BY <1>1 DEF Request, Codes
<1>3. ASSUME NEW new \in Router, new.spec \in Replies,
             \/ Store(r, new, "200", new.spec)
             \/ Store(r, new, "201", new.spec)
      PROVE  /\ router' = new
             /\ request'[r].pc = "answered"
             /\ request'[r].code \in {"200", "201"}
                   => request'[r].reply = new.spec
             /\ \A s \in Requests \ {r} : request'[s].pc = request[s].pc
  <2>1. \A c \in Codes, p \in Replies :
          Store(r, new, c, p)
            => /\ router' = new
               /\ request'[r].pc = "answered"
               /\ request'[r].code \in {c, "500"}
               /\ request'[r].code = c /\ c # "500" => request'[r].reply = p
               /\ \A s \in Requests \ {r} : request'[s].pc = request[s].pc
    BY <1>1, StoreEffect
  <2> QED
    BY <1>2, <1>3, <2>1
<1>4. CASE CreateRouter(r) /\ ~router.exists
  <2> DEFINE new == [NoRouter EXCEPT !.exists = TRUE, !.spec = request[r].body]
  <2>1. request[r].body \in Specs /\ request[r].pc = "received"
    BY <1>4 DEF IInv, WholeBodies, CreateRouter, Handles
  <2>2. new \in Router /\ new.spec \in Replies /\ new.spec = request[r].body
    BY <2>1, Blanks DEF NoRouter, Router, Specs, Replies
  <2>3. Store(r, new, "201", new.spec)
    BY <1>4 DEF CreateRouter
  <2> HIDE DEF new
  <2> QED
    BY <1>3, <1>4, <2>1, <2>2, <2>3
<1>5. CASE UpdateRouter(r) /\ Accepts(r)
  <2> DEFINE new == [router EXCEPT !.spec = request[r].body,
                                   !.finalizer = request[r].copy.finalizer]
  <2>1. /\ request[r].body \in Specs /\ request[r].pc = "write"
        /\ request[r].copy = router
    BY <1>5 DEF IInv, InHand, WholeBodies, UpdateRouter, Accepts
  <2>2. /\ new \in Router /\ new.spec \in Replies
        /\ new.spec = request[r].body /\ new.finalizer = router.finalizer
    BY <1>1, <2>1 DEF Router, Specs, Replies
  <2>3. Store(r, new, "200", new.spec)
    BY <1>5 DEF UpdateRouter
  <2>4. DOMAIN request[r].body = Fields
    BY <2>1 DEF Specs
  <2> HIDE DEF new
  <2> QED
    BY <1>3, <1>5, <2>1, <2>2, <2>3, <2>4
<1>6. CASE PatchRouter(r) /\ router.exists
  <2> DEFINE new == [router EXCEPT !.spec = Merged(request[r].body)]
  <2>1. Merged(request[r].body) \in Replies
    BY <1>1, <1>2, MergedTyped
  <2>2. /\ new \in Router /\ new.spec \in Replies
        /\ new.spec = Merged(request[r].body)
        /\ new.finalizer = router.finalizer
    BY <1>1, <2>1 DEF Router, Replies
  <2>3. Store(r, new, "200", new.spec) /\ request[r].pc = "received"
    BY <1>6 DEF PatchRouter, PatchReply, Handles
  <2>4. /\ \A f \in DOMAIN request[r].body :
              Merged(request[r].body)[f] = request[r].body[f]
        /\ \A f \in Fields : f \notin DOMAIN request[r].body
              => Merged(request[r].body)[f] = router.spec[f]
    BY <1>2, PatchValues DEF Merged
  <2> HIDE DEF new
  <2> QED
    BY <1>3, <1>6, <2>2, <2>3, <2>4
<1> QED
  BY <1>4, <1>5, <1>6 DEF Served

\* A step that writes no spec: it lets go of a finalizer only when the router
\* is being deleted, and tells no POST, PUT or PATCH that it has succeeded.
NoSpecWritten ==
    /\ router.finalizer /\ ~router'.finalizer => router.deleting
    /\ router.exists /\ router'.exists => router'.spec = router.spec
    /\ \A r \in Requests :
          /\ request[r].pc \in {"received", "write"}
          /\ request[r].method \in Writes
          /\ request'[r].pc = "answered"
          => request'[r].code \notin {"200", "201"}

\* An error is no success, whoever gets it.
LEMMA ErrorWritesNothing ==
    ASSUME TypeOK, NEW r \in Requests, NEW code \in Codes \ {"200", "201"},
           Fails(r, code)
    PROVE  NoSpecWritten
BY ErrorEffect DEF NoSpecWritten

LEMMA DeleteWritesNothing ==
    ASSUME IInv, NEW r \in Requests, DeleteRouter(r)
    PROVE  NoSpecWritten
<1> DEFINE new == IF router.finalizer THEN [router EXCEPT !.deleting = TRUE]
                                      ELSE NoRouter
           blank == NoRouter.spec
<1>1. TypeOK /\ router \in Router
  BY DEF IInv, TypeOK
<1>2. CASE ~router.exists
  BY <1>1, <1>2, ErrorWritesNothing DEF DeleteRouter, Codes
<1>3. CASE router.exists
  <2>1. Store(r, new, "200", blank) /\ request[r].method = "DELETE"
    BY <1>3 DEF DeleteRouter
  <2>2. "200" \in Codes /\ blank \in Replies
    BY Blanks DEF Codes, Replies
  <2>3. /\ router.finalizer => new.finalizer
        /\ new.exists => new.spec = router.spec
    <3>1. CASE router.finalizer
      BY <1>1, <3>1 DEF Router
    <3>2. CASE ~router.finalizer
      BY <3>2 DEF NoRouter
    <3> QED
      BY <3>1, <3>2
  <2> HIDE DEF new, blank
  <2>4. /\ router' = new
        /\ \A s \in Requests \ {r} : request'[s].pc = request[s].pc
    BY <1>1, <2>1, <2>2, StoreEffect
  <2> QED
    BY <2>1, <2>3, <2>4 DEF NoSpecWritten, Writes
<1> QED
  BY <1>2, <1>3

LEMMA HandlerEffect ==
    ASSUME IInv, NEW r \in Requests, Handler(r)
    PROVE  Served(r) \/ NoSpecWritten
<1>1. TypeOK
  BY DEF IInv
<1>2. CASE Refuse(r) \/ CallFails(r)
  BY <1>1, <1>2, ErrorWritesNothing DEF Refuse, CallFails, Codes
<1>3. CASE GetRouter(r)
  <2>1. CASE ~cache.exists
    BY <1>1, <1>3, <2>1, ErrorWritesNothing DEF GetRouter, Codes
  <2>2. CASE cache.exists
    <3>1. cache.spec \in Replies /\ "200" \in Codes
      BY <1>1 DEF TypeOK, Router, Replies, Codes
    <3>2. request[r].method = "GET" /\ Answer(r, "200", cache.spec)
      BY <1>3, <2>2 DEF GetRouter, Handles
    <3>3. /\ router' = router
          /\ \A s \in Requests \ {r} : request'[s].pc = request[s].pc
      BY <1>1, <3>1, <3>2, AnswerEffect
    <3> QED
      BY <3>2, <3>3 DEF NoSpecWritten, Writes
  <2> QED
    BY <2>1, <2>2
<1>4. CASE CreateRouter(r) \/ UpdateRouter(r) \/ PatchRouter(r)
  <2>1. CASE Served(r)
    BY <2>1
  <2>2. CASE ~Served(r)
    BY <1>1, <1>4, <2>2, ErrorWritesNothing
       DEF Served, CreateRouter, UpdateRouter, PatchRouter, Codes
  <2> QED
    BY <2>1, <2>2
<1>5. CASE ReadCopy(r)
  <2>1. CASE ~cache.exists
    BY <1>1, <1>5, <2>1, ErrorWritesNothing DEF ReadCopy, Codes
  <2>2. CASE cache.exists
    <3>1. router' = router
      BY <1>5, <2>2 DEF ReadCopy
    <3>2. request[r] \in Request
      BY <1>1 DEF TypeOK
    <3>3. /\ request'[r].pc = "write"
          /\ \A s \in Requests \ {r} : request'[s] = request[s]
      BY <1>1, <1>5, <2>2, <3>2 DEF ReadCopy, TypeOK, Request
    <3> QED
      BY <3>1, <3>3 DEF NoSpecWritten
  <2> QED
    BY <2>1, <2>2
<1> QED
  BY <1>2, <1>3, <1>4, <1>5, DeleteWritesNothing DEF Handler

LEMMA StepEffect ==
    ASSUME IInv, [Next]_vars
    PROVE  (\E r \in Requests : Served(r)) \/ NoSpecWritten
<1>1. TypeOK /\ router \in Router
  BY DEF IInv, TypeOK
<1>2. CASE UNCHANGED vars
  BY <1>2 DEF vars, NoSpecWritten
<1>3. CASE \E r \in Requests : Send(r)
  <2>1. PICK r \in Requests : Send(r)
    BY <1>3
  <2>2. router' = router
    BY <2>1 DEF Send
  <2>3. /\ request'[r].pc = "received"
        /\ \A s \in Requests \ {r} : request'[s] = request[s]
    BY <1>1, <2>1, Blanks DEF Send, TypeOK, Request
  <2> QED
    BY <2>2, <2>3 DEF NoSpecWritten
<1>4. CASE Operator \/ InformerCatchesUp
  <2>1. \A s \in Requests : request'[s].pc = request[s].pc
    BY <1>1, <1>4, OutdatedRequests
       DEF Operator, AddFinalizer, WriteStatus, RemoveFinalizer,
           OperatorWrites, InformerCatchesUp
  <2>2. /\ router.finalizer /\ ~router'.finalizer => router.deleting
        /\ router'.exists => router'.spec = router.spec
    <3>1. ~NoRouter.exists
      BY DEF NoRouter
    <3> QED
      BY <1>1, <1>4, <3>1
         DEF Operator, AddFinalizer, WriteStatus, RemoveFinalizer,
             OperatorWrites, InformerCatchesUp, Router
  <2> QED
    BY <2>1, <2>2 DEF NoSpecWritten
<1> QED
  BY <1>2, <1>3, <1>4, HandlerEffect DEF Next

-----------------------------------------------------------------------------
(* The theorems. *)

\* IInv holds in every state that the API can reach.
THEOREM Invariance == Spec => []IInv
BY Initial, Inductive, PTL DEF Spec

\* The variables have their types, however requests and operator interleave.
THEOREM Typing == Spec => []TypeOK
<1>1. IInv => TypeOK
  BY DEF IInv
<1> QED
  BY <1>1, Invariance, PTL

\* No handler takes the drain finalizer off a router that is not being deleted
\* (server.go:207-211).
THEOREM FinalizerStays == Spec => FinalizerKept
<1>1. IInv /\ [Next]_vars
         => [router.finalizer /\ ~router'.finalizer => router.deleting]_vars
  <2> SUFFICES ASSUME IInv, [Next]_vars
               PROVE  router.finalizer /\ ~router'.finalizer => router.deleting
    OBVIOUS
  <2>1. CASE \E r \in Requests : Served(r)
    BY <2>1, ServedEffect DEF IInv, Absent
  <2>2. CASE NoSpecWritten
    BY <2>2 DEF NoSpecWritten
  <2> QED
    BY <2>1, <2>2, StepEffect
<1> QED
  BY <1>1, Invariance, PTL DEF Spec, FinalizerKept

\* A field of a router changes only by a request that names it, and to the
\* value it gives: two patches side by side both survive (server.go:219-252).
THEOREM NoLostFields == Spec => FieldsByTheirWriters
<1> DEFINE Written ==
        \A f \in Fields :
          router.exists /\ router'.exists /\ router'.spec[f] # router.spec[f]
            => \E r \in Requests :
                 /\ request[r].pc \in {"received", "write"}
                 /\ request'[r].pc = "answered"
                 /\ f \in DOMAIN request[r].body
                 /\ router'.spec[f] = request[r].body[f]
<1>1. IInv /\ [Next]_vars => Written
  <2> SUFFICES ASSUME IInv, [Next]_vars PROVE Written
    OBVIOUS
  <2>1. CASE \E r \in Requests : Served(r)
    <3>1. PICK r \in Requests : Served(r)
      BY <2>1
    <3> QED
      BY <3>1, ServedEffect
  <2>2. CASE NoSpecWritten
    BY <2>2 DEF NoSpecWritten
  <2> QED
    BY <2>1, <2>2, StepEffect
<1>2. IInv /\ [Next]_vars => [Written]_vars
  BY <1>1
<1> QED
  BY <1>2, Invariance, PTL DEF Spec, FieldsByTheirWriters

\* The answer to a POST, PUT or PATCH that succeeds shows what it wrote, however
\* far the informer lags (server.go:235-238).
THEOREM RepliesShowWrites == Spec => ReplyShowsTheWrite
<1> DEFINE Shown ==
        \A r \in Requests :
          request[r].pc \in {"received", "write"}
            /\ request[r].method \in Writes
            /\ request'[r].pc = "answered"
            /\ request'[r].code \in {"200", "201"}
          => \A f \in DOMAIN request[r].body :
                request'[r].reply[f] = request[r].body[f]
<1>1. IInv /\ [Next]_vars => Shown
  <2> SUFFICES ASSUME IInv, [Next]_vars PROVE Shown
    OBVIOUS
  <2>1. CASE \E r \in Requests : Served(r)
    <3>1. PICK r \in Requests : Served(r)
      BY <2>1
    <3>2. \A s \in Requests \ {r} : request'[s].pc = request[s].pc
      BY <3>1, ServedEffect
    <3>3. request'[r].code \in {"200", "201"}
             => \A f \in DOMAIN request[r].body :
                  request'[r].reply[f] = request[r].body[f]
      BY <3>1, ServedEffect
    <3> QED
      BY <3>2, <3>3
  <2>2. CASE NoSpecWritten
    BY <2>2 DEF NoSpecWritten
  <2> QED
    BY <2>1, <2>2, StepEffect
<1>2. IInv /\ [Next]_vars => [Shown]_vars
  BY <1>1
<1> QED
  BY <1>2, Invariance, PTL DEF Spec, ReplyShowsTheWrite
=============================================================================
