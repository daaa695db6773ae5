---------------------------- MODULE SessionsProofs -----------------------------
(* What TLAPS proves of Sessions: what a browser may do, it has earned, and *)
(* a form makes one task.                                                  *)
EXTENDS Sessions, TLAPS

(* Types: what a request can be turned into.                               *)
LEMMA EmptyTyped ==
    Empty \in Data /\ \A st \in {"fresh", "live", "expired", "gone"} : Lost(st) \in Row
BY DEF Empty, Data, Lost, Row

LEMMA NoRequestTyped == NoRequest \in Request
BY EmptyTyped DEF NoRequest, Ask, Request

Places == {"idle", "load", "insert", "drop", "create", "delete", "save", "reply"}

Results == {"none", "saved", "interrupted", "created", "used", "refused", "denied", "deleted",
            "error"}

(* A step of w is nobody else's, and is about the same request.            *)
Handled(w) == /\ req' \in [Workers -> Request] /\ pc' \in [Workers -> Places]
              /\ \A v \in Workers \ {w} : req'[v] = req[v] /\ pc'[v] = pc[v]

SameRequest(w) == /\ req'[w].by = req[w].by /\ req'[w].op = req[w].op
                  /\ req'[w].nonce = req[w].nonce
                  /\ req[w].op # "post" => req'[w].task = req[w].task

LEMMA GoingOn ==
    ASSUME TypeOK, NEW w \in Workers, NEW l \in Places, NEW r \in Request,
           req' = [req EXCEPT ![w] = r], Goto(w, l)
    PROVE  Handled(w) /\ req'[w] = r /\ pc'[w] = l
BY DEF TypeOK, Goto, Handled, Places

LEMMA Concluding ==
    ASSUME TypeOK, NEW w \in Workers, NEW o \in Results, Conclude(w, o)
    PROVE  /\ Handled(w) /\ SameRequest(w) /\ pc'[w] = "reply" /\ req'[w].data = Empty
           /\ req'[w].sent = req[w].sent /\ req'[w].key = req[w].key
<1> DEFINE r == [req[w] EXCEPT !.outcome = o, !.data = Empty]
<1>1. req[w] \in Request
  BY DEF TypeOK
<1>2. r \in Request
  BY <1>1, EmptyTyped DEF Request, Results
<1>3. Handled(w) /\ req'[w] = r /\ pc'[w] = "reply"
  BY <1>2, GoingOn DEF Conclude, Places
<1> QED
  BY <1>1, <1>3 DEF Request, SameRequest

LEMMA Sending ==
    ASSUME TypeOK, NEW w \in Workers, Send(w)
    PROVE  /\ Handled(w) /\ pc'[w] = "load"
           /\ req'[w].by \in Browsers /\ req'[w].data = Empty
           /\ {req'[w].sent, req'[w].key} \subseteq {None, cookie[req'[w].by]}
           /\ req'[w].op = "exchange" => req'[w].task \in Tasks
           /\ req'[w].op = "form" => req'[w].nonce \in Nonces
<1>1. PICK b \in Browsers, op \in Offered, t \in Tasks \cup {None}, n \in Nonces \cup {None} :
         /\ op \in {"login", "exchange", "form", "post", "delete"}
         /\ op = "exchange" => t \in Tasks
         /\ op = "form" => n \in Nonces
         /\ req' = [req EXCEPT ![w] = Ask(op, b, t, n)]
  BY DEF Send, TypeOK
<1>2. Ask(op, b, t, n) \in Request
  BY <1>1, EmptyTyped DEF Ask, Request, TypeOK
<1>3. Handled(w) /\ req'[w] = Ask(op, b, t, n) /\ pc'[w] = "load"
  BY <1>1, <1>2, GoingOn DEF Send, Places
<1> QED
  BY <1>1, <1>3 DEF Ask

LEMMA Loading ==
    ASSUME TypeOK, NEW w \in Workers, Load(w)
    PROVE  /\ Handled(w) /\ SameRequest(w) /\ pc'[w] \in {"insert", "delete", "create"}
           /\ req'[w].sent = req[w].sent
           /\ \/ req'[w].key = None /\ req'[w].data = Empty
              \/ /\ req'[w].key = req[w].key /\ req[w].key # None
                 /\ rows[req[w].key].state = "live" /\ req'[w].data = rows[req[w].key].data
<1>1. req[w] \in Request
  BY DEF TypeOK
<1>2. PICK k \in SKeys \cup {None}, d \in Data :
         /\ req' = [req EXCEPT ![w] = [req[w] EXCEPT !.key = k, !.data = d]]
         /\ \/ k = None /\ d = Empty
            \/ /\ k = req[w].key /\ k # None /\ rows[k].state = "live" /\ d = rows[k].data
  <2>1. CASE req[w].key # None /\ rows[req[w].key].state = "live"
    <3>1. req[w].key \in SKeys
      BY <1>1, <2>1 DEF Request
    <3>2. rows[req[w].key].data \in Data
      BY <3>1 DEF TypeOK, Row
    <3> QED
      BY <2>1, <3>1, <3>2 DEF Load
  <2>2. CASE ~(req[w].key # None /\ rows[req[w].key].state = "live")
    BY <2>2, EmptyTyped DEF Load
  <2> QED
    BY <2>1, <2>2
<1>3. PICK l \in {"insert", "delete", "create"} : Goto(w, l)
  BY DEF Load
<1>4. [req[w] EXCEPT !.key = k, !.data = d] \in Request
  BY <1>1 DEF Request
<1>5. /\ Handled(w) /\ req'[w] = [req[w] EXCEPT !.key = k, !.data = d]
      /\ pc'[w] \in {"insert", "delete", "create"}
  BY <1>2, <1>3, <1>4, GoingOn DEF Places
<1>6. /\ req'[w].key = k /\ req'[w].data = d /\ req'[w].sent = req[w].sent
      /\ req'[w].by = req[w].by /\ req'[w].op = req[w].op
      /\ req'[w].nonce = req[w].nonce /\ req'[w].task = req[w].task
  BY <1>1, <1>5 DEF Request
<1> QED
  BY <1>2, <1>5, <1>6 DEF SameRequest

LEMMA Inserting ==
    ASSUME TypeOK, NEW w \in Workers, NEW k \in FreshKeys, Insert(w),
           req' = [req EXCEPT ![w] = [req[w] EXCEPT !.key = k, !.sent = req[w].key]]
    PROVE  /\ Handled(w) /\ SameRequest(w) /\ pc[w] = "insert" /\ pc'[w] = "drop"
           /\ req'[w].key = k /\ req'[w].sent = req[w].key /\ req'[w].data = req[w].data
<1>1. req[w] \in Request /\ k \in SKeys
  BY DEF TypeOK, FreshKeys
<1> DEFINE r == [req[w] EXCEPT !.key = k, !.sent = req[w].key]
<1>2. r \in Request /\ r.key = k
  BY <1>1 DEF Request
<1>3. r.sent = req[w].key /\ r.data = req[w].data
  BY <1>1 DEF Request
<1>4. r.by = req[w].by /\ r.op = req[w].op /\ r.nonce = req[w].nonce /\ r.task = req[w].task
  BY <1>1 DEF Request
<1>5. Handled(w) /\ pc'[w] = "drop" /\ req'[w] = r
  BY <1>2, GoingOn DEF Insert, Places
<1> QED
  BY <1>2, <1>3, <1>4, <1>5 DEF SameRequest, Insert

(* The steps that change what the request has of its session.              *)
Keeps(w) == /\ Handled(w) /\ SameRequest(w) /\ pc'[w] = "save"
            /\ req'[w].sent = req[w].sent /\ req'[w].key = req[w].key

LEMMA Dropping ==
    ASSUME TypeOK, NEW w \in Workers, Drop(w), req[w].op = "exchange" => req[w].task \in Tasks,
           req[w].op \in {"login", "exchange"}
    PROVE  Keeps(w) /\ req'[w].data.auth = Granted(w)
<1>1. req[w] \in Request /\ req[w].data \in Data
  BY DEF TypeOK, Request
<1>2. Granted(w) \in SUBSET Authorizations
  BY <1>1 DEF Granted, Authorizations, Data, TypeOK
<1> DEFINE r == [req[w] EXCEPT !.data = [req[w].data EXCEPT !.auth = Granted(w)]]
<1>3. r \in Request /\ r.data.auth = Granted(w)
  BY <1>1, <1>2 DEF Request, Data
<1>4. req' = [req EXCEPT ![w] = r]
  BY DEF Drop
<1>5. Handled(w) /\ req'[w] = r /\ pc'[w] = "save"
  BY <1>3, <1>4, GoingOn DEF Drop, Places
<1> QED
  BY <1>1, <1>3, <1>5 DEF Request, SameRequest, Keeps

LEMMA FormMaking ==
    ASSUME TypeOK, NEW w \in Workers, MakeForm(w), req[w].nonce \in Nonces
    PROVE  Keeps(w) /\ req'[w].data.auth = req[w].data.auth
<1>1. req[w] \in Request /\ req[w].data \in Data /\ req[w].data.nonces \in Seq(Nonces)
  BY DEF TypeOK, Request, Data
<1>2. Append(Newest(req[w].data.nonces, Keep), req[w].nonce) \in Seq(Nonces)
  BY <1>1, ConstantsAssumption DEF Newest
<1> DEFINE r == [req[w] EXCEPT !.data = [req[w].data EXCEPT !.nonces =
                     Append(Newest(req[w].data.nonces, Keep), req[w].nonce)]]
<1>3. r \in Request /\ r.data.auth = req[w].data.auth
  BY <1>1, <1>2 DEF Request, Data
<1>4. req' = [req EXCEPT ![w] = r]
  BY DEF MakeForm
<1>5. Handled(w) /\ req'[w] = r /\ pc'[w] = "save"
  BY <1>3, <1>4, GoingOn DEF MakeForm, Places
<1> QED
  BY <1>1, <1>3, <1>5 DEF Request, SameRequest, Keeps

LEMMA TaskMaking ==
    ASSUME TypeOK, NEW w \in Workers, MakeTask(w), NEW t \in Tasks,
           req' = [req EXCEPT ![w] = [req[w] EXCEPT
                      !.task = t, !.data.nonces = Without(@, req[w].nonce)]]
    PROVE  Keeps(w) /\ req'[w].task = t /\ req'[w].data.auth = req[w].data.auth
<1>1. req[w] \in Request /\ req[w].data \in Data /\ req[w].data.nonces \in Seq(Nonces)
  BY DEF TypeOK, Request, Data
<1>2. Without(req[w].data.nonces, req[w].nonce) \in Seq(Nonces)
  <2>1. \E i \in DOMAIN req[w].data.nonces : req[w].data.nonces[i] = req[w].nonce
    BY <1>1 DEF MakeTask, Known, Contains
  <2> QED
    BY <1>1, <2>1 DEF Without, RemoveAt
<1> DEFINE r == [req[w] EXCEPT !.task = t, !.data = [req[w].data EXCEPT !.nonces =
                     Without(req[w].data.nonces, req[w].nonce)]]
<1>3. /\ r \in Request /\ r.data.auth = req[w].data.auth /\ r.task = t
      /\ r.by = req[w].by /\ r.op = req[w].op /\ r.sent = req[w].sent /\ r.key = req[w].key
      /\ r.nonce = req[w].nonce
  BY <1>1, <1>2 DEF Request, Data
<1>4. req' = [req EXCEPT ![w] = r]
  BY <1>1 DEF Request, Data
<1>5. Handled(w) /\ req'[w] = r /\ pc'[w] = "save"
  BY <1>3, <1>4, GoingOn DEF MakeTask, StoreTask, Places
<1> QED
  BY <1>3, <1>5 DEF SameRequest, Keeps, MakeTask

LEMMA Leaving ==
    ASSUME TypeOK, NEW w \in Workers, Reply(w) \/ Crash(w)
    PROVE  Handled(w) /\ req'[w] = NoRequest /\ pc'[w] = "idle"
BY NoRequestTyped, GoingOn DEF Reply, Crash, Places

-------------------------------------------------------------------------------
(* A session key is in a browser's hands through its cookie and through    *)
(* the requests that carry it.                                             *)
Uses(b, k) == \/ cookie[b] = k
              \/ \E w \in Workers : req[w].by = b /\ k \in {req[w].sent, req[w].key}

(* What a request is when it gets to a place.                              *)
Served(w) ==
    /\ IF pc[w] = "idle" THEN req[w] = NoRequest ELSE req[w].by \in Browsers
    /\ pc[w] \in {"insert", "drop"} => req[w].op \in {"login", "exchange"}
    /\ pc[w] \in {"drop", "save"} => req[w].key # None
    /\ req[w].data.auth # {} => req[w].key # None
    /\ req[w].op = "exchange" => req[w].task \in Tasks
    /\ req[w].op = "form" => req[w].nonce \in Nonces

Serving == \A w \in Workers : Served(w)

(* No two browsers share a key, and nobody knows the keys to come.         *)
KeysPrivate == \A k \in SKeys, b \in Browsers : Uses(b, k) =>
    /\ rows[k].state # "fresh"
    /\ \A c \in Browsers : Uses(c, k) => c = b

(* What is stored under a key was earned by the browser that uses it, and  *)
(* so was what a request has in hand, but for what it is about to store.   *)
RowsEarned == \A k \in SKeys, b \in Browsers :
    Uses(b, k) /\ rows[k].state = "live" => rows[k].data.auth \subseteq earned[b]

Pending(w) == IF pc[w] = "save" /\ req[w].op \in {"login", "exchange"} THEN {Proved(w)} ELSE {}

RequestsEarned == \A w \in Workers : pc[w] # "idle" =>
    req[w].data.auth \subseteq earned[req[w].by] \cup Pending(w)

SessionInv == TypeOK /\ Serving /\ KeysPrivate /\ RowsEarned /\ RequestsEarned

-------------------------------------------------------------------------------
(* Steps after which nobody has a key that he did not have before.         *)
UsesKept == \A k \in SKeys, b \in Browsers : Uses(b, k)' => Uses(b, k)

LEMMA RequestsKeepUses ==
    ASSUME NEW w \in Workers, Handled(w), UNCHANGED cookie,
           req'[w].by = req[w].by,
           {req'[w].sent, req'[w].key} \subseteq {req[w].sent, req[w].key, None}
    PROVE  UsesKept
BY ConstantsAssumption DEF Handled, UsesKept, Uses

LEMMA HandledKeeps ==
    ASSUME SessionInv, NEW w \in Workers, Handled(w), UsesKept, UNCHANGED pin,
           \A k \in SKeys : rows'[k] = rows[k] \/ rows'[k].state \in {"expired", "gone"},
           \A b \in Browsers : earned[b] \subseteq earned'[b],
           Served(w)',
           pc'[w] # "idle" => req'[w].data.auth \subseteq earned'[req'[w].by] \cup Pending(w)'
    PROVE  (Serving /\ KeysPrivate /\ RowsEarned /\ RequestsEarned)'
<1>1. Serving'
  <2>1. ASSUME NEW v \in Workers \ {w} PROVE Served(v)'
    <3>1. req'[v] = req[v] /\ pc'[v] = pc[v] /\ Served(v)
      BY DEF Handled, SessionInv, Serving
    <3> QED
      BY <3>1 DEF Served, NoRequest, Ask
  <2> QED
    BY <2>1 DEF Serving
<1>2. KeysPrivate'
  BY DEF SessionInv, KeysPrivate, UsesKept
<1>3. RowsEarned'
  BY DEF SessionInv, RowsEarned, UsesKept
<1>4. ASSUME NEW v \in Workers \ {w}, pc'[v] # "idle"
      PROVE  req'[v].data.auth \subseteq earned'[req'[v].by] \cup Pending(v)'
  <2>1. pc[v] # "idle" /\ req'[v] = req[v] /\ pc'[v] = pc[v] /\ req[v].by \in Browsers
    BY <1>4 DEF Handled, SessionInv, Serving, Served
  <2>2. Pending(v)' = Pending(v)
    BY <2>1 DEF Pending, Proved
  <2> QED
    BY <2>1, <2>2 DEF SessionInv, RequestsEarned
<1>5. RequestsEarned'
  BY <1>4 DEF RequestsEarned
<1> QED
  BY <1>1, <1>2, <1>3, <1>5

(* Each step of a worker but those that write a row or the cookie.         *)
LEMMA QuietSteps ==
    ASSUME SessionInv, NEW w \in Workers,
           \/ Load(w) \/ Drop(w) \/ CycleFails(w) \/ Denied(w) \/ MakeForm(w) \/ MakeTask(w)
           \/ MakeNoTask(w) \/ DeleteTask(w) \/ SaveInterrupted(w)
    PROVE  Handled(w) /\ (Serving /\ KeysPrivate /\ RowsEarned /\ RequestsEarned)'
<1>1. /\ TypeOK /\ Served(w) /\ pc[w] # "idle" /\ req[w].by \in Browsers
      /\ UNCHANGED <<pin, cookie, earned>>
  BY DEF SessionInv, Serving, Served, Load, Drop, CycleFails, Denied, MakeForm, MakeTask, StoreTask,
     MakeNoTask, DeleteTask, SaveInterrupted
<1>2. req[w].data.auth \subseteq earned[req[w].by] \cup Pending(w)
  BY <1>1 DEF SessionInv, RequestsEarned
<1>3. \A k \in SKeys : rows'[k] = rows[k] \/ rows'[k].state \in {"expired", "gone"}
  <2>1. CASE Drop(w)
    BY <1>1, <2>1 DEF TypeOK, Drop, Lost
  <2>2. CASE ~Drop(w)
    BY <2>2 DEF Load, CycleFails, Denied, MakeForm, MakeTask, StoreTask, MakeNoTask, DeleteTask,
       SaveInterrupted
  <2> QED
    BY <2>1, <2>2
<1>4. CASE \E o \in Results : Conclude(w, o)
  <2>1. /\ Handled(w) /\ SameRequest(w) /\ pc'[w] = "reply" /\ req'[w].data = Empty
        /\ req'[w].sent = req[w].sent /\ req'[w].key = req[w].key
    BY <1>1, <1>4, Concluding
  <2>2. UsesKept
    BY <1>1, <2>1, RequestsKeepUses DEF SameRequest
  <2>3. Served(w)'
    BY <1>1, <2>1 DEF Served, SameRequest, Empty
  <2> QED
    BY <1>1, <1>3, <2>1, <2>2, <2>3, HandledKeeps DEF Empty
<1>5. CASE Load(w)
  <2>1. /\ Handled(w) /\ SameRequest(w) /\ pc'[w] \in {"insert", "delete", "create"}
        /\ req'[w].sent = req[w].sent
        /\ \/ req'[w].key = None /\ req'[w].data = Empty
           \/ /\ req'[w].key = req[w].key /\ req[w].key # None
              /\ rows[req[w].key].state = "live" /\ req'[w].data = rows[req[w].key].data
    BY <1>1, <1>5, Loading
  <2>2. UsesKept
    BY <1>1, <2>1, RequestsKeepUses DEF SameRequest
  <2>3. Served(w)'
    <3>1. pc'[w] = "insert" => req[w].op \in {"login", "exchange"}
      BY <1>1, <1>5 DEF Load, Goto, TypeOK
    <3>2. pc[w] = "load" /\ req'[w].data.auth # {} => req'[w].key # None
      BY <2>1 DEF Empty
    <3> QED
      BY <1>1, <1>5, <2>1, <3>1, <3>2 DEF Served, SameRequest, Load
  <2>4. req'[w].data.auth \subseteq earned[req[w].by]
    <3>1. req[w].key # None => req[w].key \in SKeys /\ Uses(req[w].by, req[w].key)
      BY <1>1 DEF TypeOK, Request, Uses
    <3> QED
      BY <1>1, <2>1, <3>1 DEF SessionInv, RowsEarned, Empty
  <2> QED
    BY <1>1, <1>3, <2>1, <2>2, <2>3, <2>4, HandledKeeps DEF SameRequest
<1>6. CASE Drop(w)
  <2>1. Keeps(w) /\ req'[w].data.auth = Granted(w)
    BY <1>1, <1>6, Dropping DEF Served, Drop
  <2>2. UsesKept
    BY <1>1, <2>1, RequestsKeepUses DEF Keeps, SameRequest
  <2>3. Served(w)'
    BY <1>1, <1>6, <2>1 DEF Served, SameRequest, Keeps, Drop
  <2>4. Granted(w) \subseteq earned[req[w].by] \cup {Proved(w)}
    BY <1>2, <1>6 DEF Pending, Drop, Granted, Proved
  <2>5. Pending(w)' = {Proved(w)}
    BY <1>1, <1>6, <2>1 DEF Pending, Proved, Keeps, SameRequest, Served, Drop
  <2> QED
    BY <1>1, <1>3, <2>1, <2>2, <2>3, <2>4, <2>5, HandledKeeps DEF SameRequest, Keeps
<1>7. CASE MakeForm(w) \/ MakeTask(w)
  <2>1. Keeps(w) /\ req'[w].data.auth = req[w].data.auth
    <3>1. CASE MakeForm(w)
      BY <1>1, <3>1, FormMaking DEF Served, MakeForm
    <3>2. CASE MakeTask(w)
      <4>1. PICK t \in Tasks :
               req' = [req EXCEPT ![w] = [req[w] EXCEPT
                          !.task = t, !.data.nonces = Without(@, req[w].nonce)]]
        BY <3>2 DEF MakeTask, StoreTask
      <4> QED
        BY <1>1, <3>2, <4>1, TaskMaking
    <3> QED
      BY <1>7, <3>1, <3>2
  <2>2. UsesKept
    BY <1>1, <2>1, RequestsKeepUses DEF Keeps, SameRequest
  <2>3. req[w].key # None /\ pc[w] = "create" /\ req[w].op \in {"form", "post"}
    BY <1>1, <1>7 DEF Served, MakeForm, MakeTask, IsCreator, Holds
  <2>4. Served(w)'
    BY <1>1, <2>1, <2>3 DEF Served, SameRequest, Keeps
  <2>5. req'[w].data.auth \subseteq earned[req[w].by]
    BY <1>2, <2>1, <2>3 DEF Pending
  <2> QED
    BY <1>1, <1>3, <2>1, <2>2, <2>4, <2>5, HandledKeeps DEF SameRequest, Keeps
<1> QED
  BY <1>4, <1>5, <1>6, <1>7 DEF CycleFails, Denied, MakeNoTask, DeleteTask, SaveInterrupted, Results

LEMMA SendKeeps ==
    ASSUME SessionInv, NEW w \in Workers, Send(w)
    PROVE  Handled(w) /\ (Serving /\ KeysPrivate /\ RowsEarned /\ RequestsEarned)'
<1>1. TypeOK /\ UNCHANGED <<rows, pin, cookie, earned>>
  BY DEF SessionInv, Send
<1>2. /\ Handled(w) /\ pc'[w] = "load" /\ req'[w].by \in Browsers /\ req'[w].data = Empty
      /\ {req'[w].sent, req'[w].key} \subseteq {None, cookie[req'[w].by]}
      /\ req'[w].op = "exchange" => req'[w].task \in Tasks
      /\ req'[w].op = "form" => req'[w].nonce \in Nonces
  BY <1>1, Sending
<1>3. UsesKept
  BY <1>1, <1>2, ConstantsAssumption DEF Handled, UsesKept, Uses
<1>4. Served(w)'
  BY <1>2 DEF Served, Empty
<1> QED
  BY <1>1, <1>2, <1>3, <1>4, HandledKeeps DEF Empty

LEMMA LeavingKeeps ==
    ASSUME SessionInv, NEW w \in Workers, Reply(w) \/ Crash(w)
    PROVE  Handled(w) /\ (Serving /\ KeysPrivate /\ RowsEarned /\ RequestsEarned)'
<1>1. /\ TypeOK /\ Served(w) /\ UNCHANGED <<rows, pin, earned>> /\ req[w].by \in Browsers
      /\ Handled(w) /\ req'[w] = NoRequest /\ pc'[w] = "idle"
  BY Leaving DEF SessionInv, Serving, Served, Reply, Crash
<1>2. NoRequest.data.auth = {} /\ NoRequest.op = "none" /\ NoRequest' = NoRequest
      /\ NoRequest.sent = None /\ NoRequest.key = None
  BY DEF NoRequest, Ask, Empty
<1>3. UsesKept
  <2>1. ASSUME NEW b \in Browsers, NEW k \in SKeys, cookie'[b] = k PROVE Uses(b, k)
    <3>1. cookie'[b] = cookie[b] \/ (b = req[w].by /\ cookie'[b] \in {req[w].key, None})
      BY <1>1 DEF Reply, Crash, TypeOK
    <3> QED
      BY <2>1, <3>1, ConstantsAssumption DEF Uses
  <2> QED
    BY <1>1, <1>2, <2>1, ConstantsAssumption DEF Handled, UsesKept, Uses
<1>4. Served(w)'
  BY <1>1, <1>2 DEF Served
<1> QED
  BY <1>1, <1>2, <1>3, <1>4, HandledKeeps

(* A new row has what the old one had, and a key nobody else knows.        *)
LEMMA InsertKeeps ==
    ASSUME SessionInv, NEW w \in Workers, Insert(w)
    PROVE  Handled(w) /\ (Serving /\ KeysPrivate /\ RowsEarned /\ RequestsEarned)'
<1>1. /\ TypeOK /\ Served(w) /\ UNCHANGED <<pin, cookie, earned>> /\ req[w].by \in Browsers
      /\ pc[w] = "insert"
  BY DEF SessionInv, Serving, Served, Insert
<1>2. PICK k \in FreshKeys :
         /\ rows' = [rows EXCEPT ![k] = [state |-> "live", data |-> req[w].data]]
         /\ req' = [req EXCEPT ![w] = [req[w] EXCEPT !.key = k, !.sent = req[w].key]]
  BY DEF Insert
<1>3. /\ Handled(w) /\ SameRequest(w) /\ pc'[w] = "drop"
      /\ req'[w].key = k /\ req'[w].sent = req[w].key /\ req'[w].data = req[w].data
  BY <1>1, <1>2, Inserting
<1>4. /\ k \in SKeys /\ k # None /\ \A b \in Browsers : ~Uses(b, k)
      /\ rows'[k] = [state |-> "live", data |-> req[w].data]
      /\ \A j \in SKeys \ {k} : rows'[j] = rows[j]
  BY <1>1, <1>2, ConstantsAssumption DEF FreshKeys, SessionInv, KeysPrivate, TypeOK
<1>5. \A j \in SKeys, b \in Browsers : Uses(b, j)' => Uses(b, j) \/ (j = k /\ b = req[w].by)
  BY <1>1, <1>3, ConstantsAssumption DEF Handled, SameRequest, Uses
<1>6. Serving'
  <2>1. ASSUME NEW v \in Workers \ {w} PROVE Served(v)'
    <3>1. req'[v] = req[v] /\ pc'[v] = pc[v] /\ Served(v)
      BY <1>3 DEF Handled, SessionInv, Serving
    <3> QED
      BY <3>1 DEF Served, NoRequest, Ask
  <2>2. Served(w)'
    BY <1>1, <1>3, <1>4 DEF Served, SameRequest
  <2> QED
    BY <2>1, <2>2 DEF Serving
<1>7. KeysPrivate'
  BY <1>4, <1>5 DEF SessionInv, KeysPrivate
<1>8. req[w].data.auth \subseteq earned[req[w].by]
  BY <1>1 DEF SessionInv, RequestsEarned, Pending
<1>9. RowsEarned'
  BY <1>1, <1>4, <1>5, <1>8 DEF SessionInv, RowsEarned
<1>10. RequestsEarned'
  <2>1. ASSUME NEW v \in Workers \ {w}, pc'[v] # "idle"
        PROVE  req'[v].data.auth \subseteq earned'[req'[v].by] \cup Pending(v)'
    <3>1. pc[v] # "idle" /\ req'[v] = req[v] /\ pc'[v] = pc[v]
      BY <1>3, <2>1 DEF Handled
    <3> QED
      BY <1>1, <3>1 DEF SessionInv, RequestsEarned, Pending, Proved
  <2> QED
    BY <1>1, <1>3, <1>8, <2>1 DEF RequestsEarned, SameRequest
<1> QED
  BY <1>3, <1>6, <1>7, <1>9, <1>10

(* What is stored was earned, now at the latest.                           *)
LEMMA SaveKeeps ==
    ASSUME SessionInv, NEW w \in Workers, Save(w)
    PROVE  Handled(w) /\ (Serving /\ KeysPrivate /\ RowsEarned /\ RequestsEarned)'
<1>1. /\ TypeOK /\ Served(w) /\ UNCHANGED <<pin, cookie>> /\ req[w].by \in Browsers
      /\ pc[w] = "save" /\ req[w].key \in SKeys
  BY DEF SessionInv, Serving, Served, Save, TypeOK, Request
<1>2. /\ Handled(w) /\ SameRequest(w) /\ pc'[w] = "reply" /\ req'[w].data = Empty
      /\ req'[w].sent = req[w].sent /\ req'[w].key = req[w].key
  BY <1>1, Concluding DEF Save, Results
<1>3. UsesKept
  BY <1>1, <1>2, RequestsKeepUses DEF SameRequest
<1>4. /\ rows'[req[w].key] = [state |-> "live", data |-> req[w].data]
      /\ \A k \in SKeys \ {req[w].key} : rows'[k] = rows[k]
  BY <1>1 DEF TypeOK, Save
<1>5. /\ \A b \in Browsers : earned[b] \subseteq earned'[b]
      /\ req[w].data.auth \subseteq earned'[req[w].by]
  BY <1>1 DEF SessionInv, RequestsEarned, Pending, Save, TypeOK
<1>6. Serving'
  <2>1. ASSUME NEW v \in Workers \ {w} PROVE Served(v)'
    <3>1. req'[v] = req[v] /\ pc'[v] = pc[v] /\ Served(v)
      BY <1>2 DEF Handled, SessionInv, Serving
    <3> QED
      BY <3>1 DEF Served, NoRequest, Ask
  <2>2. Served(w)'
    BY <1>1, <1>2 DEF Served, SameRequest, Empty
  <2> QED
    BY <2>1, <2>2 DEF Serving
<1>7. KeysPrivate'
  BY <1>3, <1>4 DEF SessionInv, KeysPrivate, UsesKept
<1>8. RowsEarned'
  <2>1. ASSUME NEW b \in Browsers, Uses(b, req[w].key) PROVE b = req[w].by
    <3>1. Uses(req[w].by, req[w].key)
      BY DEF Uses
    <3> QED
      BY <1>1, <2>1, <3>1 DEF SessionInv, KeysPrivate
  <2> QED
    BY <1>3, <1>4, <1>5, <2>1 DEF SessionInv, RowsEarned, UsesKept
<1>9. RequestsEarned'
  <2>1. ASSUME NEW v \in Workers \ {w}, pc'[v] # "idle"
        PROVE  req'[v].data.auth \subseteq earned'[req'[v].by] \cup Pending(v)'
    <3>1. /\ pc[v] # "idle" /\ req'[v] = req[v] /\ pc'[v] = pc[v]
          /\ req[v].by \in Browsers
      BY <1>2, <2>1 DEF Handled, SessionInv, Serving, Served
    <3>2. Pending(v)' = Pending(v)
      BY <1>1, <3>1 DEF Pending, Proved
    <3> QED
      BY <1>5, <3>1, <3>2 DEF SessionInv, RequestsEarned
  <2> QED
    BY <1>2, <2>1 DEF RequestsEarned, Empty
<1> QED
  BY <1>2, <1>6, <1>7, <1>8, <1>9

-------------------------------------------------------------------------------
(* Everything that stops or forgets at once.                               *)
LEMMA StopServiceTyped ==
    ASSUME TypeOK, StopService
    PROVE  /\ req' \in [Workers -> Request] /\ pc' \in [Workers -> Places]
           /\ \A w \in Workers : pc'[w] = "idle" /\ req'[w] = NoRequest
BY NoRequestTyped DEF StopService, Places

LEMMA NoRequestHeld == NoRequest' = NoRequest /\ NoRequest.data.auth = {} /\ NoRequest.op = "none"
                       /\ NoRequest.sent = None /\ NoRequest.key = None /\ NoRequest.by = None
BY DEF NoRequest, Ask, Empty

LEMMA OperatorKeeps ==
    ASSUME SessionInv, SetPin \/ Revoke \/ Flush \/ (\E k \in SKeys : Expire(k))
    PROVE  (Serving /\ KeysPrivate /\ RowsEarned /\ RequestsEarned)'
<1>1. TypeOK
  BY DEF SessionInv
<1>2. ASSUME UsesKept, \A k \in SKeys : rows[k].state # "fresh" => rows'[k].state # "fresh"
      PROVE  KeysPrivate'
  BY <1>2 DEF SessionInv, KeysPrivate, UsesKept
<1>3. CASE SetPin \/ Flush
  <2>1. /\ \A w \in Workers : pc'[w] = "idle" /\ req'[w] = NoRequest
        /\ UNCHANGED cookie
    BY <1>1, <1>3, StopServiceTyped DEF SetPin, Flush
  <2>2. UsesKept
    BY <2>1, NoRequestHeld, ConstantsAssumption DEF UsesKept, Uses
  <2>3. /\ \A k \in SKeys : rows[k].state # "fresh" => rows'[k].state # "fresh"
        /\ \A k \in SKeys : rows'[k] = rows[k] \/ rows'[k].state # "live"
    BY <1>3 DEF SetPin, Flush, NoSessions, Lost
  <2>4. Serving'
    BY <2>1, NoRequestHeld DEF Serving, Served
  <2>5. RequestsEarned'
    BY <2>1 DEF RequestsEarned
  <2>6. RowsEarned'
    <3>1. CASE SetPin
      BY <2>2, <3>1 DEF SetPin, SessionInv, RowsEarned, UsesKept
    <3>2. CASE Flush
      BY <3>2 DEF Flush, NoSessions, Lost, RowsEarned
    <3> QED
      BY <1>3, <3>1, <3>2
  <2> QED
    BY <1>2, <2>2, <2>3, <2>4, <2>5, <2>6
<1>4. CASE Revoke
  <2>1. UNCHANGED <<cookie, req, pc, pin>>
    BY <1>4 DEF Revoke
  <2>2. UsesKept
    BY <2>1 DEF UsesKept, Uses
  <2>3. /\ \A k \in SKeys : rows[k].state # "fresh" => rows'[k].state # "fresh"
        /\ \A k \in SKeys : rows'[k].state # "live"
    BY <1>4 DEF Revoke, NoSessions, Lost
  <2>4. Serving'
    BY <2>1, NoRequestHeld DEF SessionInv, Serving, Served
  <2>5. \A w \in Workers : req[w].by \in Browsers => req[w].data.auth \subseteq earned'[req[w].by]
    BY <1>4 DEF Revoke
  <2>6. RequestsEarned'
    BY <2>1, <2>5 DEF SessionInv, Serving, Served, RequestsEarned
  <2>7. RowsEarned'
    BY <2>3 DEF RowsEarned
  <2> QED
    BY <1>2, <2>2, <2>3, <2>4, <2>6, <2>7
<1>5. ASSUME NEW j \in SKeys, Expire(j)
      PROVE  (Serving /\ KeysPrivate /\ RowsEarned /\ RequestsEarned)'
  <2>1. UNCHANGED <<cookie, req, pc, pin, earned>>
    BY <1>5 DEF Expire
  <2>2. UsesKept
    BY <2>1 DEF UsesKept, Uses
  <2>3. /\ \A k \in SKeys : rows[k].state # "fresh" => rows'[k].state # "fresh"
        /\ \A k \in SKeys : rows'[k] = rows[k] \/ rows'[k].state # "live"
    BY <1>1, <1>5 DEF Expire, Lost, TypeOK
  <2>4. Serving'
    BY <2>1, NoRequestHeld DEF SessionInv, Serving, Served
  <2>5. RequestsEarned'
    BY <2>1 DEF SessionInv, RequestsEarned, Pending, Proved
  <2>6. RowsEarned'
    BY <2>1, <2>2, <2>3 DEF SessionInv, RowsEarned, UsesKept
  <2> QED
    BY <1>2, <2>2, <2>3, <2>4, <2>5, <2>6
<1> QED
  BY <1>3, <1>4, <1>5

LEMMA StepKeeps ==
    ASSUME SessionInv, NEW w \in Workers, Send(w) \/ Step(w) \/ Crash(w)
    PROVE  Handled(w) /\ (Serving /\ KeysPrivate /\ RowsEarned /\ RequestsEarned)'
BY SendKeeps, LeavingKeeps, InsertKeeps, SaveKeeps, QuietSteps DEF Step

LEMMA TypeInductive == SessionInv /\ [Next]_vars => TypeOK'
<1> SUFFICES ASSUME SessionInv, [Next]_vars PROVE TypeOK'
  OBVIOUS
<1>1. TypeOK /\ Serving
  BY DEF SessionInv
<1>2. CASE UNCHANGED vars
  BY <1>1, <1>2 DEF vars, TypeOK
<1>3. ASSUME NEW w \in Workers, Send(w) \/ Step(w) \/ Crash(w) PROVE TypeOK'
  <2>1. req' \in [Workers -> Request] /\ pc' \in [Workers -> Places]
    BY <1>3, StepKeeps DEF Handled
  <2>2. req[w] \in Request /\ UNCHANGED pin
    BY <1>1, <1>3 DEF TypeOK, Send, Crash, Step, Load, Insert, Drop, CycleFails, Denied, MakeForm,
       MakeTask, StoreTask, MakeNoTask, DeleteTask, Save, SaveInterrupted, Reply
  <2>3. rows' \in [SKeys -> Row]
    <3>1. CASE Insert(w) \/ Save(w)
      <4>1. PICK k \in SKeys :
               rows' = [rows EXCEPT ![k] = [state |-> "live", data |-> req[w].data]]
        <5>1. pc[w] = "save" => req[w].key \in SKeys
          BY <1>1, <2>2 DEF Serving, Served, Request
        <5> QED
          BY <3>1, <5>1 DEF Insert, Save, FreshKeys
      <4>2. [state |-> "live", data |-> req[w].data] \in Row
        BY <2>2 DEF Request, Row
      <4> QED
        BY <1>1, <4>1, <4>2 DEF TypeOK
    <3>2. CASE Drop(w)
      BY <1>1, <3>2, EmptyTyped DEF TypeOK, Drop
    <3>3. CASE ~(Insert(w) \/ Save(w) \/ Drop(w))
      BY <1>1, <1>3, <3>3 DEF TypeOK, Send, Crash, Step, Load, CycleFails, Denied, MakeForm,
         MakeTask, StoreTask, MakeNoTask, DeleteTask, SaveInterrupted, Reply
    <3> QED
      BY <3>1, <3>2, <3>3
  <2>4. tasks' \in [Tasks -> [status : {"unused", "live", "deleted"}, nonce : Nonces \cup {None}]]
    <3>1. CASE MakeTask(w)
      BY <1>1, <2>2, <3>1 DEF TypeOK, MakeTask, StoreTask, Request
    <3>2. CASE DeleteTask(w)
      BY <1>1, <3>2 DEF TypeOK, DeleteTask
    <3>3. CASE ~(MakeTask(w) \/ DeleteTask(w))
      BY <1>1, <1>3, <3>3 DEF TypeOK, Send, Crash, Step, Load, Insert, Drop, CycleFails, Denied,
         MakeForm, MakeNoTask, Save, SaveInterrupted, Reply
    <3> QED
      BY <3>1, <3>2, <3>3
  <2>5. /\ cookie' \in [Browsers -> SKeys \cup {None}] /\ forms' \in [Browsers -> SUBSET Nonces]
        /\ shown' \subseteq Tasks
    <3>1. CASE Reply(w)
      <4>1. pc[w] = "reply" /\ (req[w].op = "form" => req[w].nonce \in Nonces)
        BY <1>1, <3>1 DEF Reply, Serving, Served
      <4>2. cookie' \in [Browsers -> SKeys \cup {None}]
        BY <1>1, <2>2, <3>1 DEF Reply, TypeOK, Request
      <4>3. forms' \in [Browsers -> SUBSET Nonces]
        BY <1>1, <2>2, <3>1, <4>1 DEF Reply, TypeOK
      <4>4. shown' \subseteq Tasks
        BY <1>1, <3>1 DEF Reply, TypeOK
      <4> QED
        BY <4>2, <4>3, <4>4
    <3>2. CASE ~Reply(w)
      BY <1>1, <1>3, <3>2 DEF TypeOK, Send, Crash, Step, Load, Insert, Drop, CycleFails, Denied,
         MakeForm, MakeTask, StoreTask, MakeNoTask, DeleteTask, Save, SaveInterrupted
    <3> QED
      BY <3>1, <3>2
  <2>6. earned' \in [Browsers -> SUBSET Authorizations]
    <3>1. CASE Save(w)
      <4>1. req[w].op \in {"login", "exchange"} => Proved(w) \in Authorizations
        BY <1>1 DEF TypeOK, Proved, Authorizations, Serving, Served
      <4> QED
        BY <1>1, <3>1, <4>1 DEF Save, TypeOK
    <3>2. CASE ~Save(w)
      BY <1>1, <1>3, <3>2 DEF TypeOK, Send, Crash, Step, Load, Insert, Drop, CycleFails, Denied,
         MakeForm, MakeTask, StoreTask, MakeNoTask, DeleteTask, SaveInterrupted, Reply
    <3> QED
      BY <3>1, <3>2
  <2> QED
    BY <1>1, <2>1, <2>2, <2>3, <2>4, <2>5, <2>6 DEF TypeOK, Places
<1>4. CASE SetPin
  BY <1>1, <1>4, StopServiceTyped DEF SetPin, TypeOK, Places
<1>5. CASE Flush
  <2>1. /\ req' \in [Workers -> Request] /\ pc' \in [Workers -> Places]
        /\ rows' \in [SKeys -> Row]
    BY <1>1, <1>5, StopServiceTyped, EmptyTyped DEF Flush, NoSessions, TypeOK
  <2> QED
    BY <1>1, <1>5, <2>1 DEF Flush, NoTasks, TypeOK, Places
<1>6. CASE Revoke
  <2>1. rows' \in [SKeys -> Row]
    BY <1>1, <1>6, EmptyTyped DEF Revoke, NoSessions, TypeOK
  <2>2. \A w \in Workers : req[w].data.auth \subseteq Authorizations
    BY <1>1 DEF TypeOK, Request, Data
  <2>3. earned' \in [Browsers -> SUBSET Authorizations]
    BY <1>6, <2>2 DEF Revoke
  <2> QED
    BY <1>1, <1>6, <2>1, <2>3 DEF Revoke, TypeOK
<1>7. ASSUME NEW k \in SKeys, Expire(k) PROVE TypeOK'
  BY <1>1, <1>7, EmptyTyped DEF Expire, TypeOK
<1> QED
  BY <1>2, <1>3, <1>4, <1>5, <1>6, <1>7 DEF Next

LEMMA SessionInductive == SessionInv /\ [Next]_vars => SessionInv'
<1>1. SessionInv /\ UNCHANGED vars => (Serving /\ KeysPrivate /\ RowsEarned /\ RequestsEarned)'
  BY NoRequestHeld DEF vars, SessionInv, Serving, Served, KeysPrivate, RowsEarned, RequestsEarned,
     Uses, Pending, Proved
<1> QED
  BY <1>1, TypeInductive, StepKeeps, OperatorKeeps DEF Next, SessionInv

LEMMA InitTyped == Init => TypeOK
<1>1. NoRequest.by = None
  BY NoRequestHeld
<1> QED
  BY EmptyTyped, NoRequestTyped DEF Init, TypeOK, Row

LEMMA InitHeld == Init => Serving /\ KeysPrivate /\ RowsEarned /\ RequestsEarned
<1>1. Init => \A k \in SKeys, b \in Browsers : ~Uses(b, k)
  BY NoRequestHeld, ConstantsAssumption DEF Init, Uses
<1>2. Init => Serving
  BY NoRequestHeld DEF Init, Serving, Served
<1> QED
  BY <1>1, <1>2 DEF Init, KeysPrivate, RowsEarned, RequestsEarned

LEMMA SessionInvariant == Spec => []SessionInv
<1>1. Init => SessionInv
  BY InitTyped, InitHeld DEF SessionInv
<1> QED
  BY <1>1, SessionInductive, PTL DEF Spec

(* Every variable has its type.                                            *)
THEOREM TypeCorrect == Spec => []TypeOK
<1>1. SessionInv => TypeOK
  BY DEF SessionInv
<1> QED
  BY <1>1, SessionInvariant, PTL

(* auth.py and SessionMiddleware read a session once and write it back as  *)
(* a whole while other requests of the browser, the operator and restarts  *)
(* come between; what a browser's cookie opens, that browser has earned.   *)
THEOREM AuthorizationsEarned == Spec => []AuthorizationEarned
<1>1. SessionInv => AuthorizationEarned
  BY DEF SessionInv, TypeOK, RowsEarned, Uses, AuthorizationEarned
<1> QED
  BY <1>1, SessionInvariant, PTL

(* views.py:113-155 (task_create): the snapshot in which a request finds   *)
(* the creator's fingerprint was earned with the PIN that is in force.     *)
THEOREM CurrentPinCreates == Spec => OnlyCurrentPinCreates
<1> DEFINE A == \A w \in Workers : pc[w] = "create" /\ req'[w].task # req[w].task /\ pc'[w] = "save"
                                  => pin \in earned[req[w].by]
<1>1. SessionInv /\ [Next]_vars => [A]_vars
  <2> SUFFICES ASSUME SessionInv, Next, NEW w \in Workers, pc[w] = "create",
                      req'[w].task # req[w].task, pc'[w] = "save"
               PROVE  pin \in earned[req[w].by]
    OBVIOUS
  <2>1. TypeOK /\ Served(w)
    BY DEF SessionInv, Serving
  <2>2. IsCreator(w)
    <3>1. CASE \E v \in Workers : Send(v) \/ Step(v) \/ Crash(v)
      <4>1. PICK v \in Workers : Send(v) \/ Step(v) \/ Crash(v)
        BY <3>1
      <4>2. v = w
        BY <4>1, StepKeeps DEF Handled
      <4> QED
        BY <2>1, <4>1, <4>2 DEF Send, Crash, Step, Load, Insert, Drop, CycleFails, Denied, MakeForm,
           MakeTask, StoreTask, MakeNoTask, DeleteTask, Save, SaveInterrupted, Reply, Conclude,
           Goto, TypeOK
    <3>2. CASE ~\E v \in Workers : Send(v) \/ Step(v) \/ Crash(v)
      BY <3>2 DEF Next, SetPin, Revoke, Flush, Expire, StopService
    <3> QED
      BY <3>1, <3>2
  <2> QED
    BY <2>2 DEF SessionInv, RequestsEarned, Pending, IsCreator, Holds
<1> QED
  BY <1>1, SessionInvariant, PTL DEF Spec, OnlyCurrentPinCreates
===============================================================================
