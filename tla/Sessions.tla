------------------------------- MODULE Sessions -------------------------------
(***************************************************************************)
(* What a browser may do: the creator's and the teachers' authorizations   *)
(* and the creation forms, kept in Django's database sessions              *)
(* (drops/auth.py, the session parts of drops/views.py, the operator's     *)
(* set-pin, revoke-sessions and flush-data).                               *)
(*                                                                         *)
(* A request works on a snapshot of its session, read once and written     *)
(* back as a whole when the response is ready; the requests of one         *)
(* browser's tabs overlap.  Creating a task is one step here: HandIn       *)
(* takes it apart.                                                         *)
(***************************************************************************)
EXTENDS Naturals, SequencesExt

CONSTANTS
    Workers,    \* gunicorn sync workers
    Browsers,   \* cookie jars
    SKeys,      \* session keys; a key is random and never given out twice
    Tasks,      \* ids of tasks
    Nonces,     \* hashes of the creation forms' nonces
    Pins,       \* fingerprints of the creator PINs, in the order they are set
    None,
    Keep,       \* older forms a session remembers
    Faults,     \* "crash", "db" (a session row cannot be written), "expire"
    Offered     \* see Operations

Operations == {"login", "exchange", "form", "post", "delete",
               "setpin", "revoke", "flush"}

ASSUME ConstantsAssumption ==
    /\ None \notin SKeys \cup Tasks \cup Nonces
    /\ Pins \subseteq Nat \ {0}
    /\ Pins \cap Tasks = {}
    /\ Keep \in Nat \ {0}
    /\ Faults \subseteq {"crash", "db", "expire"}
    /\ Offered \subseteq Operations

VARIABLES
    rows,       \* django_session: key -> the session's data
    tasks,      \* Task rows; ids are not used again; a deleted one's nonce is a ghost
    pin,        \* CREATOR_PIN_HASH, as the running service has it
    cookie,     \* the session cookie in each browser
    forms,      \* creation forms delivered to each browser: tabs, history
    shown,      \* tasks that exist and whose keys some browser was shown
    pc,
    req,        \* the request each worker serves, with its session snapshot
    earned      \* ghost: what each browser has shown a PIN or a key for

vars == <<rows, tasks, pin, cookie, forms, shown, pc, req, earned>>

Authorizations == Pins \cup Tasks

(* auth: the tasks granted and the PIN fingerprint, if there is one.       *)
Data == [auth : SUBSET Authorizations, nonces : Seq(Nonces)]

Empty == [auth |-> {}, nonces |-> <<>>]

(* The data of an expired or deleted row is never read again.              *)
Lost(state) == [state |-> state, data |-> Empty]

Row == [state : {"fresh", "live", "expired", "gone"}, data : Data]

Request == [op : {"none", "login", "exchange", "form", "post", "delete"},
            by      : Browsers \cup {None},
            sent    : SKeys \cup {None},    \* the cookie the request carries
            key     : SKeys \cup {None},    \* request.session.session_key
            data    : Data,                 \* request.session, as cached
            task    : Tasks \cup {None},
            nonce   : Nonces \cup {None},
            outcome : {"none", "saved", "interrupted", "created", "used",
                       "refused", "denied", "deleted", "error"}]

Ask(op, b, t, n) ==
    [op |-> op, by |-> b, sent |-> IF b = None THEN None ELSE cookie[b],
     key |-> IF b = None THEN None ELSE cookie[b], data |-> Empty,
     task |-> t, nonce |-> n, outcome |-> "none"]

NoRequest == Ask("none", None, None, None)

TypeOK ==
    /\ rows \in [SKeys -> Row]
    /\ tasks \in [Tasks -> [status : {"unused", "live", "deleted"},
                            nonce : Nonces \cup {None}]]
    /\ pin \in Pins
    /\ cookie \in [Browsers -> SKeys \cup {None}]
    /\ forms \in [Browsers -> SUBSET Nonces]
    /\ shown \subseteq Tasks
    /\ pc \in [Workers -> {"idle", "load", "insert", "drop", "create", "delete",
                           "save", "reply"}]
    /\ req \in [Workers -> Request]
    /\ earned \in [Browsers -> SUBSET Authorizations]

Init ==
    /\ rows = [k \in SKeys |-> [state |-> "fresh", data |-> Empty]]
    /\ tasks = [t \in Tasks |-> [status |-> "unused", nonce |-> None]]
    /\ pin \in Pins /\ \A p \in Pins : pin <= p
    /\ cookie = [b \in Browsers |-> None]
    /\ forms = [b \in Browsers |-> {}]
    /\ shown = {}
    /\ pc = [w \in Workers |-> "idle"]
    /\ req = [w \in Workers |-> NoRequest]
    /\ earned = [b \in Browsers |-> {}]

-------------------------------------------------------------------------------
Live(t) == tasks[t].status = "live"

Goto(w, l) == pc' = [pc EXCEPT ![w] = l]

Conclude(w, outcome) ==
    /\ Goto(w, "reply")
    /\ req' = [req EXCEPT ![w] = [req[w] EXCEPT !.outcome = outcome, !.data = Empty]]

Holds(w, x) == x \in req[w].data.auth

Used(n) == \E t \in Tasks : Live(t) /\ tasks[t].nonce = n

(* Nonces are random: no form, session or request has this one.            *)
NewNonce(n) == /\ \A b \in Browsers : n \notin forms[b]
               /\ \A k \in SKeys : ~Contains(rows[k].data.nonces, n)
               /\ \A w \in Workers : req[w].nonce # n /\ ~Contains(req[w].data.nonces, n)

(* list[-k:]                                                               *)
Newest(s, k) == IF Len(s) <= k THEN s ELSE SubSeq(s, Len(s) - k + 1, Len(s))

-------------------------------------------------------------------------------
(* Requests that will need a session key of their own; one is sent only    *)
(* while a fresh key is left for it, the bound on the number of rows.      *)
Cycling   == {w \in Workers : pc[w] \in {"load", "insert"} /\ req[w].op \in {"login", "exchange"}}
FreshKeys == {k \in SKeys : rows[k].state = "fresh"}

(* A tab sends a request.  The browser posts only forms it was given, uses *)
(* a task's key only once it was shown, and sends the right PIN: wrong     *)
(* ones are CreatorPin's.                                                  *)
Send(w) ==
    /\ pc[w] = "idle"
    /\ Goto(w, "load")
    /\ \E b \in Browsers, op \in Offered, t \in Tasks \cup {None}, n \in Nonces \cup {None} :
          /\ op \in {"login", "exchange", "form", "post", "delete"}
          /\ op \in {"login", "exchange"} => Cardinality(Cycling) < Cardinality(FreshKeys)
          /\ IF op \in {"exchange", "delete"} THEN t \in shown ELSE t = None
          /\ CASE op = "form" -> n # None /\ NewNonce(n)
               [] op = "post" -> n \in forms[b]
               [] OTHER       -> n = None
          /\ req' = [req EXCEPT ![w] = Ask(op, b, t, n)]
    /\ UNCHANGED <<rows, tasks, pin, cookie, forms, shown, earned>>

(* First access to request.session: an expired or missing row is an empty  *)
(* session without a key.                                                  *)
Load(w) ==
    /\ pc[w] = "load"
    /\ LET k     == req[w].key
           known == k # None /\ rows[k].state = "live"
       IN  req' = [req EXCEPT ![w] = [req[w] EXCEPT !.key  = IF known THEN k ELSE None,
                                                    !.data = IF known THEN rows[k].data ELSE Empty]]
    /\ Goto(w, CASE req[w].op \in {"login", "exchange"} -> "insert"
                 [] req[w].op = "delete"                -> "delete"
                 [] OTHER                               -> "create")
    /\ UNCHANGED <<rows, tasks, pin, cookie, forms, shown, earned>>

-------------------------------------------------------------------------------
(* authorize_creator and grant_task_admin: cycle_key copies the snapshot   *)
(* to a row with a new key and deletes the old row, and only then is the   *)
(* authorization added, to be stored with the response.                    *)

Insert(w) ==
    /\ pc[w] = "insert"
    /\ \E k \in FreshKeys :
          /\ rows' = [rows EXCEPT ![k] = [state |-> "live", data |-> req[w].data]]
          /\ req' = [req EXCEPT ![w] = [req[w] EXCEPT !.key = k, !.sent = req[w].key]]
    /\ Goto(w, "drop")
    /\ UNCHANGED <<tasks, pin, cookie, forms, shown, earned>>

(* What the PIN or the key that came with the request proves.              *)
Proved(w) == IF req[w].op = "login" THEN pin ELSE req[w].task

GrantedKey(w) == req[w].data.auth \cup {req[w].key}   \* mutant: the session's key, not the task's id

Granted(w) == IF req[w].op = "login"
              THEN (req[w].data.auth \ Pins) \cup {pin}
              ELSE req[w].data.auth \cup {req[w].task}

Drop(w) ==
    /\ pc[w] = "drop"
    /\ rows' = IF req[w].sent = None THEN rows
                                     ELSE [rows EXCEPT ![req[w].sent] = Lost("gone")]
    /\ req' = [req EXCEPT ![w].data.auth = Granted(w)]
    /\ Goto(w, "save")
    /\ UNCHANGED <<tasks, pin, cookie, forms, shown, earned>>

CycleFails(w) ==
    /\ pc[w] \in {"insert", "drop"}
    /\ "db" \in Faults
    /\ Conclude(w, "error")
    /\ UNCHANGED <<rows, tasks, pin, cookie, forms, shown, earned>>

-------------------------------------------------------------------------------
AnyPin(w) == req[w].data.auth \cap Pins # {}   \* mutant: the fingerprint is not compared

IsCreator(w) == Holds(w, pin)

Denied(w) ==
    /\ \/ pc[w] = "create" /\ ~IsCreator(w)
       \/ pc[w] = "delete" /\ (~Holds(w, req[w].task) \/ ~Live(req[w].task))
    /\ Conclude(w, "denied")
    /\ UNCHANGED <<rows, tasks, pin, cookie, forms, shown, earned>>

(* task_create, GET: the session remembers the new form and Keep others.   *)
MakeForm(w) ==
    /\ pc[w] = "create"
    /\ req[w].op = "form"
    /\ IsCreator(w)
    /\ req' = [req EXCEPT ![w].data.nonces = Append(Newest(@, Keep), req[w].nonce)]
    /\ Goto(w, "save")
    /\ UNCHANGED <<rows, tasks, pin, cookie, forms, shown, earned>>

Known(w) == Contains(req[w].data.nonces, req[w].nonce)

(* The list without this nonce, which is random and in it only once.       *)
Without(nonces, n) == RemoveAt(nonces, CHOOSE i \in DOMAIN nonces : nonces[i] = n)

(* task_create, POST, when create_task succeeds: the snapshot loses the    *)
(* nonce, and with the response the row will.                              *)
StoreTask(w) ==
    /\ \E t \in Tasks :
          /\ tasks[t].status = "unused"
          /\ tasks' = [tasks EXCEPT ![t] = [status |-> "live", nonce |-> req[w].nonce]]
          /\ req' = [req EXCEPT ![w] =
                [req[w] EXCEPT !.task = t, !.data.nonces = Without(@, req[w].nonce)]]
    /\ Goto(w, "save")
    /\ UNCHANGED <<rows, pin, cookie, forms, shown, earned>>

MakeTask(w) ==
    /\ pc[w] = "create"
    /\ req[w].op = "post"
    /\ IsCreator(w) /\ Known(w) /\ ~Used(req[w].nonce)
    /\ StoreTask(w)

(* The form is not in the session or its nonce is claimed; or the files    *)
(* are too large, the disk is full or the database fails.                  *)
MakeNoTask(w) ==
    /\ pc[w] = "create"
    /\ req[w].op = "post"
    /\ IsCreator(w)
    /\ IF Known(w) /\ ~Used(req[w].nonce) THEN Conclude(w, "refused")
                                          ELSE Conclude(w, "used")
    /\ UNCHANGED <<rows, tasks, pin, cookie, forms, shown, earned>>

DeleteTask(w) ==
    /\ pc[w] = "delete"
    /\ Holds(w, req[w].task)
    /\ Live(req[w].task)
    /\ tasks' = [tasks EXCEPT ![req[w].task].status = "deleted"]
    /\ shown' = shown \ {req[w].task}
    /\ Conclude(w, "deleted")
    /\ UNCHANGED <<rows, pin, cookie, forms, earned>>

-------------------------------------------------------------------------------
(* SessionMiddleware writes the whole snapshot back to a row that is still *)
(* there, expired or not; otherwise the response becomes a 400.            *)
Save(w) ==
    /\ pc[w] = "save"
    /\ rows[req[w].key].state \in {"live", "expired"}
    /\ rows' = [rows EXCEPT ![req[w].key] = [state |-> "live", data |-> req[w].data]]
    /\ Conclude(w, IF req[w].op = "post" THEN "created" ELSE "saved")
    /\ earned' = IF req[w].op \in {"login", "exchange"}
                 THEN [earned EXCEPT ![req[w].by] = @ \cup {Proved(w)}]
                 ELSE earned
    /\ UNCHANGED <<tasks, pin, cookie, forms, shown>>

SaveInterrupted(w) ==
    /\ pc[w] = "save"
    /\ rows[req[w].key].state = "gone" \/ "db" \in Faults
    /\ Conclude(w, "interrupted")
    /\ UNCHANGED <<rows, tasks, pin, cookie, forms, shown, earned>>

(* A saved session sets the cookie; one that turned out empty clears it.   *)
Reply(w) ==
    /\ pc[w] = "reply"
    /\ LET b == req[w].by
       IN  /\ cookie' = CASE req[w].outcome \in {"saved", "created"} ->
                                [cookie EXCEPT ![b] = req[w].key]
                          [] req[w].outcome = "denied" /\ req[w].key = None ->
                                [cookie EXCEPT ![b] = None]
                          [] OTHER -> cookie
           /\ forms' = IF req[w].op = "form" /\ req[w].outcome = "saved"
                       THEN [forms EXCEPT ![b] = @ \cup {req[w].nonce}] ELSE forms
           /\ shown' = IF req[w].outcome = "created" THEN shown \cup ({req[w].task} \cap {t \in Tasks : Live(t)}) ELSE shown
    /\ Goto(w, "idle")
    /\ req' = [req EXCEPT ![w] = NoRequest]
    /\ UNCHANGED <<rows, tasks, pin, earned>>

-------------------------------------------------------------------------------
(* The worker is killed, or its response never reaches the browser.        *)
Crash(w) ==
    /\ "crash" \in Faults
    /\ pc[w] # "idle"
    /\ Goto(w, "idle")
    /\ req' = [req EXCEPT ![w] = NoRequest]
    /\ UNCHANGED <<rows, tasks, pin, cookie, forms, shown, earned>>

Expire(k) ==
    /\ "expire" \in Faults
    /\ rows[k].state = "live"
    /\ rows' = [rows EXCEPT ![k] = Lost("expired")]
    /\ UNCHANGED <<tasks, pin, cookie, forms, shown, pc, req, earned>>

StopService == /\ pc' = [w \in Workers |-> "idle"]
               /\ req' = [w \in Workers |-> NoRequest]

NoTasks == [t \in Tasks |-> IF Live(t) THEN [tasks[t] EXCEPT !.status = "deleted"]
                                       ELSE tasks[t]]

NoSessions == [k \in SKeys |-> IF rows[k].state = "fresh" THEN rows[k] ELSE Lost("gone")]

(* set-pin writes the new hash and restarts the service, which reads it.   *)
SetPin ==
    /\ "setpin" \in Offered
    /\ \E p \in Pins : p > pin /\ pin' = p
    /\ StopService
    /\ UNCHANGED <<rows, tasks, cookie, forms, shown, earned>>

(* revoke-sessions runs beside the service: a request under way keeps its  *)
(* snapshot, and a login or an exchange carries it over to a row that is   *)
(* made afterwards.                                                        *)
Revoke ==
    /\ "revoke" \in Offered
    /\ rows' = NoSessions
    /\ earned' = [b \in Browsers |->
                     UNION {req[w].data.auth : w \in {v \in Workers : req[v].by = b}}]
    /\ UNCHANGED <<tasks, pin, cookie, forms, shown, pc, req>>

FlushKeepsSessions ==     \* mutant: only the tasks are flushed
    /\ "flush" \in Offered
    /\ StopService
    /\ tasks' = NoTasks
    /\ earned' = [b \in Browsers |-> {}]
    /\ shown' = {}
    /\ UNCHANGED <<rows, pin, cookie, forms>>

(* flush-data runs while the service is stopped.                           *)
Flush ==
    /\ "flush" \in Offered
    /\ StopService
    /\ tasks' = NoTasks
    /\ rows' = NoSessions
    /\ earned' = [b \in Browsers |-> {}]
    /\ shown' = {}
    /\ UNCHANGED <<pin, cookie, forms>>

Step(w) == \/ Load(w) \/ Insert(w) \/ Drop(w) \/ CycleFails(w) \/ Denied(w)
           \/ MakeForm(w) \/ MakeTask(w) \/ MakeNoTask(w) \/ DeleteTask(w)
           \/ Save(w) \/ SaveInterrupted(w) \/ Reply(w)

Next == \/ \E w \in Workers : Send(w) \/ Step(w) \/ Crash(w)
        \/ \E k \in SKeys : Expire(k)
        \/ SetPin \/ Revoke \/ Flush

Spec == Init /\ [][Next]_vars
-------------------------------------------------------------------------------
(* What a browser's cookie opens, that browser has itself shown the PIN or *)
(* the task's key for since the operator last signed everyone out, or had  *)
(* in a request under way then: tabs that overlap, restarts and reissued   *)
(* keys lend it nothing.                                                   *)
AuthorizationEarned ==
    \A b \in Browsers :
        cookie[b] # None /\ rows[cookie[b]].state = "live"
        => rows[cookie[b]].data.auth \subseteq earned[b]

(* A task comes into being only for a browser that has shown the PIN that  *)
(* is in force, not one that was replaced.                                 *)
OnlyCurrentPinCreates ==
    [][\A w \in Workers : pc[w] = "create" /\ req'[w].task # req[w].task /\ pc'[w] = "save"
                          => pin \in earned[req[w].by]]_vars

(* A creation form is single-use: however often it is posted, and whatever *)
(* other tabs write back to the session meanwhile, it makes one task at    *)
(* most, also when that task has been deleted since.                       *)
NonceSingleUse ==
    \A t, u \in Tasks : tasks[t].nonce # None /\ tasks[t].nonce = tasks[u].nonce => t = u

(* The answer to a post that has created a task is the page with its keys. *)
CreationRendersReceipt ==
    \A w \in Workers : /\ pc[w] = "reply"
                       /\ req[w].op = "post"
                       /\ req[w].task # None
                       => req[w].outcome = "created"
===============================================================================
