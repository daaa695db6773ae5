------------------------------- MODULE DropBox --------------------------------
(***************************************************************************)
(* What the hand-in core promises, whole operations at a time: a task is   *)
(* created once per form nonce, a hand-in is stored with all its files or  *)
(* not at all, once per key and only while its task is open, and a receipt *)
(* is only ever handed out for a hand-in that was stored.                  *)
(***************************************************************************)
CONSTANTS Workers, Tasks, Subs, Keys, Files, None

VARIABLES tasks, subs, owner, answer

box == <<tasks, subs, owner, answer>>

Exists(t) == tasks[t].status \in {"open", "closed"}
Stored(s) == subs[s].state = "stored"

Init ==
    /\ tasks = [t \in Tasks |-> [status |-> "unused", nonce |-> None]]
    /\ subs = [s \in Subs |-> [state |-> "unused", task |-> None, key |-> None]]
    /\ owner = [f \in Files |-> None]
    /\ answer = [w \in Workers |-> None]

(* The files F become those of x; no file ever has two parents.            *)
Attach(F, x) ==
    /\ \A f \in F : owner[f] = None
    /\ owner' = [f \in Files |-> IF f \in F THEN x ELSE owner[f]]

Create(t, n, F) ==
    /\ tasks[t].status = "unused"
    /\ \A u \in Tasks : Exists(u) => tasks[u].nonce # n
    /\ tasks' = [tasks EXCEPT ![t] = [status |-> "open", nonce |-> n]]
    /\ Attach(F, t)
    /\ UNCHANGED <<subs, answer>>

Accept(w, s, t, k, F) ==
    /\ tasks[t].status = "open"
    /\ subs[s].state = "unused"
    /\ \A r \in Subs : Stored(r) => subs[r].key # k
    /\ subs' = [subs EXCEPT ![s] = [state |-> "stored", task |-> t, key |-> k]]
    /\ Attach(F, s)
    /\ answer' = [answer EXCEPT ![w] = s]
    /\ UNCHANGED tasks

Repeat(w, s) ==
    /\ Stored(s)
    /\ answer' = [answer EXCEPT ![w] = s]
    /\ UNCHANGED <<tasks, subs, owner>>

Forget(w) ==
    /\ answer' = [answer EXCEPT ![w] = None]
    /\ UNCHANGED <<tasks, subs, owner>>

SetStatus(T, status) ==
    /\ \A t \in T : Exists(t)
    /\ tasks' = [t \in Tasks |-> IF t \in T THEN [tasks[t] EXCEPT !.status = status]
                                            ELSE tasks[t]]
    /\ UNCHANGED <<subs, owner, answer>>

(* The rows of a task T or of a hand-in S go together with all below them. *)
Remove(T, S) ==
    /\ \A s \in Subs : Stored(s) /\ subs[s].task \in T => s \in S
    /\ tasks' = [t \in Tasks |-> IF t \in T THEN [status |-> "deleted", nonce |-> None]
                                            ELSE tasks[t]]
    /\ subs' = [s \in Subs |-> IF s \in S THEN [state |-> "deleted", task |-> None, key |-> None]
                                          ELSE subs[s]]
    /\ owner' = [f \in Files |-> IF owner[f] \in T \cup S THEN None ELSE owner[f]]
    /\ UNCHANGED answer

Next ==
    \/ \E t \in Tasks, n \in Keys, F \in SUBSET Files : Create(t, n, F)
    \/ \E w \in Workers, s \in Subs, t \in Tasks, k \in Keys, F \in SUBSET Files :
          Accept(w, s, t, k, F)
    \/ \E w \in Workers, s \in Subs : Repeat(w, s)
    \/ \E w \in Workers : Forget(w)
    \/ \E T \in SUBSET Tasks, status \in {"open", "closed"} : SetStatus(T, status)
    \/ \E s \in Subs : Stored(s) /\ Remove({}, {s})
    \/ \E t \in Tasks :
          /\ Exists(t)
          /\ Remove({t}, {s \in Subs : Stored(s) /\ subs[s].task = t})

Spec == Init /\ [][Next]_box
===============================================================================
