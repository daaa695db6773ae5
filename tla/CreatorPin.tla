------------------------------ MODULE CreatorPin ------------------------------
(***************************************************************************)
(* The installation-wide limit on wrong creator PINs: the one row of       *)
(* RateLimitBucket, and the requests of creator_login that read it before  *)
(* they check a PIN and write it afterwards (drops/rate_limits.py).        *)
(* Checking is slow on purpose; time passes and other requests finish      *)
(* between any two steps of a request.                                     *)
(***************************************************************************)
EXTENDS Integers, FiniteSets

CONSTANTS
    Workers,    \* gunicorn sync workers
    Attempts,   \* CREATOR_PIN_GLOBAL_ATTEMPTS
    Window,     \* CREATOR_PIN_WINDOW_SECONDS, in ticks
    Lock,       \* CREATOR_PIN_LOCK_SECONDS, in ticks
    MaxTime     \* the bound on the clock

ASSUME LimitsAssumption ==
    /\ IsFiniteSet(Workers)
    /\ Attempts \in Nat \ {0}
    /\ Window \in Nat \ {0}
    /\ Lock \in Nat \ {0}
    /\ MaxTime \in Nat

VARIABLES
    now,
    bucket,     \* the row; failures = 0 where there is none
    pc,
    stamp,      \* the time record_creator_pin_failure took, before it waits
    wrong       \* ghost: PINs refused before each time, since one was accepted

vars == <<now, bucket, pc, stamp, wrong>>

Times  == 0..MaxTime
Counts == [0..(MaxTime + Window) -> Nat]

(* locked_until is 0 for NULL: both are in the past.                       *)
NoBucket == [start |-> 0, failures |-> 0, until |-> 0]

TypeOK ==
    /\ now \in Times
    /\ bucket \in [start : Times, failures : Nat, until : 0..(MaxTime + Lock)]
    /\ pc \in [Workers -> {"idle", "allow", "verify", "reset", "stamp", "record"}]
    /\ stamp \in [Workers -> Times]
    /\ wrong \in Counts

Init ==
    /\ now = 0
    /\ bucket = NoBucket
    /\ pc = [w \in Workers |-> "idle"]
    /\ stamp = [w \in Workers |-> 0]
    /\ wrong = [t \in 0..(MaxTime + Window) |-> 0]

-------------------------------------------------------------------------------
Goto(w, l) == pc' = [pc EXCEPT ![w] = l]

Login(w) ==
    /\ pc[w] = "idle"
    /\ Goto(w, "allow")
    /\ UNCHANGED <<now, bucket, stamp, wrong>>

(* creator_pin_is_allowed; otherwise the answer is the 429 page.           *)
Allow(w) ==
    /\ pc[w] = "allow"
    /\ Goto(w, IF bucket.until <= now THEN "verify" ELSE "idle")
    /\ UNCHANGED <<now, bucket, stamp, wrong>>

Verify(w) ==
    /\ pc[w] = "verify"
    /\ Goto(w, "reset") \/ Goto(w, "stamp")
    /\ UNCHANGED <<now, bucket, stamp, wrong>>

(* reset_creator_pin_failures, and the browser is authorized.              *)
Reset(w) ==
    /\ pc[w] = "reset"
    /\ bucket' = NoBucket
    /\ wrong' = [t \in DOMAIN wrong |-> 0]
    /\ Goto(w, "idle")
    /\ UNCHANGED <<now, stamp>>

(* record_creator_pin_failure takes the time and waits for the lock.       *)
Stamp(w) ==
    /\ pc[w] = "stamp"
    /\ stamp' = [stamp EXCEPT ![w] = now]
    /\ Goto(w, "record")
    /\ UNCHANGED <<now, bucket, wrong>>

CountedLonger(b, at) ==   \* mutant: the lock is extended, not set
    [b EXCEPT !.failures = @ + 1,
              !.until    = IF b.failures + 1 >= Attempts THEN @ + Lock ELSE @]

CountedOnce(b, at) ==     \* mutant: locked only by the failure that reaches the limit
    [b EXCEPT !.failures = @ + 1,
              !.until    = IF b.failures + 1 = Attempts THEN at + Lock ELSE @]

Counted(b, at) == [b EXCEPT !.failures = @ + 1,
                            !.until    = IF b.failures + 1 >= Attempts THEN at + Lock ELSE @]

(* The transaction: get_or_create starts the window of a new bucket.       *)
Record(w) ==
    /\ pc[w] = "record"
    /\ LET at    == stamp[w]
           stale == bucket.failures = 0 \/ bucket.start + Window <= at
       IN  bucket' = IF stale THEN Counted([NoBucket EXCEPT !.start = at], at)
                              ELSE Counted(bucket, at)
    /\ wrong' = [t \in DOMAIN wrong |-> IF now < t THEN wrong[t] + 1 ELSE wrong[t]]
    /\ Goto(w, "idle")
    /\ UNCHANGED <<now, stamp>>

(* The worker is killed, or the database stays locked and the answer is an *)
(* error page that says nothing of the PIN.                                *)
GiveUp(w) ==
    /\ pc[w] \in {"reset", "stamp", "record"}
    /\ Goto(w, "idle")
    /\ UNCHANGED <<now, bucket, stamp, wrong>>

(* Waiting for the write lock takes less than a tick (the busy timeout).   *)
Tick ==
    /\ now < MaxTime
    /\ \A w \in Workers : pc[w] = "record" => stamp[w] = now
    /\ now' = now + 1
    /\ UNCHANGED <<bucket, pc, stamp, wrong>>

Next == \/ \E w \in Workers : \/ Login(w) \/ Allow(w) \/ Verify(w) \/ Reset(w)
                              \/ Stamp(w) \/ Record(w) \/ GiveUp(w)
        \/ Tick

Spec == Init /\ [][Next]_vars
-------------------------------------------------------------------------------
(* Two windows at most touch a stretch as long as one.  Each counts no more *)
(* refusals than the limit, those that had passed the check when it was     *)
(* reached, and once more as many: a late one writes the time it took       *)
(* before it waited, so the lock may end a tick before the window does.     *)
(* A shorter lock, or a window no longer than the wait, bounds nothing.     *)
RefusalsBounded ==
    LET late == 2 * Cardinality(Workers) - 1
    IN  \A t \in Times : wrong[t + Window] - wrong[t] <= 2 * (Attempts + late)
===============================================================================
