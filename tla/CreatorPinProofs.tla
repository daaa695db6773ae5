--------------------------- MODULE CreatorPinProofs ---------------------------
(* What TLAPS proves of CreatorPin: how many wrong PINs a stretch of time  *)
(* as long as the window can take, for any number of workers, any limit    *)
(* and any window.                                                         *)
EXTENDS CreatorPin, FiniteSetTheorems, TLAPS

Places == {"idle", "allow", "verify", "reset", "stamp", "record"}

Rows == [start : Times, failures : Nat, until : 0..(MaxTime + Lock)]

(* What a refusal does to the row.                                         *)
LEMMA CountedRow ==
    ASSUME NEW b \in Rows, NEW at \in Times
    PROVE  /\ Counted(b, at) \in Rows
           /\ Counted(b, at).start = b.start
           /\ Counted(b, at).failures = b.failures + 1
           /\ Counted(b, at).until = IF b.failures + 1 >= Attempts THEN at + Lock ELSE b.until
<1> DEFINE u == IF b.failures + 1 >= Attempts THEN at + Lock ELSE b.until
<1> DEFINE c == [b EXCEPT !.failures = b.failures + 1]
<1>1. u \in 0..(MaxTime + Lock)
  BY LimitsAssumption DEF Rows, Times
<1>2. c \in Rows /\ c.start = b.start /\ c.failures = b.failures + 1
  BY DEF Rows
<1>3. Counted(b, at) = [c EXCEPT !.until = u]
  BY Zenon DEF Counted
<1> HIDE DEF u, c
<1>4. /\ [c EXCEPT !.until = u] \in Rows
      /\ [c EXCEPT !.until = u].start = c.start
      /\ [c EXCEPT !.until = u].failures = c.failures
      /\ [c EXCEPT !.until = u].until = u
  BY <1>1, <1>2 DEF Rows
<1> QED
  BY <1>2, <1>3, <1>4 DEF u

(* The whole state stays within its types, and so do the clock and the     *)
(* counts: every request of creator_login leaves a well-formed row behind. *)
THEOREM TypeCorrect == Spec => []TypeOK
<1> USE LimitsAssumption DEF Times, Counts
<1>1. Init => TypeOK
  BY DEF Init, TypeOK, NoBucket
<1>2. TypeOK /\ [Next]_vars => TypeOK'
  <2> SUFFICES ASSUME TypeOK, [Next]_vars PROVE TypeOK'
    OBVIOUS
  <2>1. CASE UNCHANGED vars
    BY <2>1 DEF TypeOK, vars
  <2>2. ASSUME NEW w \in Workers, Login(w) \/ Allow(w) \/ Verify(w) \/ GiveUp(w)
        PROVE  TypeOK'
    BY <2>2 DEF TypeOK, Login, Allow, Verify, GiveUp, Goto
  <2>3. ASSUME NEW w \in Workers, Stamp(w)
        PROVE  TypeOK'
    BY <2>3 DEF TypeOK, Stamp, Goto
  <2>6. ASSUME NEW w \in Workers, Reset(w)
        PROVE  TypeOK'
    <3>1. wrong' \in Counts
      BY <2>6 DEF TypeOK, Reset
    <3>2. bucket' \in [start : Times, failures : Nat, until : 0..(MaxTime + Lock)]
      BY <2>6 DEF Reset, NoBucket
    <3> QED
      BY <2>6, <3>1, <3>2 DEF TypeOK, Reset, Goto
  <2>4. ASSUME NEW w \in Workers, Record(w)
        PROVE  TypeOK'
    <3>2. stamp[w] \in Times /\ [NoBucket EXCEPT !.start = stamp[w]] \in Rows /\ bucket \in Rows
      BY DEF TypeOK, NoBucket, Rows
    <3>3. bucket' \in Rows
      BY <2>4, <3>2, CountedRow DEF Record
    <3>4. wrong' \in Counts
      BY <2>4 DEF TypeOK, Record
    <3> QED
      BY <2>4, <3>3, <3>4 DEF TypeOK, Record, Goto, Rows
  <2>5. CASE Tick
    BY <2>5 DEF TypeOK, Tick
  <2> QED
    BY <2>1, <2>2, <2>3, <2>4, <2>5, <2>6 DEF Next
<1> QED
  BY <1>1, <1>2, PTL DEF Spec
-------------------------------------------------------------------------------
(* The inductive invariant.  Slots are the times the counts are kept for;  *)
(* Whole is how many PINs were refused since one was accepted.             *)
Slots == 0..(MaxTime + Window)
Whole == wrong[MaxTime + Window]

(* The requests that can still be counted in the window that is open: they *)
(* have passed the check, and their time falls inside it.                  *)
Coming == {w \in Workers :
             \/ pc[w] \in {"verify", "reset", "stamp"} /\ now < bucket.start + Window
             \/ pc[w] = "record" /\ stamp[w] < bucket.start + Window}

(* The limit and those who had passed the check when it was reached; and   *)
(* once more everybody, for a lock that a late one has shortened.          *)
Batch == Attempts + Cardinality(Workers) - 1
Limit == Batch + Cardinality(Workers)

Punctual == \A w \in Workers : pc[w] = "record" => stamp[w] <= now /\ now <= stamp[w] + 1

Growing == /\ \A x, y \in Slots : x <= y => wrong[x] <= wrong[y]
           /\ \A x \in Slots : x > now => wrong[x] = Whole

(* The row counts the refusals since its window began, but for those of    *)
(* the window before that came in the same tick; one tick after its end it *)
(* takes no more.                                                          *)
Counting ==
    /\ bucket.start <= now
    /\ bucket.failures <= Limit
    /\ bucket.failures = 0 => Whole = 0
    /\ wrong[bucket.start] + bucket.failures <= Whole
    /\ Whole <= wrong[bucket.start + 1] + bucket.failures
    /\ \A x \in Slots : x > bucket.start + Window => wrong[x] = Whole

(* What came before the row, less than a window before it.                 *)
Earlier == \A t \in Slots :
             t + Window > bucket.start => Whole - bucket.failures - wrong[t] <= Limit

(* Once the limit is reached, the row has room for those still coming; and *)
(* if the lock ends before the window, there is room for one more of each. *)
Locked ==
    bucket.failures >= Attempts =>
        /\ bucket.failures + Cardinality(Coming) <= Limit
        /\ now + 1 < bucket.start + Window =>
             bucket.failures + Cardinality(Coming) <= Batch
        /\ now < bucket.start + Window => bucket.until + 1 >= bucket.start + Window
        /\ now < bucket.start + Window /\ bucket.until < bucket.start + Window =>
             bucket.failures <= Batch

PinInv == TypeOK /\ Punctual /\ Growing /\ Counting /\ Earlier /\ Locked /\ RefusalsBounded

(* A lock no shorter than the window, and a window longer than the wait    *)
(* for the database: both are five minutes, as installed.                  *)
LongEnough == Lock >= Window /\ Window >= 2

LEMMA Numbers ==
    ASSUME TypeOK
    PROVE  /\ Cardinality(Workers) \in Nat /\ Batch \in Int /\ Limit \in Int
           /\ Limit = Batch + Cardinality(Workers)
           /\ Batch = Attempts + Cardinality(Workers) - 1
           /\ Attempts \in Nat \ {0} /\ Window \in Nat \ {0} /\ Lock \in Nat /\ MaxTime \in Nat
           /\ now \in Nat /\ now <= MaxTime /\ bucket.start \in Nat /\ bucket.start <= MaxTime
           /\ bucket.failures \in Nat /\ bucket.until \in Nat
           /\ Whole \in Nat /\ \A x \in Slots : wrong[x] \in Nat
<1>1. Cardinality(Workers) \in Nat
  BY FS_CardinalityType, LimitsAssumption
<1>2. Attempts \in Nat \ {0} /\ Window \in Nat \ {0} /\ Lock \in Nat /\ MaxTime \in Nat
  BY LimitsAssumption
<1>3. \A x \in Slots : wrong[x] \in Nat
  BY <1>2 DEF TypeOK, Counts, Slots
<1>4. Whole \in Nat
  BY <1>2, <1>3 DEF Whole, Slots
<1>5. /\ now \in Nat /\ now <= MaxTime /\ bucket.start \in Nat /\ bucket.start <= MaxTime
      /\ bucket.failures \in Nat /\ bucket.until \in Nat
  BY <1>2 DEF TypeOK, Times
<1> QED
  BY <1>1, <1>2, <1>3, <1>4, <1>5 DEF Batch, Limit

(* A smaller set of workers counts no more.                                *)
LEMMA Fewer ==
    ASSUME NEW S \in SUBSET Workers, NEW T \in SUBSET S
    PROVE  /\ Cardinality(T) \in Nat /\ Cardinality(S) \in Nat
           /\ Cardinality(T) <= Cardinality(S) /\ Cardinality(S) <= Cardinality(Workers)
<1>1. IsFiniteSet(S) /\ Cardinality(S) <= Cardinality(Workers)
  BY FS_Subset, LimitsAssumption
<1>2. IsFiniteSet(T) /\ Cardinality(T) <= Cardinality(S)
  BY <1>1, FS_Subset
<1> QED
  BY <1>1, <1>2, FS_CardinalityType

LEMMA OneFewer ==
    ASSUME NEW S \in SUBSET Workers, NEW w \in S, NEW T \in SUBSET (S \ {w})
    PROVE  Cardinality(T) + 1 <= Cardinality(S)
<1>1. IsFiniteSet(S) /\ Cardinality(S) \in Nat
  BY Fewer, FS_Subset, LimitsAssumption
<1>2. IsFiniteSet(S \ {w}) /\ Cardinality(S \ {w}) = Cardinality(S) - 1
  BY <1>1, FS_RemoveElement
<1>3. Cardinality(T) <= Cardinality(S \ {w}) /\ Cardinality(T) \in Nat
  BY <1>2, Fewer
<1> QED
  BY <1>1, <1>2, <1>3

(* A step that leaves clock, row and counts alone, and lets nobody in.     *)
LEMMA SameWindow ==
    ASSUME PinInv, TypeOK', Punctual', UNCHANGED <<now, bucket, wrong>>,
           Coming' \subseteq Coming
    PROVE  PinInv'
<1>1. Cardinality(Coming') \in Nat /\ Cardinality(Coming') <= Cardinality(Coming)
      /\ Cardinality(Coming) \in Nat
  <2>1. Coming \in SUBSET Workers /\ Coming' \in SUBSET Coming
    BY DEF Coming
  <2> HIDE DEF Coming
  <2> QED
    BY <2>1, Fewer
<1>2. Growing' /\ Counting' /\ Earlier' /\ RefusalsBounded'
  BY DEF PinInv, Growing, Counting, Earlier, RefusalsBounded, Whole
<1>3. Locked'
  BY <1>1, Numbers DEF PinInv, Locked
<1> QED
  BY <1>2, <1>3 DEF PinInv

(* Being let in: while the limit is reached, only in the last tick of the  *)
(* window, and only if the row has room for every worker.                  *)
LEMMA LetIn ==
    ASSUME PinInv, TypeOK', NEW w \in Workers, Allow(w)
    PROVE  PinInv'
<1>1. UNCHANGED <<now, bucket, wrong, stamp>> /\ pc[w] = "allow"
  BY DEF Allow
<1>2. pc' = [pc EXCEPT ![w] = IF bucket.until <= now THEN "verify" ELSE "idle"]
  BY DEF Allow, Goto
<1>3. \A v \in Workers : v # w => pc'[v] = pc[v]
  BY <1>2 DEF PinInv, TypeOK
<1>4. pc'[w] = IF bucket.until <= now THEN "verify" ELSE "idle"
  BY <1>2 DEF PinInv, TypeOK
<1>5. Punctual'
  BY <1>1, <1>3, <1>4 DEF PinInv, Punctual
<1>6. CASE bucket.until > now \/ now >= bucket.start + Window
  <2>1. Coming' \subseteq Coming
    BY <1>1, <1>3, <1>4, <1>6, Numbers DEF Coming, PinInv
  <2> QED
    BY <1>1, <1>5, <2>1, SameWindow
<1>7. CASE bucket.until <= now /\ now < bucket.start + Window
  <2>1. Growing' /\ Counting' /\ Earlier' /\ RefusalsBounded'
    BY <1>1 DEF PinInv, Growing, Counting, Earlier, RefusalsBounded, Whole
  <2>2. Cardinality(Coming') \in Nat /\ Cardinality(Coming') <= Cardinality(Workers)
    <3>1. Coming' \in SUBSET Workers
      BY DEF Coming
    <3> QED
      BY <3>1, Fewer
  <2>3. Locked'
    BY <1>1, <1>7, <2>2, Numbers DEF PinInv, Locked
  <2> QED
    BY <1>5, <2>1, <2>3 DEF PinInv
<1> QED
  BY <1>6, <1>7, Numbers DEF PinInv

(* The other steps of a request that leave the row alone.                  *)
LEMMA GoingOn ==
    ASSUME PinInv, TypeOK', NEW w \in Workers, Login(w) \/ Verify(w) \/ Stamp(w) \/ GiveUp(w)
    PROVE  PinInv'
<1>1. UNCHANGED <<now, bucket, wrong>>
  BY DEF Login, Verify, Stamp, GiveUp
<1>2. \A v \in Workers : v # w => pc'[v] = pc[v] /\ stamp'[v] = stamp[v]
  BY DEF Login, Verify, Stamp, GiveUp, Goto, PinInv, TypeOK
<1>3. \/ pc'[w] \in {"idle", "allow"}
      \/ pc[w] = "verify" /\ pc'[w] \in {"reset", "stamp"}
      \/ pc[w] = "stamp" /\ pc'[w] = "record" /\ stamp'[w] = now
  BY DEF Login, Verify, Stamp, GiveUp, Goto, PinInv, TypeOK
<1>4. Punctual'
  BY <1>1, <1>2, <1>3, Numbers DEF PinInv, Punctual
<1>5. Coming' \subseteq Coming
  BY <1>1, <1>2, <1>3 DEF Coming
<1> QED
  BY <1>1, <1>4, <1>5, SameWindow

(* An accepted PIN removes the row, and the counting starts again.         *)
LEMMA StartingAgain ==
    ASSUME PinInv, TypeOK', NEW w \in Workers, Reset(w)
    PROVE  PinInv'
<1>1. /\ bucket'.start = 0 /\ bucket'.failures = 0 /\ now' = now /\ stamp' = stamp
      /\ \A x \in Slots : wrong'[x] = 0
      /\ \A v \in Workers : pc'[v] = "record" => pc[v] = "record"
  BY DEF Reset, Goto, NoBucket, PinInv, TypeOK, Counts, Slots
<1>2. Whole' = 0
  BY <1>1, Numbers DEF PinInv, Whole, Slots
<1>3. Limit \in Nat /\ Window \in Nat /\ 0 \in Slots /\ 1 \in Slots /\ now \in Nat
  BY Numbers DEF PinInv, Slots
<1>4. Punctual'
  BY <1>1 DEF PinInv, Punctual
<1>5. Growing' /\ Counting' /\ Earlier'
  BY <1>1, <1>2, <1>3 DEF Growing, Counting, Earlier
<1>6. Locked'
  BY <1>1, Numbers DEF PinInv, Locked
<1>7. RefusalsBounded'
  <2>1. \A t \in Times : t \in Slots /\ t + Window \in Slots
    BY Numbers DEF PinInv, Times, Slots
  <2> QED
    BY <1>1, <1>3, <2>1, Numbers DEF PinInv, RefusalsBounded
<1> QED
  BY <1>4, <1>5, <1>6, <1>7 DEF PinInv

(* The clock: nothing has been refused in the tick that comes.             *)
LEMMA Passing ==
    ASSUME PinInv, TypeOK', Tick
    PROVE  PinInv'
<1>1. /\ now' = now + 1 /\ UNCHANGED <<bucket, pc, stamp, wrong>>
      /\ \A w \in Workers : pc[w] = "record" => stamp[w] = now
  BY DEF Tick
<1>2. Punctual' /\ Growing' /\ Counting' /\ Earlier' /\ RefusalsBounded'
  BY <1>1, Numbers DEF PinInv, Punctual, Growing, Counting, Earlier, RefusalsBounded, Whole, Slots
<1>3. Cardinality(Coming') \in Nat /\ Cardinality(Coming') <= Cardinality(Coming)
      /\ Cardinality(Coming) \in Nat
  <2>1. Coming \in SUBSET Workers
    BY DEF Coming
  <2>2. Coming' \in SUBSET Coming
    BY <1>1, Numbers DEF Coming, PinInv
  <2> QED
    BY <2>1, <2>2, Fewer
<1>4. Locked'
  BY <1>1, <1>3, Numbers DEF PinInv, Locked
<1> QED
  BY <1>2, <1>4 DEF PinInv

(* What a refusal does to the row and to the counts, whichever window it   *)
(* is counted in.                                                          *)
LEMMA Refusing ==
    ASSUME PinInv, TypeOK', NEW w \in Workers, Record(w)
    PROVE  /\ now' = now /\ stamp' = stamp
           /\ stamp[w] \in Nat /\ stamp[w] <= now /\ now <= stamp[w] + 1
           /\ Whole' = Whole + 1
           /\ \A x \in Slots : wrong'[x] = IF now < x THEN wrong[x] + 1 ELSE wrong[x]
           /\ Punctual' /\ Growing'
           /\ bucket.failures = 0 \/ bucket.start + Window <= stamp[w] =>
                /\ bucket'.start = stamp[w] /\ bucket'.failures = 1
                /\ bucket'.until = IF 1 >= Attempts THEN stamp[w] + Lock ELSE 0
           /\ bucket.failures # 0 /\ stamp[w] < bucket.start + Window =>
                /\ bucket'.start = bucket.start /\ bucket'.failures = bucket.failures + 1
                /\ bucket'.until = IF bucket.failures + 1 >= Attempts THEN stamp[w] + Lock
                                                                     ELSE bucket.until
<1>1. /\ now' = now /\ stamp' = stamp /\ pc[w] = "record"
      /\ \A v \in Workers : pc'[v] = "record" => pc[v] = "record"
  BY DEF Record, Goto, PinInv, TypeOK
<1>2. stamp[w] \in Times /\ stamp[w] \in Nat /\ stamp[w] <= now /\ now <= stamp[w] + 1
  BY <1>1, Numbers DEF PinInv, TypeOK, Times, Punctual
<1>3. \A x \in Slots : wrong'[x] = IF now < x THEN wrong[x] + 1 ELSE wrong[x]
  BY DEF Record, PinInv, TypeOK, Counts, Slots
<1>4. MaxTime + Window \in Slots /\ now < MaxTime + Window
  BY Numbers DEF PinInv, Slots
<1>5. Whole' = Whole + 1
  BY <1>3, <1>4 DEF Whole
<1>6. Growing'
  BY <1>1, <1>3, <1>5, Numbers DEF PinInv, Growing, Slots
<1>7. Punctual'
  BY <1>1 DEF PinInv, Punctual
<1> DEFINE fresh == [NoBucket EXCEPT !.start = stamp[w]]
<1>8. bucket \in Rows /\ fresh \in Rows /\ fresh.start = stamp[w] /\ fresh.failures = 0
      /\ fresh.until = 0
  BY <1>2, Numbers DEF PinInv, TypeOK, Rows, NoBucket, Times
<1>9. bucket' = IF bucket.failures = 0 \/ bucket.start + Window <= stamp[w]
                THEN Counted(fresh, stamp[w]) ELSE Counted(bucket, stamp[w])
  BY DEF Record
<1>10. ASSUME bucket.failures = 0 \/ bucket.start + Window <= stamp[w]
       PROVE  /\ bucket'.start = stamp[w] /\ bucket'.failures = 1
              /\ bucket'.until = IF 1 >= Attempts THEN stamp[w] + Lock ELSE 0
  <2> HIDE DEF fresh
  <2> QED
    BY <1>2, <1>8, <1>9, <1>10, CountedRow
<1>11. ASSUME bucket.failures # 0 /\ stamp[w] < bucket.start + Window
       PROVE  /\ bucket'.start = bucket.start /\ bucket'.failures = bucket.failures + 1
              /\ bucket'.until = IF bucket.failures + 1 >= Attempts THEN stamp[w] + Lock
                                                                   ELSE bucket.until
  <2> HIDE DEF fresh
  <2>1. bucket' = Counted(bucket, stamp[w])
    BY <1>2, <1>9, <1>11, Numbers DEF PinInv
  <2> QED
    BY <1>2, <1>8, <2>1, CountedRow
<1> QED
  BY <1>1, <1>2, <1>3, <1>5, <1>6, <1>7, <1>10, <1>11

(* A refusal that opens a window: what the old row counted lies behind.    *)
LEMMA Opening ==
    ASSUME LongEnough, PinInv, TypeOK', NEW w \in Workers, Record(w),
           bucket.failures = 0 \/ bucket.start + Window <= stamp[w]
    PROVE  Counting' /\ Earlier' /\ Locked'
<1>1. /\ now' = now /\ stamp' = stamp
      /\ stamp[w] \in Nat /\ stamp[w] <= now /\ now <= stamp[w] + 1
      /\ Whole' = Whole + 1
      /\ \A x \in Slots : wrong'[x] = IF now < x THEN wrong[x] + 1 ELSE wrong[x]
      /\ bucket'.start = stamp[w] /\ bucket'.failures = 1
      /\ bucket'.until = IF 1 >= Attempts THEN stamp[w] + Lock ELSE 0
  BY Refusing
<1>2. stamp[w] \in Slots /\ stamp[w] + 1 \in Slots /\ bucket.start + 1 \in Slots
      /\ MaxTime + Window \in Slots
  BY <1>1, Numbers DEF PinInv, Slots
<1>3. Cardinality(Workers) >= 1
  BY OneFewer, FS_EmptySet, LimitsAssumption, Numbers DEF PinInv
<1>4. \A t \in Slots : t + Window > stamp[w] => Whole - wrong[t] <= Limit
  <2> SUFFICES ASSUME NEW t \in Slots, t + Window > stamp[w]
               PROVE  Whole - wrong[t] <= Limit
    OBVIOUS
  <2>1. CASE bucket.failures = 0
    BY <2>1, <1>3, Numbers DEF PinInv, Counting
  <2>2. CASE bucket.start + Window <= stamp[w]
    <3>1. t \in Nat /\ bucket.start + 1 <= t
      BY <2>2, <1>1, Numbers DEF PinInv, Slots
    <3>2. wrong[bucket.start + 1] <= wrong[t]
      BY <3>1, <1>2 DEF PinInv, Growing
    <3> QED
      BY <3>2, <1>2, Numbers DEF PinInv, Counting
  <2> QED
    BY <2>1, <2>2
<1>5. Earlier'
  BY <1>1, <1>4, Numbers DEF PinInv, Earlier, Slots
<1>6. Whole <= wrong[stamp[w] + 1] /\ wrong[stamp[w]] <= Whole
  BY <1>1, <1>2, Numbers DEF PinInv, Counting, Growing, Whole, Slots
<1>7. Counting'
  BY <1>1, <1>2, <1>3, <1>6, Numbers DEF PinInv, Growing, Counting, Slots
<1>8. Cardinality(Coming') \in Nat /\ Cardinality(Coming') + 1 <= Cardinality(Workers)
  <2>1. pc'[w] = "idle"
    BY DEF Record, Goto, PinInv, TypeOK
  <2>2. Coming' \in SUBSET (Workers \ {w}) /\ Coming' \in SUBSET Workers
    BY <2>1 DEF Coming
  <2> QED
    BY <2>2, OneFewer, Fewer
<1>9. Locked'
  BY <1>1, <1>8, Numbers DEF LongEnough, PinInv, Locked
<1> QED
  BY <1>5, <1>7, <1>9

(* A refusal counted in the window that is open: the worker was among      *)
(* those who were coming, and the lock it sets lasts as long as the window *)
(* or, in the window's first tick, a tick less.                            *)
LEMMA Continuing ==
    ASSUME LongEnough, PinInv, TypeOK', NEW w \in Workers, Record(w),
           bucket.failures # 0 /\ stamp[w] < bucket.start + Window
    PROVE  Counting' /\ Earlier' /\ Locked'
<1>1. /\ now' = now /\ stamp' = stamp
      /\ stamp[w] \in Nat /\ stamp[w] <= now /\ now <= stamp[w] + 1
      /\ Whole' = Whole + 1
      /\ \A x \in Slots : wrong'[x] = IF now < x THEN wrong[x] + 1 ELSE wrong[x]
      /\ bucket'.start = bucket.start /\ bucket'.failures = bucket.failures + 1
      /\ bucket'.until = IF bucket.failures + 1 >= Attempts THEN stamp[w] + Lock
                                                           ELSE bucket.until
  BY Refusing
<1>2. bucket.start \in Slots /\ bucket.start + 1 \in Slots
  BY Numbers DEF PinInv, Slots
<1>3. /\ Cardinality(Coming) \in Nat /\ Cardinality(Coming') \in Nat
      /\ Cardinality(Coming') + 1 <= Cardinality(Coming)
      /\ Cardinality(Coming) <= Cardinality(Workers)
  <2>1. /\ pc[w] = "record" /\ pc'[w] = "idle"
        /\ \A v \in Workers : v # w => pc'[v] = pc[v]
    BY DEF Record, Goto, PinInv, TypeOK
  <2>2. Coming \in SUBSET Workers /\ w \in Coming
    BY <2>1 DEF Coming
  <2>3. Coming' \in SUBSET (Coming \ {w})
    BY <1>1, <2>1 DEF Coming
  <2> QED
    BY <2>2, <2>3, OneFewer, Fewer
<1>4. bucket.failures + 1 <= Limit
  BY <1>3, Numbers DEF PinInv, Locked
<1>5. Counting'
  BY <1>1, <1>2, <1>4, Numbers DEF PinInv, Growing, Counting, Slots
<1>6. Earlier'
  BY <1>1, Numbers DEF PinInv, Earlier, Slots
<1>7. Locked'
  BY <1>1, <1>3, Numbers DEF LongEnough, PinInv, Counting, Locked
<1> QED
  BY <1>5, <1>6, <1>7

(* The bound: a stretch that a refusal falls in begins less than a window  *)
(* before the row that counts it.                                          *)
LEMMA Recording ==
    ASSUME LongEnough, PinInv, TypeOK', NEW w \in Workers, Record(w)
    PROVE  PinInv'
<1>1. /\ now' = now /\ Whole' = Whole + 1
      /\ \A x \in Slots : wrong'[x] = IF now < x THEN wrong[x] + 1 ELSE wrong[x]
      /\ Punctual' /\ Growing'
  BY Refusing
<1>2. Counting' /\ Earlier' /\ Locked'
  <2>1. bucket.failures = 0 \/ bucket.start + Window <= stamp[w]
        \/ (bucket.failures # 0 /\ stamp[w] < bucket.start + Window)
    BY Refusing, Numbers DEF PinInv
  <2> QED
    BY <2>1, Opening, Continuing
<1>3. RefusalsBounded'
  <2> SUFFICES ASSUME NEW t \in Times
               PROVE  wrong'[t + Window] - wrong'[t] <= 2 * Limit
    BY Numbers DEF PinInv, RefusalsBounded
  <2>1. t \in Slots /\ t + Window \in Slots /\ MaxTime + Window \in Slots /\ t \in Nat
    BY Numbers DEF PinInv, Times, Slots
  <2>2. wrong[t + Window] - wrong[t] <= 2 * Limit
    BY Numbers DEF PinInv, RefusalsBounded
  <2>3. CASE now < t \/ t + Window <= now
    BY <1>1, <2>1, <2>2, <2>3, Numbers DEF PinInv
  <2>4. CASE t <= now /\ now < t + Window
    <3>1. wrong'[t + Window] <= Whole'
      BY <1>1, <2>1, Numbers DEF PinInv, Growing, Whole, Slots
    <3>2. t + Window > bucket'.start
      BY <1>1, <1>2, <2>1, <2>4, Numbers DEF PinInv, Counting, TypeOK, Times
    <3>3. Whole' - bucket'.failures - wrong'[t] <= Limit /\ bucket'.failures <= Limit
      BY <1>2, <2>1, <3>2 DEF Earlier, Counting
    <3> QED
      BY <1>1, <2>1, <3>1, <3>3, Numbers DEF PinInv, TypeOK
  <2> QED
    BY <2>1, <2>3, <2>4, Numbers DEF PinInv
<1> QED
  BY <1>1, <1>2, <1>3 DEF PinInv

(* With a lock as long as the window, no stretch of time as long as the    *)
(* window sees more wrong PINs than twice the limit and the late ones:     *)
(* what record_creator_pin_failure and creator_pin_is_allowed promise      *)
(* together, however the requests of the workers interleave.               *)
THEOREM RefusalsStayBounded ==
    ASSUME Lock >= Window, Window >= 2
    PROVE  Spec => []RefusalsBounded
<1>1. LongEnough
  BY DEF LongEnough
<1>2. Init => PinInv
  <2> SUFFICES ASSUME Init PROVE PinInv
    OBVIOUS
  <2>1. TypeOK
    BY LimitsAssumption DEF Init, TypeOK, NoBucket, Times, Counts
  <2>2. /\ \A x \in Slots : wrong[x] = 0
        /\ now = 0 /\ bucket.start = 0 /\ bucket.failures = 0
        /\ \A w \in Workers : pc[w] = "idle"
    BY DEF Init, Slots, NoBucket
  <2>3. Whole = 0 /\ 0 \in Slots /\ 1 \in Slots
    BY <2>1, <2>2, Numbers DEF Whole, Slots
  <2>4. Punctual /\ Growing /\ Counting /\ Earlier /\ Locked
    BY <2>1, <2>2, <2>3, Numbers DEF Punctual, Growing, Counting, Earlier, Locked
  <2>5. \A t \in Times : t \in Slots /\ t + Window \in Slots
    BY <2>1, Numbers DEF Times, Slots
  <2>6. RefusalsBounded
    BY <2>1, <2>2, <2>5, Numbers DEF RefusalsBounded
  <2> QED
    BY <2>1, <2>4, <2>6 DEF PinInv
<1>3. PinInv /\ TypeOK' /\ [Next]_vars => PinInv'
  <2> SUFFICES ASSUME PinInv, TypeOK', [Next]_vars PROVE PinInv'
    OBVIOUS
  <2>1. CASE UNCHANGED vars
    <3>1. Coming' = Coming /\ Punctual'
      BY <2>1 DEF vars, Coming, PinInv, Punctual
    <3> QED
      BY <2>1, <3>1, SameWindow DEF vars
  <2>2. CASE Tick
    BY <2>2, Passing
  <2>3. ASSUME NEW w \in Workers,
               Login(w) \/ Allow(w) \/ Verify(w) \/ Reset(w) \/ Stamp(w) \/ Record(w) \/ GiveUp(w)
        PROVE  PinInv'
    BY <1>1, <2>3, GoingOn, LetIn, StartingAgain, Recording
  <2> QED
    BY <2>1, <2>2, <2>3 DEF Next
<1>4. PinInv => RefusalsBounded
  BY DEF PinInv
<1> QED
  BY <1>2, <1>3, <1>4, TypeCorrect, PTL DEF Spec
===============================================================================
