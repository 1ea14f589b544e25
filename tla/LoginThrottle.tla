----------------------------- MODULE LoginThrottle ----------------------------
(***************************************************************************)
(* LoginThrottle and the login route that uses it.  An attempt holds one   *)
(* bucket for the account and one for the client address; it may sleep     *)
(* before the password is looked at.  The clock is a counter of ticks.     *)
(***************************************************************************)
EXTENDS Naturals, FiniteSets

CONSTANTS
  Names, Addresses,       \* accounts and client addresses
  Threshold, Lockout,     \* failure_threshold, lockout_seconds
  BackoffBase, BackoffMax, \* backoff_base_seconds, backoff_max_seconds
  MaxTime                 \* bound: ticks

ASSUME LoginThrottleAssumption ==
  /\ Names \cap Addresses = {} /\ Threshold \in Nat \ {0} /\ Lockout \in Nat \ {0}
  /\ BackoffBase \in Nat /\ BackoffMax \in Nat /\ BackoffMax >= BackoffBase /\ MaxTime \in Nat

VARIABLES
  now,
  bucket,   \* _buckets: a key without one has an empty bucket
  attempt,  \* each pair of a name and an address: idle, or when it wakes
  failedAt  \* history: when attempts of a key failed since its last success

ThrottleVars == <<now, bucket, attempt, failedAt>>

Keys == Names \cup Addresses
Pairs == Names \X Addresses
KeysOf(p) == {p[1], p[2]}
NoBucket == [failures |-> 0, retry |-> 0, locked |-> 0, retire |-> 0, active |-> 0]
InProgress == {p \in Pairs : attempt[p].on}
NotTrying == [on |-> FALSE, wakes |-> 0]

ThrottleInit ==
  /\ now = 0 /\ bucket = [k \in Keys |-> NoBucket]
  /\ attempt = [p \in Pairs |-> NotTrying] /\ failedAt = [k \in Keys |-> {}]

Latest(S) == CHOOSE x \in S : \A y \in S : y <= x

\* _remove_expired
Retired(b) == b.active = 0 /\ b.locked <= now /\ b.retry <= now /\ b.retire <= now
Swept(buckets) == [k \in Keys |-> IF Retired(buckets[k]) THEN NoBucket ELSE buckets[k]]

\* begin: refused while a key is locked or has an attempt in progress,
\* otherwise delayed until the later of the two back-offs.
Begin(p) ==
  LET swept == Swept(bucket)
      refused == \E k \in KeysOf(p) : swept[k].locked > now \/ swept[k].active > 0
  IN  /\ now < MaxTime
      /\ IF refused THEN bucket' = swept /\ UNCHANGED attempt
         ELSE /\ bucket' = [k \in Keys |-> IF k \in KeysOf(p)
                                           THEN [swept[k] EXCEPT !.active = @ + 1] ELSE swept[k]]
              /\ attempt' = [attempt EXCEPT ![p] =
                   [on |-> TRUE, wakes |-> Latest({now} \cup {swept[k].retry : k \in KeysOf(p)})]]
      /\ UNCHANGED <<now, failedAt>>

Awake(p) == attempt[p].on /\ attempt[p].wakes <= now /\ attempt' = [attempt EXCEPT ![p] = NotTrying]

Success(p) ==
  /\ Awake(p)
  /\ bucket' = [k \in Keys |-> IF k \in KeysOf(p) THEN NoBucket ELSE bucket[k]]
  /\ failedAt' = [k \in Keys |-> IF k \in KeysOf(p) THEN {} ELSE failedAt[k]]
  /\ UNCHANGED now

\* failure: the bucket is locked at the threshold, and backs off before it.
Backoff(n) == IF BackoffBase * 2 ^ (n - 1) \in 0..BackoffMax THEN BackoffBase * 2 ^ (n - 1) ELSE BackoffMax
Released(b) == [b EXCEPT !.active = IF @ = 0 THEN 0 ELSE @ - 1]
FailedOnce(b) ==
  LET n == b.failures + 1 IN
  [Released(b) EXCEPT !.failures = n, !.retire = now + Lockout,
     !.locked = IF n >= Threshold THEN now + Lockout ELSE @,
     !.retry = IF n >= Threshold THEN 0 ELSE now + Backoff(n)]

Failure(p) ==
  /\ Awake(p)
  /\ bucket' = Swept([k \in Keys |-> IF k \in KeysOf(p) THEN FailedOnce(bucket[k]) ELSE bucket[k]])
  /\ failedAt' = [k \in Keys |-> IF k \in KeysOf(p) THEN failedAt[k] \cup {now} ELSE failedAt[k]]
  /\ UNCHANGED now

\* A variant: a cancelled attempt stays active in a bucket with failures.
AbortForgets(p) ==
  /\ attempt[p].on /\ attempt' = [attempt EXCEPT ![p] = NotTrying]
  /\ bucket' = [k \in Keys |->
       IF k \in KeysOf(p) /\ bucket[k].active <= 1 /\ bucket[k].failures = 0 THEN NoBucket
       ELSE bucket[k]]
  /\ UNCHANGED <<now, failedAt>>

\* abort: the client went away while the attempt slept, or the database failed.
Abort(p) ==
  /\ attempt[p].on /\ attempt' = [attempt EXCEPT ![p] = NotTrying]
  /\ bucket' = [k \in Keys |->
       IF k \notin KeysOf(p) THEN bucket[k]
       ELSE IF bucket[k].active <= 1 /\ bucket[k].failures = 0 THEN NoBucket
       ELSE Released(bucket[k])]
  /\ UNCHANGED <<now, failedAt>>

Tick == now < MaxTime /\ now' = now + 1 /\ UNCHANGED <<bucket, attempt, failedAt>>

ThrottleNext == Tick \/ \E p \in Pairs : Begin(p) \/ Success(p) \/ Failure(p) \/ Abort(p)
ThrottleSpec == ThrottleInit /\ [][ThrottleNext]_ThrottleVars

----------------------------------------------------------------------------
(* Properties                                                              *)

ThrottleTypeOK ==
  /\ now \in 0..MaxTime
  /\ \A k \in Keys : bucket[k].failures \in 0..Threshold /\ bucket[k].active \in 0..1
  /\ \A p \in InProgress : attempt[p].wakes <= now + BackoffMax

\* A key is busy exactly while an attempt with it is in progress: no ending of
\* an attempt, cancellation included, leaves an account or address blocked,
\* and no key tries twice at once.
BusyWhileTrying ==
  \A k \in Keys : bucket[k].active = Cardinality({p \in InProgress : k \in KeysOf(p)})

\* No lockout period holds more failures of an account than the threshold,
\* whichever addresses they come from and however they are spread over it.
FailuresLimited ==
  \A k \in Names : LET recent == {t \in failedAt[k] : now - t < Lockout}
                   IN  Cardinality(recent) <= Threshold

\* The throttle neither blocks for ever nor lets too many guesses through.
ThrottleHolds == ThrottleTypeOK /\ BusyWhileTrying /\ FailuresLimited
=============================================================================
