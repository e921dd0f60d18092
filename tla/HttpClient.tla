------------------------------ MODULE HttpClient ------------------------------
(***************************************************************************)
(* genkei.common.http.HttpClient: request's attempt loop over the sliding- *)
(* window limiter the threads of one client share.                         *)
(*                                                                         *)
(* Time.  Nothing in the code depends on absolute time, so a timestamp is  *)
(* kept as its age and a sleep as the time left of it; ages stop growing   *)
(* at Window, where the limiter forgets them.  Permits are numbered in the *)
(* order acquire granted them; the deque is the set of those it holds.     *)
(***************************************************************************)
EXTENDS Naturals, FiniteSets

CONSTANTS
    Thread,         \* callers sharing the client
    Requests,       \* RateLimit.requests
    Window,         \* RateLimit.window_seconds
    MaxAttempts,    \* RetryPolicy.max_attempts
    InitialBackoff, Multiplier, MaxBackoff,   \* RetryPolicy
    MaxJitter,      \* bound on the random part of a backoff
    MaxRetryAfter,  \* bound on a server's Retry-After
    MaxCalls,       \* bound: requests one thread makes
    MaxPermits      \* bound: permits granted

\* RateLimit.__post_init__ and RetryPolicy.__post_init__.
ASSUME LimitIsValid == Requests \in Nat \ {0} /\ Window \in Nat \ {0}
ASSUME RetryIsValid ==
    /\ MaxAttempts \in Nat \ {0} /\ Multiplier \in Nat \ {0}
    /\ InitialBackoff \in Nat \ {0} /\ MaxBackoff \in Nat /\ InitialBackoff <= MaxBackoff
ASSUME BoundsAreNat ==
    MaxJitter \in Nat /\ MaxRetryAfter \in Nat /\ MaxCalls \in Nat /\ MaxPermits \in Nat

Permit  == 1..MaxPermits
MaxNap  == Window + MaxBackoff + MaxJitter + MaxRetryAfter

VARIABLES
    issued,   \* permits granted so far
    age,      \* age of each permit, Window once it is that old
    held,     \* the permits in the limiter's deque
    pc,       \* where each thread is
    safe,     \* idempotent method or retryable=True
    attempt,  \* request's loop counter
    nap,      \* time left of the thread's sleep
    sent,     \* times the current request went out
    hold,     \* time left of the server's last Retry-After
    calls     \* requests the thread has made

limiter == <<issued, age, held>>
call    == <<safe, attempt, sent, calls>>
vars    == <<limiter, pc, call, nap, hold>>

TypeOK ==
    /\ issued \in 0..MaxPermits
    /\ age     \in [Permit -> 0..Window]
    /\ held    \in SUBSET Permit
    /\ pc      \in [Thread -> {"idle", "acquire", "queue", "send", "backoff"}]
    /\ safe    \in [Thread -> BOOLEAN]
    /\ attempt \in [Thread -> 0..MaxAttempts]
    /\ nap     \in [Thread -> 0..MaxNap]
    /\ sent    \in [Thread -> 0..MaxAttempts]
    /\ hold    \in [Thread -> 0..MaxRetryAfter]
    /\ calls   \in [Thread -> 0..MaxCalls]

Init ==
    /\ issued = 0 /\ held = {}
    /\ age     = [p \in Permit |-> Window]
    /\ pc      = [t \in Thread |-> "idle"]
    /\ safe    = [t \in Thread |-> FALSE]
    /\ attempt = [t \in Thread |-> 0]
    /\ nap     = [t \in Thread |-> 0]
    /\ sent    = [t \in Thread |-> 0]
    /\ hold    = [t \in Thread |-> 0]
    /\ calls   = [t \in Thread |-> 0]

-----------------------------------------------------------------------------
Goto(t, s) == pc' = [pc EXCEPT ![t] = s]
Sleep(t, d) == nap' = [nap EXCEPT ![t] = d]

\* request is entered: the first attempt starts by acquiring a permit.
Call(t) ==
    /\ pc[t] = "idle" /\ calls[t] < MaxCalls
    /\ \E b \in BOOLEAN : safe' = [safe EXCEPT ![t] = b]
    /\ attempt' = [attempt EXCEPT ![t] = 1]
    /\ sent'    = [sent EXCEPT ![t] = 0]
    /\ calls'   = [calls EXCEPT ![t] = @ + 1]
    /\ hold'    = [hold EXCEPT ![t] = 0]
    /\ Goto(t, "acquire")
    /\ UNCHANGED <<limiter, nap>>

\* Fault: an eviction that keeps the permits exactly a window old.
EvictedLate == {p \in held : age[p] <= Window}

\* _evict: everything at least Window old leaves the deque.
Evicted == {p \in held : age[p] < Window}

\* Fault: one permit too many.
GrantOneMore(t) ==
    /\ pc[t] = "acquire" /\ issued < MaxPermits
    /\ Cardinality(Evicted) <= Requests
    /\ issued' = issued + 1
    /\ age'    = [age EXCEPT ![issued + 1] = 0]
    /\ held'   = Evicted \cup {issued + 1}
    /\ Goto(t, "send")
    /\ UNCHANGED <<call, nap, hold>>

\* The lock is held from the clock read to the append: one step.
Grant(t) ==
    /\ pc[t] = "acquire" /\ issued < MaxPermits
    /\ Cardinality(Evicted) < Requests
    /\ issued' = issued + 1
    /\ age'    = [age EXCEPT ![issued + 1] = 0]
    /\ held'   = Evicted \cup {issued + 1}
    /\ Goto(t, "send")
    /\ UNCHANGED <<call, nap, hold>>

\* The window is full: sleep, without the lock, until the oldest permit leaves
\* it, then look again.
Wait(t) ==
    /\ pc[t] = "acquire"
    /\ Cardinality(Evicted) >= Requests
    /\ held' = Evicted
    /\ \E oldest \in Evicted :
          /\ \A p \in Evicted : age[p] <= age[oldest]
          /\ Sleep(t, Window - age[oldest])
    /\ Goto(t, "queue")
    /\ UNCHANGED <<issued, age, call, hold>>

Wake(t) ==
    /\ pc[t] = "queue" /\ nap[t] = 0
    /\ Goto(t, "acquire")
    /\ UNCHANGED <<limiter, call, nap, hold>>

-----------------------------------------------------------------------------
\* _compute_backoff without its random part.
Backoff(n) ==
    LET grown == InitialBackoff * Multiplier^(n - 1)
    IN  IF grown < MaxBackoff THEN grown ELSE MaxBackoff

SendOut(t) == sent' = [sent EXCEPT ![t] = @ + 1]

\* A final response, an error outside Timeout/NetworkError, or anything at all
\* on a request that may not be repeated: request returns or raises.
Finish(t) ==
    /\ pc[t] = "send"
    /\ SendOut(t)
    /\ Goto(t, "idle")
    /\ UNCHANGED <<limiter, safe, attempt, calls, nap, hold>>

\* Fault: requests that may not be repeated are repeated.
BackOffUnsafe(t) ==
    /\ pc[t] = "send" /\ attempt[t] < MaxAttempts
    /\ SendOut(t)
    /\ \E j \in 0..MaxJitter : Sleep(t, Backoff(attempt[t]) + j)
    /\ Goto(t, "backoff")
    /\ UNCHANGED <<limiter, safe, attempt, calls, hold>>

\* A timeout, a network error or a retryable status with attempts left: back off.
BackOff(t) ==
    /\ pc[t] = "send" /\ safe[t] /\ attempt[t] < MaxAttempts
    /\ SendOut(t)
    /\ \E j \in 0..MaxJitter : Sleep(t, Backoff(attempt[t]) + j)
    /\ Goto(t, "backoff")
    /\ UNCHANGED <<limiter, safe, attempt, calls, hold>>

\* Fault: the backoff used although the server named its own pause.
RetryAfterIgnored(t) ==
    /\ pc[t] = "send" /\ safe[t] /\ attempt[t] < MaxAttempts
    /\ SendOut(t)
    /\ \E w \in 1..MaxRetryAfter :
          Sleep(t, Backoff(attempt[t])) /\ hold' = [hold EXCEPT ![t] = w]
    /\ Goto(t, "backoff")
    /\ UNCHANGED <<limiter, safe, attempt, calls>>

\* A retryable status with a usable Retry-After, attempts left: wait that long.
RetryAfter(t) ==
    /\ pc[t] = "send" /\ safe[t] /\ attempt[t] < MaxAttempts
    /\ SendOut(t)
    /\ \E w \in 1..MaxRetryAfter :
          Sleep(t, w) /\ hold' = [hold EXCEPT ![t] = w]
    /\ Goto(t, "backoff")
    /\ UNCHANGED <<limiter, safe, attempt, calls>>

\* Fault: the loop counter stands still.
AgainForever(t) ==
    /\ pc[t] = "backoff" /\ nap[t] = 0
    /\ Goto(t, "acquire")
    /\ UNCHANGED <<limiter, safe, attempt, sent, calls, nap, hold>>

\* The top of the loop again.
Again(t) ==
    /\ pc[t] = "backoff" /\ nap[t] = 0
    /\ attempt' = [attempt EXCEPT ![t] = @ + 1]
    /\ Goto(t, "acquire")
    /\ UNCHANGED <<limiter, safe, sent, calls, nap, hold>>

Less(n) == IF n = 0 THEN 0 ELSE n - 1

\* One unit of time, whatever the threads are doing.
Tick ==
    /\ age'  = [p \in Permit |-> IF age[p] < Window THEN age[p] + 1 ELSE Window]
    /\ nap'  = [t \in Thread |-> Less(nap[t])]
    /\ hold' = [t \in Thread |-> Less(hold[t])]
    /\ UNCHANGED <<issued, held, pc, call>>

Step(t) ==
    \/ Grant(t) \/ Wait(t) \/ Wake(t)
    \/ Finish(t) \/ BackOff(t) \/ RetryAfter(t) \/ Again(t)

Next == Tick \/ \E t \in Thread : Call(t) \/ Step(t)

Spec == Init /\ [][Next]_vars

\* Threads are scheduled, time passes, and every call of httpx has a timeout.
FairSpec == Spec /\ WF_vars(Tick) /\ \A t \in Thread : WF_vars(Step(t))

-----------------------------------------------------------------------------
\* RateLimit: "at most requests calls per window_seconds": the permits younger
\* than the window, whoever got them and whatever the deque still holds, never
\* exceed the cap.
WindowRespected == Cardinality({p \in 1..issued : age[p] < Window}) <= Requests

\* A request is sent at most max_attempts times, one that may not be repeated
\* at most once, and never more often than its loop has come round.
SentBounded ==
    \A t \in Thread : /\ sent[t] <= (IF safe[t] THEN MaxAttempts ELSE 1)
                      /\ sent[t] <= attempt[t]

\* A server that asked for a pause gets it: no attempt goes out while the last
\* Retry-After is still running, even when the limiter would let it.
PauseHonoured == \A t \in Thread : pc[t] \in {"acquire", "queue", "send"} => hold[t] = 0

\* A thread the limiter turns away always sleeps: acquire never spins on a
\* permit that is exactly a window old.
NeverSpins ==
    [][\A t \in Thread : pc[t] = "acquire" /\ pc'[t] = "queue" => nap'[t] > 0]_vars

\* Every request ends, with several threads competing for the window.
CallEnds == \A t \in Thread : pc[t] # "idle" ~> pc[t] = "idle"
=============================================================================
