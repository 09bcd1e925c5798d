------------------------------- MODULE Admission -------------------------------
(***************************************************************************)
(* What a request passes before its route (backend/security/, added in     *)
(* backend/api/app.py): the rate limiter, then the authentication.         *)
(* Nothing is awaited between them, so one action is the whole way of a    *)
(* request.  Time is counted in ticks of the monotonic clock and tokens    *)
(* in parts of 1/Ticks, so that all numbers are integers.                  *)
(***************************************************************************)
EXTENDS Integers

CONSTANTS Client,   \* addresses, from X-Forwarded-For if there is one
          Group, Rpm,  \* route groups and their requests per minute
          Ticks,    \* clock ticks in a minute
          Horizon   \* bound on the clock

AdmissionAssumption ==
    /\ Rpm \in [Group -> Nat] /\ Ticks \in Nat \ {0} /\ Horizon \in Nat

VARIABLES now,       \* time.monotonic()
          bucket,    \* tokens and last_refill per client and group
          answer,    \* status of the last request, 200 once it reached its route
          since, admitted  \* auxiliary: a window of time and what it let through

vars == <<now, bucket, answer, since, admitted>>

NoBucket == [tokens |-> -1, last |-> -1]
Slot     == Client \X Group
Full(g)  == Rpm[g] * Ticks

Init == /\ now = 0 /\ bucket = [l \in Slot |-> NoBucket]
        /\ answer = 0 /\ since = 0 /\ admitted = [l \in Slot |-> 0]

Tick == /\ now < Horizon
        /\ now' = now + 1
        /\ UNCHANGED <<bucket, answer, since, admitted>>

\* The bucket is made after the clock was read, so its last refill may lie
\* after "now": the first elapsed time is then negative.
BucketOf(l, made) ==
    IF bucket[l] = NoBucket THEN [tokens |-> Full(l[2]), last |-> made] ELSE bucket[l]

Least(m, n) == IF m < n THEN m ELSE n

\* Mutant: tokens are added up without a cap.
RefilledUncapped(l, b) == [tokens |-> b.tokens + (now - b.last) * Rpm[l[2]], last |-> now]

Refilled(l, b) ==
    [tokens |-> Least(Full(l[2]), b.tokens + (now - b.last) * Rpm[l[2]]), last |-> now]

\* _check, a critical section without an await.
Check(l, made) ==
    LET b == Refilled(l, BucketOf(l, made)) IN
    IF b.tokens >= Ticks
    THEN /\ bucket' = [bucket EXCEPT ![l] = [b EXCEPT !.tokens = @ - Ticks]]
         /\ admitted' = [admitted EXCEPT ![l] = @ + 1]
    ELSE /\ bucket' = [bucket EXCEPT ![l] = b]
         /\ UNCHANGED admitted

Token == {"none", "wrong", "right"}

\* AuthMiddleware.dispatch: the health check is public, a token missing or wrong.
Authenticated(public, token) ==
    CASE public \/ token = "right"      -> 200
      [] ~public /\ token = "none"      -> 401
      [] OTHER                          -> 403

\* The limiter counts a request before anybody knows who sends it; what
\* the route does with it is not the middleware's business.
Serve(l) ==
    \E made \in now..(now + 1) :
        /\ Check(l, made)
        /\ answer' \in IF admitted' = admitted THEN {429}
                       ELSE {Authenticated(p, t) : p \in BOOLEAN, t \in Token}
        /\ UNCHANGED <<now, since>>

\* Auxiliary: somebody begins to count.
Watch == /\ since' = now
         /\ admitted' = [l \in Slot |-> 0]
         /\ UNCHANGED <<now, bucket, answer>>

Next == Tick \/ Watch \/ \E l \in Slot : Serve(l)

Spec == Init /\ [][Next]_vars
-----------------------------------------------------------------------------
TypeOK ==
    /\ now \in Nat /\ since \in Nat /\ since <= now
    /\ admitted \in [Slot -> Nat]
    /\ bucket \in [Slot -> [tokens : Int, last : Int]]

\* No window of time, whenever it begins, lets more than the burst and what the
\* rate refills in it through to the routes.
WithinBudget ==
    \A l \in Slot : admitted[l] * Ticks <= Full(l[2]) + (now - since) * Rpm[l[2]]
=============================================================================
