-------------------------- MODULE ResilientTransport --------------------------
(* ResilientTransport::execute of pcloud-proto with the parts it is built from *)
(* in pcloud-resilience: the three-state CircuitBreaker shared by the clones   *)
(* of a transport, the GlobalRetryBudget shared by every transport of the      *)
(* daemon, the RetryPolicy and the TokenBucket in front of them.               *)
(*                                                                             *)
(* Several threads run execute at once.  The breaker is one mutex, so each of  *)
(* its operations is one step, but the lock is NOT held while the request is   *)
(* with the server: a result is recorded in whatever state the breaker has by  *)
(* then.  The budget is an atomic counter without a lock: try_consume is a     *)
(* fetch_sub and, when it turns out there was nothing to take, a fetch_add in  *)
(* a second step.  Time enters only as "the reset timeout has elapsed", which  *)
(* an admission may find TRUE or FALSE.                                        *)
EXTENDS Integers, FiniteSets

CONSTANTS
    Callers,          \* threads
    FailureThreshold, \* consecutive failures that open the breaker
    MaxAttempts,      \* RetryPolicy::max_attempts
    Capacity,         \* GlobalRetryBudget::capacity
    RateMode,         \* "Shed" or "Wait"
    MaxCalls          \* bound: calls of execute in a behaviour

ASSUME TransportAssumption ==
    /\ IsFiniteSet(Callers)
    /\ FailureThreshold \in Nat \ {0}
    /\ MaxAttempts \in Nat \ {0}
    /\ Capacity \in Nat \ {0}
    /\ RateMode \in {"Shed", "Wait"}
    /\ MaxCalls \in Nat

VARIABLES
    breaker,   \* the Inner record behind the mutex
    tokens,    \* the AtomicI64 of the budget
    call,      \* per caller: where its execute stands
    calls,     \* calls of execute so far
    successes, \* history: requests that succeeded
    retries    \* history: retries that the budget granted

vars == <<breaker, tokens, call, calls, successes, retries>>

(* Points of the loop in execute between two shared steps. *)
PC == {"idle", "limit", "admit", "inner", "replenish", "consume", "restore", "giveup"}

(* sent, commits: history, how often the request of this call went to the      *)
(* server and how often the server committed it.  probe: history, the call     *)
(* took the probe slot of the breaker when it was admitted.                    *)
IdleCall == [pc |-> "idle", mutation |-> FALSE, attempt |-> 0, sent |-> 0,
             commits |-> 0, probe |-> FALSE]

At(pc) == {c \in Callers : call[c].pc = pc}

Init ==
    /\ breaker = [state |-> "Closed", failures |-> 0, probe |-> FALSE]
    /\ tokens = Capacity
    /\ call = [c \in Callers |-> IdleCall]
    /\ calls = 0
    /\ successes = 0
    /\ retries = 0

-----------------------------------------------------------------------------
(* CircuitBreaker: what each operation makes of the record behind the mutex. *)

(* tick_locked: the lazy move to HalfOpen once the reset timeout has elapsed. *)
TickLocked(b, elapsed) ==
    IF b.state = "Open" /\ elapsed
    THEN [b EXCEPT !.state = "HalfOpen", !.probe = FALSE]
    ELSE b

(* try_acquire, after the tick. *)
TryAcquireOk(b) == b.state = "Closed" \/ (b.state = "HalfOpen" /\ ~b.probe)
TryAcquire(b) == IF b.state = "HalfOpen" THEN [b EXCEPT !.probe = TRUE] ELSE b

(* Mutant: the late success of a call admitted earlier is counted as any other *)
(* and leaves the probe slot to the call that took it.                         *)
MutSuccessKeepsHalfOpen(b) == [b EXCEPT !.failures = 0]

RecordSuccess(b) ==
    CASE b.state = "Closed"   -> [b EXCEPT !.failures = 0]
      [] b.state = "HalfOpen" -> [state |-> "Closed", failures |-> 0, probe |-> FALSE]
      [] b.state = "Open"     -> b

RecordFailure(b) ==
    CASE b.state = "Closed"   ->
             [b EXCEPT !.failures = @ + 1,
                       !.state = IF b.failures + 1 >= FailureThreshold THEN "Open" ELSE @]
      [] b.state = "HalfOpen" -> [b EXCEPT !.state = "Open", !.probe = FALSE]
      [] b.state = "Open"     -> b

-----------------------------------------------------------------------------
(* execute, step by step. *)

Goto(c, pc) == call' = [call EXCEPT ![c].pc = pc]
Returns(c)  == call' = [call EXCEPT ![c] = IdleCall]

(* A thread calls execute; the loop starts its first attempt. *)
Execute(c, mutation) ==
    /\ call[c].pc = "idle"
    /\ calls < MaxCalls
    /\ calls' = calls + 1
    /\ call' = [call EXCEPT ![c] = [IdleCall EXCEPT !.pc = "limit", !.mutation = mutation,
                                                    !.attempt = 1]]
    /\ UNCHANGED <<breaker, tokens, successes, retries>>

(* The token bucket lets the attempt through, at once or after the wait it     *)
(* asked for; in Shed mode an empty bucket ends the call instead.              *)
RateLimit(c) ==
    /\ call[c].pc = "limit"
    /\ \/ Goto(c, "admit")
       \/ RateMode = "Shed" /\ Returns(c)
    /\ UNCHANGED <<breaker, tokens, calls, successes, retries>>

(* The breaker admits the attempt, *)
Admit(c, elapsed) ==
    LET b == TickLocked(breaker, elapsed) IN
    /\ call[c].pc = "admit"
    /\ TryAcquireOk(b)
    /\ breaker' = TryAcquire(b)
    /\ call' = [call EXCEPT ![c].pc = "inner", ![c].probe = (b.state = "HalfOpen")]
    /\ UNCHANGED <<tokens, calls, successes, retries>>

(* or rejects it (CircuitOpen, ProbeInFlight), which ends the call. *)
Reject(c, elapsed) ==
    LET b == TickLocked(breaker, elapsed) IN
    /\ call[c].pc = "admit"
    /\ ~TryAcquireOk(b)
    /\ breaker' = b
    /\ Returns(c)
    /\ UNCHANGED <<tokens, calls, successes, retries>>

(* The server answers Ok; the success is recorded with the breaker. *)
InnerOk(c) ==
    /\ call[c].pc = "inner"
    /\ breaker' = RecordSuccess(breaker)
    /\ successes' = successes + 1
    /\ call' = [call EXCEPT ![c].pc = "replenish", ![c].sent = @ + 1,
                            ![c].commits = @ + 1, ![c].probe = FALSE]
    /\ UNCHANGED <<tokens, calls, retries>>

(* GlobalRetryBudget::replenish(1), the successful round of its compare and    *)
(* swap loop; then execute returns the answer.                                 *)
Replenish(c) ==
    /\ call[c].pc = "replenish"
    /\ tokens' = IF tokens + 1 <= Capacity THEN tokens + 1 ELSE Capacity
    /\ Returns(c)
    /\ UNCHANGED <<breaker, calls, successes, retries>>

(* An error the classifier calls permanent, an error of an upload mutation and *)
(* an error of the last attempt (RetryPolicy::next) are not retried.           *)
(* Mutant: upload mutations are retried like everything else. *)
MutRetriesMutations(c, permanent) == permanent \/ call[c].attempt >= MaxAttempts

NotRetried(c, permanent) ==
    permanent \/ call[c].mutation \/ call[c].attempt >= MaxAttempts

(* The request fails.  The failure is recorded with the breaker; committed     *)
(* says whether the server had applied the request before the answer was lost. *)
InnerFails(c, permanent, committed) ==
    /\ call[c].pc = "inner"
    /\ breaker' = RecordFailure(breaker)
    /\ call' = [call EXCEPT ![c].pc = IF NotRetried(c, permanent) THEN "giveup" ELSE "consume",
                            ![c].sent = @ + 1,
                            ![c].commits = @ + (IF committed THEN 1 ELSE 0),
                            ![c].probe = FALSE]
    /\ UNCHANGED <<tokens, calls, successes, retries>>

(* execute returns the error of the last attempt. *)
GiveUp(c) ==
    /\ call[c].pc = "giveup"
    /\ Returns(c)
    /\ UNCHANGED <<breaker, tokens, calls, successes, retries>>

(* try_consume: the fetch_sub.  A token that was there grants the next round   *)
(* of the loop; otherwise the counter is one too low until Restore.            *)
(* Mutant: the token is looked at first and taken in a step that no longer     *)
(* looks (load, then fetch_sub), the last token going to two callers.          *)
MutConsumeAtZero(c) ==
    /\ call[c].pc = "consume"
    /\ tokens' = tokens - 1
    /\ IF tokens < 0
       THEN Goto(c, "restore") /\ UNCHANGED retries
       ELSE /\ call' = [call EXCEPT ![c].pc = "limit", ![c].attempt = @ + 1]
            /\ retries' = retries + 1
    /\ UNCHANGED <<breaker, calls, successes>>

Consume(c) ==
    /\ call[c].pc = "consume"
    /\ tokens' = tokens - 1
    /\ IF tokens <= 0
       THEN Goto(c, "restore") /\ UNCHANGED retries
       ELSE /\ call' = [call EXCEPT ![c].pc = "limit", ![c].attempt = @ + 1]
            /\ retries' = retries + 1
    /\ UNCHANGED <<breaker, calls, successes>>

(* try_consume: the fetch_add, and BudgetExhausted is returned. *)
(* Mutant: an exhausted budget makes the caller try again instead of giving up. *)
MutSpinsOnBudget(c) ==
    /\ call[c].pc = "restore"
    /\ tokens' = tokens + 1
    /\ Goto(c, "consume")
    /\ UNCHANGED <<breaker, calls, successes, retries>>

Restore(c) ==
    /\ call[c].pc = "restore"
    /\ tokens' = tokens + 1
    /\ Returns(c)
    /\ UNCHANGED <<breaker, calls, successes, retries>>

Step(c) ==
    \/ RateLimit(c)
    \/ \E elapsed \in BOOLEAN : Admit(c, elapsed) \/ Reject(c, elapsed)
    \/ InnerOk(c)
    \/ Replenish(c)
    \/ \E permanent, committed \in BOOLEAN : InnerFails(c, permanent, committed)
    \/ GiveUp(c)
    \/ Consume(c)
    \/ Restore(c)

(* breaker_state(): an observer's look at the breaker ticks it too. *)
BreakerState ==
    /\ breaker.state = "Open"
    /\ breaker' = TickLocked(breaker, TRUE)
    /\ UNCHANGED <<tokens, call, calls, successes, retries>>

Next == \/ \E c \in Callers : Step(c) \/ \E mutation \in BOOLEAN : Execute(c, mutation)
        \/ BreakerState

Spec == Init /\ [][Next]_vars

(* A thread inside execute goes on: it waits only for the bucket and for the   *)
(* server, and both waits are bounded (the transport has socket timeouts).     *)
FairSpec == Spec /\ \A c \in Callers : WF_vars(Step(c))
-----------------------------------------------------------------------------
BreakerOK(b) ==
    /\ b \in [state : {"Closed", "Open", "HalfOpen"}, failures : 0..FailureThreshold,
               probe : BOOLEAN]
    /\ b.state = "Closed" => b.failures < FailureThreshold /\ ~b.probe
    /\ b.state = "Open" => ~b.probe

CallType == [pc : PC, mutation : BOOLEAN, attempt : 0..MaxAttempts, sent : 0..MaxAttempts,
             commits : 0..MaxAttempts, probe : BOOLEAN]

(* The states of a transport.  A closed breaker has counted fewer failures     *)
(* than the threshold and only a half-open one has a probe slot taken; no call *)
(* is past its last attempt.                                                   *)
TypeOK ==
    /\ BreakerOK(breaker)
    /\ tokens \in Int
    /\ call \in [Callers -> CallType]
    /\ calls \in 0..MaxCalls
    /\ successes \in Nat
    /\ retries \in Nat

(* A probe slot that is taken belongs to a call that took it and is still with *)
(* the server, so it will be given back: however late results of calls that    *)
(* were admitted before the breaker opened interleave with the probes, the     *)
(* breaker is never left half-open with a probe nobody runs, rejecting every   *)
(* call for ever (record_success, record_failure and tick_locked).             *)
ProbeHasOwner ==
    breaker.state = "HalfOpen" /\ breaker.probe => \E c \in At("inner") : call[c].probe

(* The lock-free budget never invents a retry: what the counter holds, with    *)
(* the fetch_adds and the replenishments that are still due, is at most the    *)
(* capacity plus the successes minus the retries granted, and the counter is   *)
(* below zero only by the fetch_adds that are still due.                       *)
BudgetAccounts ==
    /\ tokens + Cardinality(At("restore")) + Cardinality(At("replenish"))
           <= Capacity + successes - retries
    /\ 0 <= tokens + Cardinality(At("restore"))

(* execute keeps the promises of RequestContract to its callers: one request   *)
(* per granted attempt, no retry of an upload mutation, no retry without       *)
(* credit, Ok only for a committed request.                                    *)
WorkOf(k) ==
    [status |-> CASE k.pc = "idle" -> "idle" [] k.pc = "replenish" -> "answered" [] OTHER -> "running",
     mutation |-> k.mutation, sent |-> k.sent,
     grants |-> IF k.pc = "idle" THEN 0 ELSE k.attempt - 1, commits |-> k.commits]

Abstract == INSTANCE RequestContract
                WITH work <- [c \in Callers |-> WorkOf(call[c])],
                     credit <- Capacity + successes - retries

Contract == Abstract!Spec

(* Every call of execute returns: the attempts run out, and neither a breaker  *)
(* nor an empty budget holds a caller.                                         *)
CallReturns == \A c \in Callers : call[c].pc # "idle" ~> call[c].pc = "idle"
=============================================================================
