----------------------- MODULE ResilientTransportProofs -----------------------
(* The safety of ResilientTransport for any number of callers, any threshold,  *)
(* number of attempts and capacity, and for as many calls as one likes; and    *)
(* that it implements RequestContract.                                         *)
EXTENDS ResilientTransport, FiniteSetTheorems, TLAPS

USE TransportAssumption

\* What the place a call has reached in execute says of its request: every
\* attempt but the running one has been sent, and only a call that may be
\* retried comes to the budget.
CallOK(k) ==
    /\ k.pc = "idle" => k = IdleCall
    /\ k.pc \in {"limit", "admit", "inner"} => k.attempt >= 1 /\ k.sent = k.attempt - 1
    /\ k.pc \in {"replenish", "consume", "restore", "giveup"} => k.attempt >= 1 /\ k.sent = k.attempt
    /\ k.pc = "consume" => ~k.mutation /\ k.attempt < MaxAttempts
    /\ k.commits <= k.sent

\* The inductive invariant.
Inv ==
    /\ TypeOK
    /\ \A c \in Callers : CallOK(call[c])
    /\ ProbeHasOwner
    /\ BudgetAccounts

\* A step of caller c changes only its own record.
Moves(c) ==
    /\ call' \in [Callers -> CallType]
    /\ CallOK(call'[c])
    /\ \A d \in Callers \ {c} : call'[d] = call[d]

-----------------------------------------------------------------------------
\* The callers at a place are finitely many.
LEMMA AtFinite ==
  ASSUME NEW p
  PROVE  IsFiniteSet(At(p)) /\ Cardinality(At(p)) \in Nat
<1>1. At(p) \in SUBSET Callers  BY DEF At
<1>2. IsFiniteSet(At(p))  BY <1>1, FS_Subset DEF TransportAssumption
<1> QED  BY <1>2, FS_CardinalityType

\* How many callers are at a place after a step of c: one more if c came to
\* it, one fewer if c left it.
LEMMA AtMoves ==
  ASSUME TypeOK, NEW c \in Callers, Moves(c), NEW p
  PROVE  Cardinality(At(p)') = Cardinality(At(p))
             + (IF call'[c].pc = p /\ call[c].pc # p THEN 1 ELSE 0)
             - (IF call'[c].pc # p /\ call[c].pc = p THEN 1 ELSE 0)
<1>1. IsFiniteSet(At(p)) /\ Cardinality(At(p)) \in Nat  BY AtFinite
<1>2. CASE call'[c].pc = p /\ call[c].pc # p
  <2>1. At(p)' = At(p) \cup {c}  BY <1>2 DEF At, Moves
  <2>2. c \notin At(p)  BY <1>2 DEF At
  <2>3. Cardinality(At(p) \cup {c}) = Cardinality(At(p)) + 1  BY <1>1, <2>2, FS_AddElement
  <2> QED  BY <1>1, <1>2, <2>1, <2>3
<1>3. CASE call'[c].pc # p /\ call[c].pc = p
  <2>1. At(p)' = At(p) \ {c}  BY <1>3 DEF At, Moves
  <2>2. c \in At(p)  BY <1>3 DEF At
  <2>3. Cardinality(At(p) \ {c}) = Cardinality(At(p)) - 1  BY <1>1, <2>2, FS_RemoveElement
  <2> QED  BY <1>1, <1>3, <2>1, <2>3
<1>4. CASE (call'[c].pc = p) <=> (call[c].pc = p)
  <2>1. At(p)' = At(p)  BY <1>4 DEF At, Moves
  <2> QED  BY <1>1, <1>4, <2>1
<1> QED  BY <1>2, <1>3, <1>4

\* A caller that is at a place is counted there.
LEMMA AtCounts ==
  ASSUME NEW c \in Callers, NEW p, call[c].pc = p
  PROVE  Cardinality(At(p)) >= 1
<1>1. IsFiniteSet(At(p)) /\ Cardinality(At(p)) \in Nat  BY AtFinite
<1>2. c \in At(p)  BY DEF At
<1>3. Cardinality(At(p)) # 0  BY <1>1, <1>2, FS_EmptySet
<1> QED  BY <1>1, <1>3

-----------------------------------------------------------------------------
\* The breaker's record keeps its type under each of its operations; none of
\* the two that record a result leaves it half-open.
LEMMA BreakerOps ==
  ASSUME NEW b, BreakerOK(b), NEW elapsed \in BOOLEAN
  PROVE  /\ BreakerOK(TickLocked(b, elapsed))
         /\ TickLocked(b, elapsed).probe => TickLocked(b, elapsed) = b
         /\ TryAcquireOk(b) => BreakerOK(TryAcquire(b)) /\ TryAcquire(b).state = b.state
         /\ BreakerOK(RecordSuccess(b)) /\ RecordSuccess(b).state # "HalfOpen"
         /\ BreakerOK(RecordFailure(b)) /\ RecordFailure(b).state # "HalfOpen"
<1> USE DEF BreakerOK, TransportAssumption
<1>1. b.state \in {"Closed", "Open", "HalfOpen"} /\ b.failures \in 0..FailureThreshold
      /\ b.probe \in BOOLEAN /\ b = [state |-> b.state, failures |-> b.failures, probe |-> b.probe]
  OBVIOUS
<1>2. BreakerOK(TickLocked(b, elapsed)) /\ (TickLocked(b, elapsed).probe => TickLocked(b, elapsed) = b)
  BY DEF TickLocked
<1>3. TryAcquireOk(b) => BreakerOK(TryAcquire(b)) /\ TryAcquire(b).state = b.state
  BY DEF TryAcquireOk, TryAcquire
<1>4. BreakerOK(RecordSuccess(b)) /\ RecordSuccess(b).state # "HalfOpen"
  BY <1>1 DEF RecordSuccess
<1>5. BreakerOK(RecordFailure(b)) /\ RecordFailure(b).state # "HalfOpen"
  <2>1. CASE b.state = "Closed"
    <3>1. RecordFailure(b) = [b EXCEPT !.failures = @ + 1,
                !.state = IF b.failures + 1 >= FailureThreshold THEN "Open" ELSE @]
      BY <2>1 DEF RecordFailure
    <3>2. b.failures + 1 \in 0..FailureThreshold
      BY <1>1, <2>1
    <3>3. RecordFailure(b) = [state |-> IF b.failures + 1 >= FailureThreshold THEN "Open" ELSE "Closed",
                              failures |-> b.failures + 1, probe |-> FALSE]
      BY <1>1, <2>1, <3>1
    <3> QED  BY <1>1, <2>1, <3>2, <3>3
  <2>2. CASE b.state = "HalfOpen"
    BY <1>1, <2>2 DEF RecordFailure
  <2>3. CASE b.state = "Open"
    BY <1>1, <2>3 DEF RecordFailure
  <2> QED  BY <1>1, <2>1, <2>2, <2>3
<1> QED  BY <1>2, <1>3, <1>4, <1>5

\* A transport as built satisfies the invariant.
LEMMA InitInv == Init => Inv
<1> SUFFICES ASSUME Init  PROVE Inv
  OBVIOUS
<1>1. IdleCall \in CallType
  BY DEF IdleCall, CallType, PC, TransportAssumption
<1>2. TypeOK
  BY <1>1 DEF Init, TypeOK, BreakerOK, TransportAssumption
<1>3. \A c \in Callers : CallOK(call[c])
  BY DEF Init, CallOK, IdleCall
<1>4. ProbeHasOwner
  BY DEF Init, ProbeHasOwner
<1>5. BudgetAccounts
  <2>1. At("restore") = {} /\ At("replenish") = {}
    BY DEF Init, At, IdleCall
  <2> QED  BY <2>1, FS_EmptySet DEF Init, BudgetAccounts, TransportAssumption
<1> QED  BY <1>2, <1>3, <1>4, <1>5 DEF Inv

-----------------------------------------------------------------------------
\* One fact about each step of execute: whose record it changes, and where
\* the call goes.
LEMMA StepMoves ==
  ASSUME Inv, NEW c \in Callers
  PROVE  /\ \A m \in BOOLEAN : Execute(c, m) => Moves(c) /\ call[c].pc = "idle" /\ call'[c].pc = "limit"
         /\ RateLimit(c) => Moves(c) /\ call[c].pc = "limit" /\ call'[c].pc \in {"admit", "idle"}
         /\ \A e \in BOOLEAN : Admit(c, e) => Moves(c) /\ call[c].pc = "admit" /\ call'[c].pc = "inner"
         /\ \A e \in BOOLEAN : Reject(c, e) => Moves(c) /\ call[c].pc = "admit" /\ call'[c].pc = "idle"
         /\ InnerOk(c) => Moves(c) /\ call[c].pc = "inner" /\ call'[c].pc = "replenish"
         /\ Replenish(c) => Moves(c) /\ call[c].pc = "replenish" /\ call'[c].pc = "idle"
         /\ \A p, m \in BOOLEAN : InnerFails(c, p, m) =>
                Moves(c) /\ call[c].pc = "inner" /\ call'[c].pc \in {"giveup", "consume"}
         /\ GiveUp(c) => Moves(c) /\ call[c].pc = "giveup" /\ call'[c].pc = "idle"
         /\ Consume(c) => Moves(c) /\ call[c].pc = "consume"
                          /\ call'[c].pc = IF tokens <= 0 THEN "restore" ELSE "limit"
         /\ Restore(c) => Moves(c) /\ call[c].pc = "restore" /\ call'[c].pc = "idle"
<1> DEFINE k == call[c]
<1>0. /\ k \in CallType /\ CallOK(k) /\ call \in [Callers -> CallType]
      /\ IdleCall \in CallType /\ CallOK(IdleCall) /\ IdleCall.pc = "idle" /\ 1 \in 0..MaxAttempts
  BY DEF Inv, TypeOK, IdleCall, CallType, CallOK, PC, TransportAssumption
<1>r. ASSUME Returns(c)  PROVE Moves(c) /\ call'[c].pc = "idle"
  BY <1>0, <1>r DEF Returns, Moves
<1>1. ASSUME NEW m \in BOOLEAN, Execute(c, m)
      PROVE  Moves(c) /\ call[c].pc = "idle" /\ call'[c].pc = "limit"
  <2>1. call'[c] = [pc |-> "limit", mutation |-> m, attempt |-> 1, sent |-> 0,
                    commits |-> 0, probe |-> FALSE]
    BY <1>0, <1>1 DEF Execute, IdleCall
  <2>2. call'[c] \in CallType /\ CallOK(call'[c])
    BY <1>0, <2>1 DEF CallType, CallOK, PC, IdleCall
  <2> QED  BY <1>0, <1>1, <2>1, <2>2 DEF Execute, Moves
<1>2. ASSUME RateLimit(c)
      PROVE  Moves(c) /\ call[c].pc = "limit" /\ call'[c].pc \in {"admit", "idle"}
  <2>1. CASE Goto(c, "admit")
    <3>1. call'[c] = [k EXCEPT !.pc = "admit"]  BY <1>0, <2>1 DEF Goto
    <3>2. call'[c] \in CallType /\ CallOK(call'[c]) /\ call'[c].pc = "admit"
      BY <1>0, <1>2, <3>1 DEF RateLimit, CallType, CallOK, PC
    <3> QED  BY <1>0, <1>2, <2>1, <3>2 DEF Goto, RateLimit, Moves
  <2>2. CASE Returns(c)  BY <1>2, <1>r, <2>2 DEF RateLimit
  <2> QED  BY <1>2, <2>1, <2>2 DEF RateLimit
<1>3. ASSUME NEW e \in BOOLEAN, Admit(c, e)
      PROVE  Moves(c) /\ call[c].pc = "admit" /\ call'[c].pc = "inner"
  <2>1. PICK q \in BOOLEAN : call' = [call EXCEPT ![c].pc = "inner", ![c].probe = q]
    BY <1>3 DEF Admit
  <2>2. call'[c] = [k EXCEPT !.pc = "inner", !.probe = q]  BY <1>0, <2>1
  <2>3. call'[c] \in CallType /\ CallOK(call'[c]) /\ call'[c].pc = "inner"
    BY <1>0, <1>3, <2>2 DEF Admit, CallType, CallOK, PC
  <2> QED  BY <1>0, <1>3, <2>1, <2>3 DEF Admit, Moves
<1>4. ASSUME NEW e \in BOOLEAN, Reject(c, e)
      PROVE  Moves(c) /\ call[c].pc = "admit" /\ call'[c].pc = "idle"
  BY <1>4, <1>r DEF Reject
<1>5. ASSUME InnerOk(c)
      PROVE  Moves(c) /\ call[c].pc = "inner" /\ call'[c].pc = "replenish"
  <2>1. call'[c] = [k EXCEPT !.pc = "replenish", !.sent = @ + 1, !.commits = @ + 1, !.probe = FALSE]
    BY <1>0, <1>5 DEF InnerOk
  <2>2. k.sent + 1 \in 0..MaxAttempts /\ k.commits + 1 \in 0..MaxAttempts
    BY <1>0, <1>5 DEF InnerOk, CallType, CallOK
  <2>3. call'[c] \in CallType /\ CallOK(call'[c]) /\ call'[c].pc = "replenish"
    BY <1>0, <1>5, <2>1, <2>2 DEF InnerOk, CallType, CallOK, PC
  <2> QED  BY <1>0, <1>5, <2>3 DEF InnerOk, Moves
<1>6. ASSUME Replenish(c)
      PROVE  Moves(c) /\ call[c].pc = "replenish" /\ call'[c].pc = "idle"
  BY <1>6, <1>r DEF Replenish
<1>7. ASSUME NEW p \in BOOLEAN, NEW m \in BOOLEAN, InnerFails(c, p, m)
      PROVE  Moves(c) /\ call[c].pc = "inner" /\ call'[c].pc \in {"giveup", "consume"}
  <2> DEFINE to == IF NotRetried(c, p) THEN "giveup" ELSE "consume"
             more == IF m THEN 1 ELSE 0
  <2>1. call' = [call EXCEPT ![c].pc = to, ![c].sent = @ + 1, ![c].commits = @ + more, ![c].probe = FALSE]
    BY <1>7 DEF InnerFails
  <2>2. call'[c] = [k EXCEPT !.pc = to, !.sent = @ + 1, !.commits = @ + more, !.probe = FALSE]
    BY <1>0, <2>1
  <2>3. k.sent + 1 \in 0..MaxAttempts /\ k.commits + more \in 0..MaxAttempts /\ more \in 0..1
    BY <1>0, <1>7 DEF InnerFails, CallType, CallOK
  <2>4. to = "consume" => ~k.mutation /\ k.attempt < MaxAttempts
    BY <1>0 DEF NotRetried, CallType
  <2>5. to \in {"giveup", "consume"}  OBVIOUS
  <2> HIDE DEF to, more
  <2>6. call'[c] \in CallType /\ CallOK(call'[c]) /\ call'[c].pc \in {"giveup", "consume"}
    BY <1>0, <1>7, <2>2, <2>3, <2>4, <2>5 DEF InnerFails, CallType, CallOK, PC
  <2> QED  BY <1>0, <1>7, <2>1, <2>6 DEF InnerFails, Moves
<1>8. ASSUME GiveUp(c)
      PROVE  Moves(c) /\ call[c].pc = "giveup" /\ call'[c].pc = "idle"
  BY <1>8, <1>r DEF GiveUp
<1>9. ASSUME Consume(c)
      PROVE  Moves(c) /\ call[c].pc = "consume"
             /\ call'[c].pc = IF tokens <= 0 THEN "restore" ELSE "limit"
  <2>1. CASE tokens <= 0
    <3>1. call'[c] = [k EXCEPT !.pc = "restore"]  BY <1>0, <1>9, <2>1 DEF Consume, Goto
    <3>2. call'[c] \in CallType /\ CallOK(call'[c]) /\ call'[c].pc = "restore"
      BY <1>0, <1>9, <3>1 DEF Consume, CallType, CallOK, PC
    <3> QED  BY <1>0, <1>9, <2>1, <3>2 DEF Consume, Goto, Moves
  <2>2. CASE ~(tokens <= 0)
    <3>1. call'[c] = [k EXCEPT !.pc = "limit", !.attempt = @ + 1]  BY <1>0, <1>9, <2>2 DEF Consume
    <3>2. k.attempt + 1 \in 0..MaxAttempts
      BY <1>0, <1>9 DEF Consume, CallType, CallOK
    <3>3. /\ k.pc = "consume" /\ k.attempt \in Nat /\ k.sent = k.attempt /\ k.attempt >= 1
          /\ k.commits <= k.sent
      BY <1>0, <1>9 DEF Consume, CallType, CallOK
    <3>4. /\ call'[c].pc = "limit" /\ call'[c].attempt = k.attempt + 1 /\ call'[c].sent = k.sent
          /\ call'[c].commits = k.commits /\ call'[c] \in CallType
      BY <1>0, <3>1, <3>2 DEF CallType, PC
    <3>5. CallOK(call'[c])
      BY <3>3, <3>4 DEF CallOK
    <3> QED  BY <1>0, <1>9, <2>2, <3>4, <3>5 DEF Consume, Moves
  <2> QED  BY <2>1, <2>2
<1>10. ASSUME Restore(c)
       PROVE  Moves(c) /\ call[c].pc = "restore" /\ call'[c].pc = "idle"
  BY <1>10, <1>r DEF Restore
<1> QED  BY <1>1, <1>2, <1>3, <1>4, <1>5, <1>6, <1>7, <1>8, <1>9, <1>10

\* The types survive a step of a caller.
LEMMA StepType ==
  ASSUME Inv, NEW c \in Callers, Step(c) \/ \E m \in BOOLEAN : Execute(c, m)
  PROVE  TypeOK' /\ \A d \in Callers : CallOK(call'[d])
<1> USE DEF TypeOK
<1>0. TypeOK /\ BreakerOK(breaker)  BY DEF Inv
<1>m. ASSUME Moves(c)
      PROVE  call' \in [Callers -> CallType] /\ \A d \in Callers : CallOK(call'[d])
  BY <1>m DEF Moves, Inv
<1>1. CASE \E m \in BOOLEAN : Execute(c, m)
  <2>1. PICK m \in BOOLEAN : Execute(c, m)  BY <1>1
  <2>2. Moves(c)  BY <2>1, StepMoves
  <2>3. calls \in 0..MaxCalls /\ calls < MaxCalls /\ calls' = calls + 1
    BY <1>0, <2>1 DEF Execute
  <2>a. MaxCalls \in Nat  BY DEF TransportAssumption
  <2>4. calls' \in 0..MaxCalls  BY ONLY <2>3, <2>a
  <2> QED  BY <1>0, <1>m, <2>1, <2>2, <2>4 DEF Execute
<1>2. CASE RateLimit(c)  BY <1>0, <1>2, <1>m, StepMoves DEF RateLimit
<1>3. ASSUME NEW e \in BOOLEAN, Admit(c, e)  PROVE TypeOK' /\ \A d \in Callers : CallOK(call'[d])
  <2>1. BreakerOK(breaker')
    BY <1>0, <1>3, BreakerOps DEF Admit
  <2> QED  BY <1>0, <1>3, <1>m, <2>1, StepMoves DEF Admit
<1>4. ASSUME NEW e \in BOOLEAN, Reject(c, e)  PROVE TypeOK' /\ \A d \in Callers : CallOK(call'[d])
  <2>1. BreakerOK(breaker')
    BY <1>0, <1>4, BreakerOps DEF Reject
  <2> QED  BY <1>0, <1>4, <1>m, <2>1, StepMoves DEF Reject
<1>5. CASE InnerOk(c)
  <2>1. BreakerOK(breaker')
    BY <1>0, <1>5, BreakerOps DEF InnerOk
  <2>2. Moves(c)  BY <1>5, StepMoves
  <2>3. successes \in Nat /\ successes' = successes + 1  BY <1>0, <1>5 DEF InnerOk
  <2>4. successes' \in Nat  BY ONLY <2>3
  <2> QED  BY <1>0, <1>5, <1>m, <2>1, <2>2, <2>4 DEF InnerOk
<1>6. CASE Replenish(c)
  <2>1. tokens' \in Int
    BY <1>0, <1>6 DEF Replenish, TransportAssumption
  <2> QED  BY <1>0, <1>6, <1>m, <2>1, StepMoves DEF Replenish
<1>7. ASSUME NEW p \in BOOLEAN, NEW m \in BOOLEAN, InnerFails(c, p, m)
      PROVE  TypeOK' /\ \A d \in Callers : CallOK(call'[d])
  <2>1. BreakerOK(breaker')
    BY <1>0, <1>7, BreakerOps DEF InnerFails
  <2>2. Moves(c)  BY <1>7, StepMoves
  <2> QED  BY <1>0, <1>7, <1>m, <2>1, <2>2 DEF InnerFails
<1>8. CASE GiveUp(c)  BY <1>0, <1>8, <1>m, StepMoves DEF GiveUp
<1>9. CASE Consume(c)
  <2>1. tokens' \in Int /\ retries' \in Nat
    BY <1>0, <1>9 DEF Consume
  <2> QED  BY <1>0, <1>9, <1>m, <2>1, StepMoves DEF Consume
<1>10. CASE Restore(c)
  BY <1>0, <1>10, <1>m, StepMoves DEF Restore
<1> QED  BY <1>1, <1>2, <1>3, <1>4, <1>5, <1>6, <1>7, <1>8, <1>9, <1>10 DEF Step

\* The probe slot keeps its owner over a step of a caller: a call that leaves
\* the server takes the breaker out of HalfOpen, whoever's result it is.
LEMMA StepProbe ==
  ASSUME Inv, NEW c \in Callers, Step(c) \/ \E m \in BOOLEAN : Execute(c, m)
  PROVE  ProbeHasOwner'
<1>0. TypeOK /\ BreakerOK(breaker) /\ ProbeHasOwner  BY DEF Inv, TypeOK
<1>s. ASSUME Moves(c), call[c].pc # "inner", breaker' = breaker
      PROVE  ProbeHasOwner'
  BY <1>0, <1>s DEF ProbeHasOwner, At, Moves
<1>1. CASE \E m \in BOOLEAN : Execute(c, m)
  BY <1>1, <1>s, StepMoves DEF Execute
<1>2. CASE RateLimit(c)  BY <1>2, <1>s, StepMoves DEF RateLimit
<1>3. ASSUME NEW e \in BOOLEAN, Admit(c, e)  PROVE ProbeHasOwner'
  <2> DEFINE b == TickLocked(breaker, e)
  <2>1. breaker'.state = b.state
    BY <1>0, <1>3, BreakerOps DEF Admit
  <2>2. call'[c].pc = "inner" /\ call'[c].probe = (b.state = "HalfOpen")
    BY <1>0, <1>3 DEF Admit, TypeOK, CallType
  <2> QED  BY <2>1, <2>2 DEF ProbeHasOwner, At
<1>4. ASSUME NEW e \in BOOLEAN, Reject(c, e)  PROVE ProbeHasOwner'
  <2> DEFINE b == TickLocked(breaker, e)
  <2>1. breaker' = b /\ (b.probe => b = breaker)
    BY <1>0, <1>4, BreakerOps DEF Reject
  <2>2. CASE b = breaker  BY <1>4, <1>s, <2>1, <2>2, StepMoves DEF Reject
  <2>3. CASE ~b.probe  BY <2>1, <2>3 DEF ProbeHasOwner
  <2> QED  BY <2>1, <2>2, <2>3
<1>5. CASE InnerOk(c)
  BY <1>0, <1>5, BreakerOps DEF InnerOk, ProbeHasOwner
<1>6. CASE Replenish(c)  BY <1>6, <1>s, StepMoves DEF Replenish
<1>7. ASSUME NEW p \in BOOLEAN, NEW m \in BOOLEAN, InnerFails(c, p, m)  PROVE ProbeHasOwner'
  BY <1>0, <1>7, BreakerOps DEF InnerFails, ProbeHasOwner
<1>8. CASE GiveUp(c)  BY <1>8, <1>s, StepMoves DEF GiveUp
<1>9. CASE Consume(c)  BY <1>9, <1>s, StepMoves DEF Consume
<1>10. CASE Restore(c)  BY <1>10, <1>s, StepMoves DEF Restore
<1> QED  BY <1>1, <1>2, <1>3, <1>4, <1>5, <1>6, <1>7, <1>8, <1>9, <1>10 DEF Step

\* The books of the budget balance over a step of a caller.
LEMMA StepBudget ==
  ASSUME Inv, NEW c \in Callers, Step(c) \/ \E m \in BOOLEAN : Execute(c, m)
  PROVE  BudgetAccounts'
<1> DEFINE owed == Cardinality(At("restore"))
           due  == Cardinality(At("replenish"))
<1>0. /\ TypeOK /\ tokens \in Int /\ successes \in Nat /\ retries \in Nat /\ Capacity \in Nat
      /\ owed \in Nat /\ due \in Nat
      /\ tokens + owed + due <= Capacity + successes - retries /\ 0 <= tokens + owed
  BY AtFinite DEF Inv, TypeOK, BudgetAccounts, TransportAssumption
<1>m. ASSUME Moves(c)
      PROVE  /\ owed' = owed + (IF call'[c].pc = "restore" /\ call[c].pc # "restore" THEN 1 ELSE 0)
                             - (IF call'[c].pc # "restore" /\ call[c].pc = "restore" THEN 1 ELSE 0)
             /\ due' = due + (IF call'[c].pc = "replenish" /\ call[c].pc # "replenish" THEN 1 ELSE 0)
                           - (IF call'[c].pc # "replenish" /\ call[c].pc = "replenish" THEN 1 ELSE 0)
  BY <1>0, <1>m, AtMoves
<1>c. /\ call[c].pc = "restore" => owed >= 1
      /\ call[c].pc = "replenish" => due >= 1
  BY AtCounts
<1>b. BudgetAccounts' <=> /\ tokens' + owed' + due' <= Capacity + successes' - retries'
                          /\ 0 <= tokens' + owed'
  BY DEF BudgetAccounts
<1> HIDE DEF owed, due
<1>s. ASSUME Moves(c), call[c].pc \notin {"restore", "replenish"},
             call'[c].pc \notin {"restore", "replenish"}, UNCHANGED <<tokens, successes, retries>>
      PROVE  BudgetAccounts'
  BY <1>0, <1>m, <1>b, <1>s
<1>1. CASE \E m \in BOOLEAN : Execute(c, m)
  BY <1>1, <1>s, StepMoves DEF Execute
<1>2. CASE RateLimit(c)  BY <1>2, <1>s, StepMoves DEF RateLimit
<1>3. ASSUME NEW e \in BOOLEAN, Admit(c, e) \/ Reject(c, e)  PROVE BudgetAccounts'
  BY <1>3, <1>s, StepMoves DEF Admit, Reject
<1>4. CASE InnerOk(c)
  <2>1. owed' = owed /\ due' = due + 1
    BY <1>0, <1>4, <1>m, StepMoves
  <2>2. tokens' = tokens /\ successes' = successes + 1 /\ retries' = retries
    BY <1>4 DEF InnerOk
  <2> QED  BY <1>0, <1>b, <2>1, <2>2
<1>5. CASE Replenish(c)
  <2>1. owed' = owed /\ due' = due - 1
    BY <1>0, <1>5, <1>m, StepMoves
  <2>2. /\ tokens' = IF tokens + 1 <= Capacity THEN tokens + 1 ELSE Capacity
        /\ successes' = successes /\ retries' = retries
    BY <1>5 DEF Replenish
  <2> QED  BY <1>0, <1>b, <2>1, <2>2
<1>6. ASSUME NEW p \in BOOLEAN, NEW m \in BOOLEAN, InnerFails(c, p, m)  PROVE BudgetAccounts'
  BY <1>6, <1>s, StepMoves DEF InnerFails
<1>7. CASE GiveUp(c)  BY <1>7, <1>s, StepMoves DEF GiveUp
<1>8. CASE Consume(c)
  <2>1. CASE tokens <= 0
    <3>1. owed' = owed + 1 /\ due' = due
      BY <1>0, <1>8, <1>m, <2>1, StepMoves
    <3>2. tokens' = tokens - 1 /\ successes' = successes /\ retries' = retries
      BY <1>8, <2>1 DEF Consume
    <3> QED  BY <1>0, <1>b, <3>1, <3>2
  <2>2. CASE ~(tokens <= 0)
    <3>1. owed' = owed /\ due' = due
      BY <1>0, <1>8, <1>m, <2>2, StepMoves
    <3>2. tokens' = tokens - 1 /\ successes' = successes /\ retries' = retries + 1
      BY <1>8, <2>2 DEF Consume
    <3> QED  BY <1>0, <1>b, <2>2, <3>1, <3>2
  <2> QED  BY <2>1, <2>2
<1>9. CASE Restore(c)
  <2>1. owed' = owed - 1 /\ due' = due
    BY <1>0, <1>9, <1>m, StepMoves
  <2>2. tokens' = tokens + 1 /\ successes' = successes /\ retries' = retries
    BY <1>9 DEF Restore
  <2> QED  BY <1>0, <1>b, <2>1, <2>2
<1> QED  BY <1>1, <1>2, <1>3, <1>4, <1>5, <1>6, <1>7, <1>8, <1>9 DEF Step

\* Every step preserves the invariant.
LEMMA NextInv == Inv /\ [Next]_vars => Inv'
<1> SUFFICES ASSUME Inv, [Next]_vars  PROVE Inv'
  OBVIOUS
<1>1. ASSUME NEW c \in Callers, Step(c) \/ \E m \in BOOLEAN : Execute(c, m)
      PROVE  Inv'
  BY <1>1, StepType, StepProbe, StepBudget DEF Inv
<1>2. CASE BreakerState
  <2>1. BreakerOK(breaker') /\ (breaker'.probe => breaker' = breaker)
    BY <1>2, BreakerOps DEF BreakerState, Inv, TypeOK
  <2>2. call' = call /\ \A p : At(p)' = At(p)
    BY <1>2 DEF BreakerState, At
  <2> QED  BY <1>2, <2>1, <2>2 DEF BreakerState, Inv, TypeOK, ProbeHasOwner, BudgetAccounts
<1>3. CASE UNCHANGED vars
  BY <1>3 DEF vars, Inv, TypeOK, ProbeHasOwner, BudgetAccounts, At
<1> QED  BY <1>1, <1>2, <1>3 DEF Next

\* Along every behaviour of the transport the invariant holds.
THEOREM TransportInvariant == Spec => []Inv
  BY InitInv, NextInv, PTL DEF Spec

\* The states of breaker, budget and calls keep their types; no call exceeds
\* its attempts, a closed breaker is below its threshold.
THEOREM TransportTypeOK == Spec => []TypeOK
<1>1. Inv => TypeOK  BY DEF Inv
<1> QED  BY <1>1, TransportInvariant, PTL

\* A taken probe slot always has a call that will give it back, for any
\* number of threads and any interleaving of late results.
THEOREM ProbeOwned == Spec => []ProbeHasOwner
<1>1. Inv => ProbeHasOwner  BY DEF Inv
<1> QED  BY <1>1, TransportInvariant, PTL

\* The lock-free budget grants no retry that was not there, for any number of
\* threads.
THEOREM BudgetBalances == Spec => []BudgetAccounts
<1>1. Inv => BudgetAccounts  BY DEF Inv
<1> QED  BY <1>1, TransportInvariant, PTL

-----------------------------------------------------------------------------
\* What a caller's thread is doing, as RequestContract sees it.
Work == [c \in Callers |-> WorkOf(call[c])]
Credit == Capacity + successes - retries

\* The view of an idle call, and of one under way.
LEMMA WorkIdle == WorkOf(IdleCall) = Abstract!Idle
  BY DEF IdleCall, WorkOf, Abstract!Idle, Abstract!Fresh

LEMMA WorkBusy ==
  ASSUME NEW k, k.pc # "idle"
  PROVE  WorkOf(k) = [status |-> IF k.pc = "replenish" THEN "answered" ELSE "running",
                      mutation |-> k.mutation, sent |-> k.sent,
                      grants |-> k.attempt - 1, commits |-> k.commits]
  BY DEF WorkOf

\* A step of one caller changes the contract's view of that caller only.
LEMMA WorkMoves ==
  ASSUME NEW c \in Callers, Moves(c)
  PROVE  Work' = [Work EXCEPT ![c] = WorkOf(call'[c])]
  BY DEF Work, Moves

\* A call that returns is idle for the contract.
LEMMA ReturnMaps ==
  ASSUME NEW c \in Callers, Moves(c), call[c].pc # "idle", call'[c].pc = "idle",
         UNCHANGED <<successes, retries>>
  PROVE  Abstract!Return(c)
<1>1. WorkOf(call'[c]) = Abstract!Idle
  BY WorkIdle DEF Moves, CallOK
<1>2. Work' = [Work EXCEPT ![c] = Abstract!Idle]  BY <1>1, WorkMoves
<1>3. Work[c].status # "idle"  BY DEF Work, WorkOf
<1> QED  BY <1>2, <1>3 DEF Abstract!Return, Work

\* The initial state is one of the contract's.
LEMMA InitMaps == Init => Abstract!Init
<1> SUFFICES ASSUME Init  PROVE Abstract!Init
  OBVIOUS
<1>1. \A c \in Callers : WorkOf(call[c]) = Abstract!Idle
  BY WorkIdle DEF Init
<1>2. Capacity + successes - retries = Capacity
  BY DEF Init, TransportAssumption
<1> QED  BY <1>1, <1>2 DEF Abstract!Init

\* Every step of a caller is a step of the contract, or one it does not see.
LEMMA StepMaps ==
  ASSUME Inv, NEW c \in Callers, Step(c) \/ \E m \in BOOLEAN : Execute(c, m)
  PROVE  Abstract!Next \/ UNCHANGED <<Work, Credit>>
<1> DEFINE k == call[c]
<1>0. /\ k \in CallType /\ CallOK(k) /\ call \in [Callers -> CallType]
      /\ tokens \in Int /\ successes \in Nat /\ retries \in Nat /\ Capacity \in Nat
  BY DEF Inv, TypeOK, TransportAssumption
<1>w. Work[c] = WorkOf(k)  BY DEF Work
<1>1. CASE \E m \in BOOLEAN : Execute(c, m)
  <2>1. PICK m \in BOOLEAN : Execute(c, m)  BY <1>1
  <2>2. Moves(c) /\ k.pc = "idle"  BY <2>1, StepMoves
  <2>a. call'[c] = [pc |-> "limit", mutation |-> m, attempt |-> 1, sent |-> 0,
                    commits |-> 0, probe |-> FALSE]
    BY <1>0, <2>1 DEF Execute, IdleCall
  <2>3. WorkOf(call'[c]) = Abstract!Fresh("running", m)
    BY <2>a DEF WorkOf, Abstract!Fresh
  <2>4. Work' = [Work EXCEPT ![c] = Abstract!Fresh("running", m)]
    BY <2>2, <2>3, WorkMoves
  <2>5. Work[c].status = "idle"  BY <1>w, <2>2 DEF WorkOf
  <2>6. Abstract!Submit(c, m)
    BY <2>1, <2>4, <2>5 DEF Abstract!Submit, Work, Execute
  <2> QED  BY <2>6 DEF Abstract!Next
<1>2. CASE RateLimit(c)
  <2>1. Moves(c) /\ k.pc = "limit"  BY <1>2, StepMoves
  <2>2. CASE Goto(c, "admit")
    <3>1. WorkOf(call'[c]) = WorkOf(k)
      BY <1>0, <2>1, <2>2 DEF Goto, WorkOf, CallType
    <3>2. Work' = Work  BY <1>w, <2>1, <3>1, WorkMoves DEF Work
    <3> QED  BY <1>2, <3>2 DEF RateLimit, Credit
  <2>3. CASE Returns(c)
    <3>1. call'[c].pc = "idle"  BY <1>0, <2>3 DEF Returns, IdleCall
    <3> QED  BY <1>2, <2>1, <3>1, ReturnMaps DEF RateLimit, Abstract!Next
  <2> QED  BY <1>2, <2>2, <2>3 DEF RateLimit
<1>3. ASSUME NEW e \in BOOLEAN, Admit(c, e)
      PROVE  Abstract!Next \/ UNCHANGED <<Work, Credit>>
  <2>1. Moves(c) /\ k.pc = "admit"  BY <1>3, StepMoves
  <2>2. WorkOf(call'[c]) = WorkOf(k)
    BY <1>0, <1>3, <2>1 DEF Admit, WorkOf, CallType
  <2>3. Work' = Work  BY <1>w, <2>1, <2>2, WorkMoves DEF Work
  <2> QED  BY <1>3, <2>3 DEF Admit, Credit
<1>4. ASSUME NEW e \in BOOLEAN, Reject(c, e)
      PROVE  Abstract!Next \/ UNCHANGED <<Work, Credit>>
  <2>1. Moves(c) /\ k.pc = "admit" /\ call'[c].pc = "idle"  BY <1>4, StepMoves
  <2> QED  BY <1>4, <2>1, ReturnMaps DEF Reject, Abstract!Next
<1>5. CASE InnerOk(c)
  <2>1. Moves(c) /\ k.pc = "inner"  BY <1>5, StepMoves
  <2>a. /\ call'[c].pc = "replenish" /\ call'[c].mutation = k.mutation /\ call'[c].attempt = k.attempt
        /\ call'[c].sent = k.sent + 1 /\ call'[c].commits = k.commits + 1
    BY <1>0, <1>5 DEF InnerOk, CallType
  <2>2. WorkOf(call'[c]) = Abstract!Sent(WorkOf(k), 1, "answered")
    BY <2>1, <2>a DEF WorkOf, Abstract!Sent
  <2>3. Work' = [Work EXCEPT ![c] = Abstract!Sent(Work[c], 1, "answered")]
    BY <1>w, <2>1, <2>2, WorkMoves
  <2>4. Work[c].status = "running" /\ Work[c].sent = Work[c].grants
    BY <1>0, <1>w, <2>1, WorkBusy DEF CallOK
  <2>5. Credit' = Credit + 1  BY <1>0, <1>5 DEF InnerOk, Credit
  <2>6. Abstract!SendSucceeds(c)
    BY <2>3, <2>4, <2>5 DEF Abstract!SendSucceeds, Work, Credit
  <2> QED  BY <2>6 DEF Abstract!Next
<1>6. CASE Replenish(c)
  <2>1. Moves(c) /\ k.pc = "replenish" /\ call'[c].pc = "idle"  BY <1>6, StepMoves
  <2> QED  BY <1>6, <2>1, ReturnMaps DEF Replenish, Abstract!Next
<1>7. ASSUME NEW p \in BOOLEAN, NEW m \in BOOLEAN, InnerFails(c, p, m)
      PROVE  Abstract!Next \/ UNCHANGED <<Work, Credit>>
  <2> DEFINE more == IF m THEN 1 ELSE 0
  <2>1. Moves(c) /\ k.pc = "inner" /\ call'[c].pc \in {"giveup", "consume"}  BY <1>7, StepMoves
  <2>2. /\ call'[c].mutation = k.mutation /\ call'[c].attempt = k.attempt
        /\ call'[c].sent = k.sent + 1 /\ call'[c].commits = k.commits + more
    BY <1>0, <1>7 DEF InnerFails, CallType
  <2>3. WorkOf(call'[c]) = Abstract!Sent(WorkOf(k), more, "running")
    BY <2>1, <2>2 DEF WorkOf, Abstract!Sent
  <2>4. Work' = [Work EXCEPT ![c] = Abstract!Sent(Work[c], more, "running")]
    BY <1>w, <2>1, <2>3, WorkMoves
  <2>5. Work[c].status = "running" /\ Work[c].sent = Work[c].grants
    BY <1>0, <1>w, <2>1, WorkBusy DEF CallOK
  <2>6. Abstract!SendFails(c, m)
    BY <1>7, <2>4, <2>5 DEF Abstract!SendFails, Work, InnerFails
  <2> QED  BY <2>6 DEF Abstract!Next
<1>8. CASE GiveUp(c)
  <2>1. Moves(c) /\ k.pc = "giveup" /\ call'[c].pc = "idle"  BY <1>8, StepMoves
  <2> QED  BY <1>8, <2>1, ReturnMaps DEF GiveUp, Abstract!Next
<1>9. CASE Consume(c)
  <2>1. Moves(c) /\ k.pc = "consume"  BY <1>9, StepMoves
  <2>2. CASE tokens <= 0
    <3>1. WorkOf(call'[c]) = WorkOf(k)
      BY <1>0, <1>9, <2>1, <2>2 DEF Consume, Goto, WorkOf, CallType
    <3>2. Work' = Work  BY <1>w, <2>1, <3>1, WorkMoves DEF Work
    <3> QED  BY <1>9, <2>2, <3>2 DEF Consume, Credit
  <2>3. CASE ~(tokens <= 0)
    <3>1. /\ call'[c].pc = "limit" /\ call'[c].mutation = k.mutation /\ call'[c].attempt = k.attempt + 1
          /\ call'[c].sent = k.sent /\ call'[c].commits = k.commits
      BY <1>0, <1>9, <2>3 DEF Consume, CallType
    <3>2. k.attempt \in Nat  BY <1>0 DEF CallType
    <3>3. WorkOf(call'[c]) = [WorkOf(k) EXCEPT !.grants = @ + 1]
      BY <2>1, <3>1, <3>2 DEF WorkOf
    <3>4. Work' = [Work EXCEPT ![c].grants = @ + 1]
      BY <1>w, <2>1, <3>3, WorkMoves DEF Work
    <3>5. /\ Work[c].status = "running" /\ ~Work[c].mutation
          /\ Work[c].sent = Work[c].grants + 1 /\ Work[c].sent < MaxAttempts
      BY <1>0, <1>w, <2>1, <3>2, WorkBusy DEF CallOK
    <3>6. Credit > 0
      <4>1. Cardinality(At("restore")) \in Nat /\ Cardinality(At("replenish")) \in Nat
        BY AtFinite
      <4>2. tokens + Cardinality(At("restore")) + Cardinality(At("replenish")) <= Credit
        BY DEF Inv, BudgetAccounts, Credit
      <4>3. Credit \in Int  BY <1>0 DEF Credit
      <4> QED  BY <1>0, <2>3, <4>1, <4>2, <4>3
    <3>7. Credit' = Credit - 1  BY <1>0, <1>9, <2>3 DEF Consume, Credit
    <3>8. Abstract!Grant(c)
      BY <3>4, <3>5, <3>6, <3>7 DEF Abstract!Grant, Work, Credit
    <3> QED  BY <3>8 DEF Abstract!Next
  <2> QED  BY <2>2, <2>3
<1>10. CASE Restore(c)
  <2>1. Moves(c) /\ k.pc = "restore" /\ call'[c].pc = "idle"  BY <1>10, StepMoves
  <2> QED  BY <1>10, <2>1, ReturnMaps DEF Restore, Abstract!Next
<1> QED  BY <1>1, <1>2, <1>3, <1>4, <1>5, <1>6, <1>7, <1>8, <1>9, <1>10 DEF Step

\* ResilientTransport implements RequestContract: whatever limiter, breaker
\* and budget do, a mutation goes out once, nothing goes out without a grant,
\* and the grants of all threads stay within capacity plus successes.
THEOREM Implements == Spec => Contract
<1>1. Init => Abstract!Init  BY InitMaps
<1>2. Inv /\ [Next]_vars => [Abstract!Next]_(Abstract!vars)
  <2> SUFFICES ASSUME Inv, [Next]_vars  PROVE Abstract!Next \/ UNCHANGED <<Work, Credit>>
    BY DEF Abstract!vars, Work, Credit
  <2>1. ASSUME NEW c \in Callers, Step(c) \/ \E m \in BOOLEAN : Execute(c, m)
        PROVE  Abstract!Next \/ UNCHANGED <<Work, Credit>>
    BY <2>1, StepMaps
  <2>2. CASE BreakerState  BY <2>2 DEF BreakerState, Work, Credit
  <2>3. CASE UNCHANGED vars  BY <2>3 DEF vars, Work, Credit
  <2> QED  BY <2>1, <2>2, <2>3 DEF Next
<1> QED  BY <1>1, <1>2, TransportInvariant, PTL DEF Spec, Contract, Abstract!Spec
=============================================================================
