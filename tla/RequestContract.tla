---------------------------- MODULE RequestContract ----------------------------
(* What a caller of ResilientTransport::execute is promised, whatever the rate *)
(* limiter, the circuit breaker and the shared retry budget do inside:         *)
(*   - a request goes out once, and again only on a retry that was granted;    *)
(*   - an upload mutation (upload_write, upload_writefromfile, upload_save) is *)
(*     never granted a retry, so the server commits it at most once;           *)
(*   - all callers together are granted at most Capacity retries more than     *)
(*     there were successful requests (the promise against retry storms);      *)
(*   - a call that returns Ok has had its request committed.                   *)
(* ResilientTransport implements it: see Contract there.                       *)
EXTENDS Integers

CONSTANTS
    Callers,     \* threads that call execute
    MaxAttempts, \* attempts of one call, the first included
    Capacity     \* retries that may be granted before anything succeeded

VARIABLES
    work,        \* per caller: its call and what became of its request
    credit       \* retries that may still be granted to all callers together

vars == <<work, credit>>

(* A call that has not sent its request yet; "idle" is no call. *)
Fresh(status, mutation) ==
    [status |-> status, mutation |-> mutation, sent |-> 0, grants |-> 0, commits |-> 0]

Idle == Fresh("idle", FALSE)

(* A call w after its request went out once more and was committed n times. *)
Sent(w, n, status) ==
    [status |-> status, mutation |-> w.mutation, sent |-> w.sent + 1, grants |-> w.grants,
     commits |-> w.commits + n]

Init == /\ work = [c \in Callers |-> Idle]
        /\ credit = Capacity

(* A thread calls execute with a request that is an upload mutation or not. *)
Submit(c, mutation) ==
    /\ work[c].status = "idle"
    /\ work' = [work EXCEPT ![c] = Fresh("running", mutation)]
    /\ UNCHANGED credit

(* The request goes to the server and fails; the server may have committed it. *)
SendFails(c, committed) ==
    /\ work[c].status = "running"
    /\ work[c].sent = work[c].grants
    /\ work' = [work EXCEPT ![c] = Sent(@, IF committed THEN 1 ELSE 0, "running")]
    /\ UNCHANGED credit

(* The request goes to the server and succeeds, which earns one more retry. *)
SendSucceeds(c) ==
    /\ work[c].status = "running"
    /\ work[c].sent = work[c].grants
    /\ work' = [work EXCEPT ![c] = Sent(@, 1, "answered")]
    /\ credit' = credit + 1

(* One more attempt is granted to a call whose last attempt failed. *)
Grant(c) ==
    /\ work[c].status = "running" /\ ~work[c].mutation
    /\ work[c].sent = work[c].grants + 1
    /\ work[c].sent < MaxAttempts
    /\ credit > 0
    /\ work' = [work EXCEPT ![c].grants = @ + 1]
    /\ credit' = credit - 1

(* The call returns, with the answer or with an error. *)
Return(c) ==
    /\ work[c].status # "idle"
    /\ work' = [work EXCEPT ![c] = Idle]
    /\ UNCHANGED credit

Next == \E c \in Callers :
            \/ \E mutation \in BOOLEAN : Submit(c, mutation)
            \/ \E committed \in BOOLEAN : SendFails(c, committed)
            \/ SendSucceeds(c)
            \/ Grant(c)
            \/ Return(c)

Spec == Init /\ [][Next]_vars
=============================================================================
