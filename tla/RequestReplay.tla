--------------------------- MODULE RequestReplay ---------------------------
(***************************************************************************)
(* What a receiver's requests.log means: the replay window (MC_Replay) and *)
(* the reader that rebuilds it from the records (MC_Request_Replay).       *)
(*                                                                         *)
(* A request stands for its signed header and body: two requests are equal *)
(* exactly when their header digests are, since the header carries the     *)
(* digest of the body.  `work' is the pair (Transaction_ID, Plan_Digest).  *)
(***************************************************************************)
EXTENDS Integers, Sequences

CONSTANTS
    Ids,        \* request identities
    Works,      \* (transaction, plan) pairs
    Requests    \* the signed requests that may reach the receiver

Actions == {"plan", "prepare", "apply", "inspect", "recover", "commit",
            "restore", "reconcile", "repair"}

\* The actions that may take over an unresolved request.
RecoveryActions == {"recover", "restore", "reconcile", "repair"}

Request == [id : Ids, work : Works, action : Actions, epoch : Nat \ {0},
            token : Nat \ {0}, seq : Nat \ {0}, rev : Nat, boot : Nat,
            deadline : Nat]

ASSUME RequestsAssumption == Requests \subseteq Request

\* The zero window: no request has been recorded yet.
NoRequest == [epoch |-> 0, token |-> 0, seq |-> 0]

-----------------------------------------------------------------------------
(* MC_Replay.Check: where a request stands relative to the last one.       *)

SameFence(w, r) == r.epoch = w.epoch /\ r.token = w.token

\* Fault: a new fence may start at any number, and a lower token will do.
FreshAnyToken(w, r) ==
    \/ SameFence(w, r) /\ r.seq = w.seq + 1
    \/ ~SameFence(w, r) /\ r.seq = 1

\* A new request: the next number under the same fence, under an id that is
\* not the last one's, or number one under a higher fence token.
Fresh(w, r) ==
    /\ r.epoch >= w.epoch
    /\ r.token >= w.token
    /\ \/ /\ SameFence(w, r)
          /\ r.seq = w.seq + 1
          /\ w # NoRequest => r.id # w.id
       \/ /\ ~SameFence(w, r)
          /\ r.token > w.token
          /\ r.seq = 1

\* A retransmission of the last request, byte for byte.
ExactRetry(w, r) == r = w

-----------------------------------------------------------------------------
(* The records of the log and MC_Request_Replay.Consume.                   *)

Outcomes == {"known_ok", "known_failure", "unknown"}

RecordsOver(serials) ==
    [kind : {"genesis"}, req : {NoRequest}, serial : serials]
    \union [kind : {"begun"} \union Outcomes, req : Requests, serial : serials]

Records == RecordsOver(Nat)

Genesis(s) == [kind |-> "genesis", req |-> NoRequest, serial |-> s]

ReplayState == [count : Nat, serial : Nat, window : Requests \union {NoRequest},
                pending : BOOLEAN]

\* The reader's state before the first record.
EmptyState == [count |-> 0, serial |-> 0, window |-> NoRequest, pending |-> FALSE]

\* Whether the reader in state S takes record e, or calls the log corrupt.
Accepts(S, e) ==
    /\ e.serial >= S.serial
    /\ \/ e.kind = "genesis" /\ S.count = 0
       \/ /\ e.kind = "begun"
          /\ S.window = NoRequest \/ Fresh(S.window, e.req)
       \/ e.kind \in Outcomes /\ S.pending /\ e.req = S.window

\* Fault: an unknown outcome resolves the request.
ConsumeResolves(S, e) ==
    [count |-> S.count + 1, serial |-> e.serial,
     window |-> IF e.kind = "begun" THEN e.req ELSE S.window,
     pending |-> IF e.kind = "genesis" THEN S.pending ELSE e.kind = "begun"]

Consume(S, e) ==
    [count   |-> S.count + 1,
     serial  |-> e.serial,
     window  |-> IF e.kind = "begun" THEN e.req ELSE S.window,
     pending |-> IF e.kind = "genesis" THEN S.pending
                 ELSE e.kind \in {"begun", "unknown"}]

-----------------------------------------------------------------------------
(* The same without a loop: every record names the window it leaves, so    *)
(* the state after i records is a function of record i alone.              *)

Unresolved(e) == e.kind \in {"begun", "unknown"}

StateAfter(log, i) ==
    IF i = 0 THEN EmptyState
    ELSE [count |-> i, serial |-> log[i].serial, window |-> log[i].req,
          pending |-> Unresolved(log[i])]

\* The whole log is one the reader takes.
Replays(log) == \A i \in 1..Len(log) : Accepts(StateAfter(log, i - 1), log[i])

Replayed(log) == StateAfter(log, Len(log))

\* r was recorded after q: a higher fence, or a later number under the same.
Later(q, r) ==
    /\ q.epoch <= r.epoch
    /\ \/ q.token < r.token
       \/ q.epoch = r.epoch /\ q.token = r.token /\ q.seq < r.seq

\* The requests of a log are begun one after another, none of them twice.
InOrder(log) ==
    \A i, j \in 1..Len(log) :
        i < j /\ log[i].kind = "begun" /\ log[j].kind = "begun"
            => Later(log[i].req, log[j].req)
=============================================================================
