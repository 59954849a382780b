------------------------ MODULE RequestLedgerProofs ------------------------
(***************************************************************************)
(* First the logs of records, whatever the requests are, and the reader    *)
(* that is fed one (ReceiverReplay, whose names are not those of           *)
(* RequestLedger for this module's sake).  Then the request gate on its    *)
(* ledger, for every number of processes, every set of requests and        *)
(* policies, every capacity of the log, and without the bounds.            *)
(*                                                                         *)
(* The invariants come in layers, each inductive with the ones before:     *)
(*   Control    who holds the flock, and what a session stands for;        *)
(*   TypeInv    TypeOK, and that a repair has a tail before it;            *)
(*   Journal    the log replays, and the session that holds the flock has  *)
(*              the right next record for it;                              *)
(*   Files      request-ID.bin is durable before its Begun record;         *)
(*   Intent     a Begun record is durable before its effect;               *)
(*   Turn       an unresolved request gives way to its own recovery;       *)
(*   Room       what was promised of the log's capacity is still free;     *)
(*   Evidence   a tail is cut off after its copy and note are in place.    *)
(* At the end: the gate on its ledger implements DurableHistory, with the  *)
(* records on stable storage as the history, and the effects as its own.   *)
(***************************************************************************)
EXTENDS RequestLedger, ReceiverReplay, SequenceTheorems, TLAPS

-----------------------------------------------------------------------------
(* Logs.                                                                   *)

\* The state read off the last record of a log is a state of the reader.
LEMMA ReplayedType ==
    ASSUME NEW recs \in Seq(Records), NEW i \in 0..Len(recs)
    PROVE  StateAfter(recs, i) \in ReplayState
  <1>1. CASE i = 0
    BY <1>1 DEF StateAfter, EmptyState, ReplayState
  <1>2. CASE i # 0
    <2>1. recs[i] \in Records
      BY <1>2
    <2>2. /\ recs[i].serial \in Nat
          /\ recs[i].req \in Requests \union {NoRequest}
      BY <2>1 DEF Records, RecordsOver
    <2>. QED
      BY <1>2, <2>2 DEF StateAfter, ReplayState, Unresolved
  <1>. QED
    BY <1>1, <1>2

\* What is read off record i depends on no record behind it.
LEMMA StateAfterAppend ==
    ASSUME NEW recs \in Seq(Records), NEW e \in Records, NEW i \in 0..Len(recs)
    PROVE  StateAfter(Append(recs, e), i) = StateAfter(recs, i)
  BY DEF StateAfter, Unresolved

\* One turn of the reader's loop: a record it takes leaves it in the state
\* read off that record.
LEMMA ConsumeReadsLast ==
    ASSUME NEW recs \in Seq(Records), NEW e \in Records, Accepts(Replayed(recs), e)
    PROVE  Replayed(Append(recs, e)) = Consume(Replayed(recs), e)
  <1>. DEFINE n == Len(recs)
  <1>1. /\ Len(Append(recs, e)) = n + 1
        /\ Append(recs, e)[n + 1] = e
        /\ n \in Nat
    OBVIOUS
  <1>2. Replayed(Append(recs, e)) =
            [count |-> n + 1, serial |-> e.serial, window |-> e.req,
             pending |-> Unresolved(e)]
    BY <1>1 DEF Replayed, StateAfter
  <1>3. Replayed(recs).count = n
    BY <1>1 DEF Replayed, StateAfter, EmptyState
  <1>4. e.kind \in {"genesis", "begun"} \union Outcomes
    BY DEF Records, RecordsOver
  <1>5. CASE e.kind = "genesis"
    <2>1. n = 0
      BY <1>3, <1>5 DEF Accepts, Outcomes
    <2>2. Replayed(recs) = EmptyState
      BY <2>1 DEF Replayed, StateAfter
    <2>3. e.req = NoRequest
      BY <1>5 DEF Records, RecordsOver, Outcomes
    <2>4. Consume(EmptyState, e) =
              [count |-> 1, serial |-> e.serial, window |-> NoRequest, pending |-> FALSE]
      BY <1>5 DEF Consume, EmptyState
    <2>5. Unresolved(e) = FALSE
      BY <1>5 DEF Unresolved
    <2>6. n + 1 = 1
      BY <2>1
    <2>. QED
      BY <1>2, <2>2, <2>3, <2>4, <2>5, <2>6, Zenon
  <1>6. CASE e.kind = "begun"
    BY <1>2, <1>3, <1>6 DEF Consume, Unresolved
  <1>7. CASE e.kind \in Outcomes
    <2>1. e.req = Replayed(recs).window
      BY <1>7 DEF Accepts, Outcomes
    <2>. QED
      BY <1>2, <1>3, <1>7, <2>1 DEF Consume, Unresolved, Outcomes
  <1>. QED
    BY <1>4, <1>5, <1>6, <1>7

\* A log replays when all but its last record do and the reader takes the last.
LEMMA ReplaysAppend ==
    ASSUME NEW recs \in Seq(Records), NEW e \in Records
    PROVE  Replays(Append(recs, e)) <=> Replays(recs) /\ Accepts(Replayed(recs), e)
  <1>. DEFINE n == Len(recs)
  <1>1. /\ Len(Append(recs, e)) = n + 1
        /\ Append(recs, e)[n + 1] = e
        /\ n \in Nat
        /\ \A i \in 1..n : Append(recs, e)[i] = recs[i]
    OBVIOUS
  <1>2. \A i \in 1..n + 1 : StateAfter(Append(recs, e), i - 1) = StateAfter(recs, i - 1)
    BY <1>1, StateAfterAppend
  <1>3. Replays(Append(recs, e)) <=>
            \A i \in 1..n + 1 : Accepts(StateAfter(recs, i - 1), Append(recs, e)[i])
    BY <1>1, <1>2 DEF Replays
  <1>. DEFINE Taken(i) == Accepts(StateAfter(recs, i - 1), Append(recs, e)[i])
  <1>4. (\A i \in 1..n + 1 : Taken(i)) <=> (\A i \in 1..n : Taken(i)) /\ Taken(n + 1)
    <2>. HIDE DEF Taken
    <2>. QED
      BY <1>1
  <1>5. Taken(n + 1) <=> Accepts(StateAfter(recs, n), e)
    BY <1>1
  <1>6. \A i \in 1..n : Taken(i) <=> Accepts(StateAfter(recs, i - 1), recs[i])
    BY <1>1
  <1>. QED
    BY <1>3, <1>4, <1>5, <1>6 DEF Replays, Replayed

\* A log cut after any record still replays.
LEMMA ReplaysPrefix ==
    ASSUME NEW recs \in Seq(Records), Replays(recs), NEW k \in 0..Len(recs)
    PROVE  Replays(SubSeq(recs, 1, k))
  <1>1. /\ Len(SubSeq(recs, 1, k)) = k
        /\ \A i \in 1..k : SubSeq(recs, 1, k)[i] = recs[i]
    OBVIOUS
  <1>2. \A i \in 1..k : StateAfter(SubSeq(recs, 1, k), i - 1) = StateAfter(recs, i - 1)
    BY <1>1 DEF StateAfter
  <1>. QED
    BY <1>1, <1>2 DEF Replays

-----------------------------------------------------------------------------
(* The order of a log.  The window only moves forward: once a request is   *)
(* begun, each record behind is of it or of a later one.                   *)

Forward(recs) ==
    \A i, j \in 1..Len(recs) :
        i <= j /\ recs[i].kind = "begun"
            => recs[j].req = recs[i].req \/ Later(recs[i].req, recs[j].req)

Windows == Requests \union {NoRequest}

\* The numbers of a window; a request is never the zero window.
LEMMA WindowNumbers ==
    /\ \A w \in Windows : w.epoch \in Nat /\ w.token \in Nat /\ w.seq \in Nat
    /\ \A r \in Requests : r.seq # 0 /\ r.token # 0
    /\ NoRequest \notin Requests
  BY RequestsAssumption DEF Windows, Request, NoRequest

\* Later orders the windows; what is fresh is later; nothing precedes the
\* zero window.
LEMMA LaterOrders ==
    /\ \A q, r, s \in Windows : Later(q, r) /\ Later(r, s) => Later(q, s)
    /\ \A w \in Windows, r \in Requests : Fresh(w, r) => Later(w, r)
    /\ \A r \in Requests : ~Later(r, NoRequest)
  <1>1. \A q, r, s \in Windows : Later(q, r) /\ Later(r, s) => Later(q, s)
    BY WindowNumbers DEF Later
  <1>2. \A w \in Windows, r \in Requests : Fresh(w, r) => Later(w, r)
    BY WindowNumbers DEF Later, Fresh, SameFence, Windows
  <1>3. \A r \in Requests : ~Later(r, NoRequest)
    BY WindowNumbers DEF Later, NoRequest, Windows
  <1>. QED
    BY <1>1, <1>2, <1>3

\* A record is of a request, or is the genesis record.
LEMMA RecordRequest ==
    ASSUME NEW e \in Records
    PROVE  /\ e.req \in Windows
           /\ e.kind # "genesis" => e.req \in Requests
           /\ e.kind = "genesis" => e.req = NoRequest
           /\ e.kind \in {"genesis", "begun"} \union Outcomes
           /\ e.serial \in Nat
  BY DEF Records, RecordsOver, Windows, Outcomes

\* A record the reader takes keeps the log in order.
LEMMA ForwardAppend ==
    ASSUME NEW recs \in Seq(Records), NEW e \in Records,
           Forward(recs), Accepts(Replayed(recs), e)
    PROVE  Forward(Append(recs, e))
  <1>. DEFINE n == Len(recs)
             new == Append(recs, e)
  <1>1. /\ Len(new) = n + 1
        /\ new[n + 1] = e
        /\ n \in Nat
        /\ \A i \in 1..n : new[i] = recs[i] /\ recs[i] \in Records
    OBVIOUS
  <1>2. SUFFICES ASSUME NEW i \in 1..n, recs[i].kind = "begun"
                 PROVE  e.req = recs[i].req \/ Later(recs[i].req, e.req)
    <2>. SUFFICES ASSUME NEW i \in 1..n + 1, NEW j \in 1..n + 1,
                         i <= j, new[i].kind = "begun"
                  PROVE  new[j].req = new[i].req \/ Later(new[i].req, new[j].req)
      BY <1>1 DEF Forward
    <2>1. CASE j \in 1..n
      <3>1. i \in 1..n
        BY <2>1
      <3>. QED
        BY <1>1, <2>1, <3>1 DEF Forward
    <2>2. CASE j = n + 1 /\ i \in 1..n
      BY <1>1, <1>2, <2>2
    <2>3. CASE j = n + 1 /\ i = n + 1
      BY <2>3
    <2>. QED
      BY <2>1, <2>2, <2>3
  <1>. DEFINE w == recs[n].req
  <1>3. /\ Replayed(recs).window = w
        /\ Replayed(recs).count = n
        /\ n # 0
    BY <1>1 DEF Replayed, StateAfter
  <1>4. w = recs[i].req \/ Later(recs[i].req, w)
    BY <1>1, <1>2, <1>3 DEF Forward
  <1>5. recs[i].req \in Requests /\ recs[i].req \in Windows /\ w \in Windows
    <2>1. recs[i] \in Records /\ recs[n] \in Records
      BY <1>1, <1>3
    <2>. QED
      BY <1>2, <2>1, RecordRequest DEF Windows
  <1>6. CASE e.kind = "genesis"
    BY <1>3, <1>6 DEF Accepts, Outcomes
  <1>7. CASE e.kind = "begun"
    <2>1. w # NoRequest
      BY <1>4, <1>5, WindowNumbers, LaterOrders
    <2>2. e.req \in Requests /\ e.req \in Windows
      BY <1>7, RecordRequest DEF Windows
    <2>3. Later(w, e.req)
      BY <1>3, <1>5, <1>7, <2>1, <2>2, LaterOrders DEF Accepts, Outcomes
    <2>. QED
      BY <1>4, <1>5, <2>2, <2>3, LaterOrders
  <1>8. CASE e.kind \in Outcomes
    BY <1>3, <1>4, <1>8 DEF Accepts, Outcomes
  <1>. QED
    BY <1>6, <1>7, <1>8, RecordRequest

\* A log cut after any record is in order too.
LEMMA ForwardPrefix ==
    ASSUME NEW recs \in Seq(Records), Forward(recs), NEW k \in 0..Len(recs)
    PROVE  Forward(SubSeq(recs, 1, k))
  <1>1. /\ Len(SubSeq(recs, 1, k)) = k
        /\ \A i \in 1..k : SubSeq(recs, 1, k)[i] = recs[i]
    OBVIOUS
  <1>. DEFINE s == SubSeq(recs, 1, k)
  <1>2. 1..k \subseteq 1..Len(recs)
    OBVIOUS
  <1>. HIDE DEF s
  <1>3. Len(s) = k /\ \A i \in 1..k : s[i] = recs[i]
    BY <1>1 DEF s
  <1>4. ASSUME NEW i \in 1..Len(s), NEW j \in 1..Len(s), i <= j, s[i].kind = "begun"
        PROVE  s[j].req = s[i].req \/ Later(s[i].req, s[j].req)
    <2>1. s[i] = recs[i] /\ s[j] = recs[j] /\ i \in 1..Len(recs) /\ j \in 1..Len(recs)
      BY <1>2, <1>3
    <2>. QED
      BY <1>4, <2>1, Zenon DEF Forward
  <1>5. Forward(s)
    BY <1>4, Zenon DEF Forward
  <1>. QED
    BY <1>5 DEF s

\* A log that replays and moves forward begins no request twice: the record
\* before a begun one is of an earlier request than it.
LEMMA ForwardInOrder ==
    ASSUME NEW recs \in Seq(Records), Replays(recs), Forward(recs)
    PROVE  InOrder(recs)
  <1>. SUFFICES ASSUME NEW i \in 1..Len(recs), NEW j \in 1..Len(recs),
                       i < j, recs[i].kind = "begun", recs[j].kind = "begun"
                PROVE  Later(recs[i].req, recs[j].req)
    BY DEF InOrder
  <1>. DEFINE w == recs[j - 1].req
  <1>1. /\ j - 1 \in 1..Len(recs)
        /\ i <= j - 1
        /\ recs[i] \in Records /\ recs[j] \in Records /\ recs[j - 1] \in Records
    OBVIOUS
  <1>2. w = recs[i].req \/ Later(recs[i].req, w)
    BY <1>1 DEF Forward
  <1>3. /\ recs[i].req \in Requests /\ recs[j].req \in Requests
        /\ recs[i].req \in Windows /\ recs[j].req \in Windows /\ w \in Windows
    BY <1>1, RecordRequest DEF Windows
  <1>4. StateAfter(recs, j - 1).window = w
    BY <1>1 DEF StateAfter
  <1>5. w = NoRequest \/ Fresh(w, recs[j].req)
    BY <1>4 DEF Replays, Accepts, Outcomes
  <1>6. w # NoRequest
    BY <1>2, <1>3, WindowNumbers, LaterOrders
  <1>. QED
    BY <1>2, <1>3, <1>5, <1>6, LaterOrders

-----------------------------------------------------------------------------
(* The reader, for every set of policy serials and logs of every length.   *)

\* One record more: what ReaderTypeOK says of the loop's variables is kept.
LEMMA TakeTypeOK ==
    ASSUME ReaderTypeOK, NEW e \in RecordsOver(Serials), Take(e)
    PROVE  ReaderTypeOK'
  <1>1. e \in Records
    BY SerialsAssumption DEF Records, RecordsOver
  <1>2. entries' \in Seq(Records) /\ answer' \in {"ok", "corrupt"}
    BY <1>1 DEF ReaderTypeOK, Take
  <1>3. Accepts(reader, e) => Consume(reader, e) \in ReplayState
    <2>1. /\ reader.count \in Nat
          /\ reader.window \in Requests \union {NoRequest}
          /\ reader.pending \in BOOLEAN
          /\ e.serial \in Nat
          /\ e.kind # "genesis" => e.req \in Requests
      BY <1>1, RecordRequest DEF ReaderTypeOK, ReplayState
    <2>2. reader.count + 1 \in Nat
      BY <2>1
    <2>3. (IF e.kind = "begun" THEN e.req ELSE reader.window) \in Requests \union {NoRequest}
      BY <2>1
    <2>4. (IF e.kind = "genesis" THEN reader.pending ELSE e.kind \in {"begun", "unknown"})
            \in BOOLEAN
      <3>1. (e.kind \in {"begun", "unknown"}) \in BOOLEAN
        <4>1. CASE e.kind \in {"begun", "unknown"}
          <5>1. (e.kind \in {"begun", "unknown"}) = TRUE
            BY <4>1
          <5>. QED
            BY <5>1
        <4>2. CASE e.kind \notin {"begun", "unknown"}
          <5>1. (e.kind \in {"begun", "unknown"}) = FALSE
            BY <4>2
          <5>. QED
            BY <5>1
        <4>. QED
          BY <4>1, <4>2
      <3>. QED
        BY <2>1, <3>1, Zenon
    <2>. QED
      BY <2>1, <2>2, <2>3, <2>4, Zenon DEF Consume, ReplayState
  <1>4. reader' \in ReplayState
    BY <1>3 DEF ReaderTypeOK, Take
  <1>. QED
    BY <1>2, <1>4 DEF ReaderTypeOK

\* MC_Gate.Read_Previous keeps a well-formed reader's state.
THEOREM ReceiverTypeCorrect == ReaderSpec => []ReaderTypeOK
  <1>1. ReaderInit => ReaderTypeOK
    BY DEF ReaderInit, ReaderTypeOK, EmptyState, ReplayState
  <1>2. ReaderTypeOK /\ [ReaderNext]_readerVars => ReaderTypeOK'
    <2>. SUFFICES ASSUME ReaderTypeOK, [ReaderNext]_readerVars PROVE ReaderTypeOK'
      OBVIOUS
    <2>1. CASE ReaderNext
      BY <2>1, TakeTypeOK DEF ReaderNext
    <2>2. CASE UNCHANGED readerVars
      BY <2>2 DEF readerVars, ReaderTypeOK
    <2>. QED
      BY <2>1, <2>2
  <1>. QED
    BY <1>1, <1>2, PTL DEF ReaderSpec

\* The state that Read_Previous's loop arrives at is the one its last record
\* names, and it ends in "corrupt" exactly on the logs that do not replay.
THEOREM LastRecordSuffices == ReaderSpec => []LastRecordTellsAll
  <1>1. ReaderInit => LastRecordTellsAll
    BY DEF ReaderInit, LastRecordTellsAll, Replays, Replayed, StateAfter
  <1>2. ReaderTypeOK /\ LastRecordTellsAll /\ [ReaderNext]_readerVars => LastRecordTellsAll'
    <2>. SUFFICES ASSUME ReaderTypeOK, LastRecordTellsAll, [ReaderNext]_readerVars
                  PROVE  LastRecordTellsAll'
      OBVIOUS
    <2>1. CASE ReaderNext
      <3>1. PICK e \in RecordsOver(Serials) : Take(e)
        BY <2>1 DEF ReaderNext
      <3>2. e \in Records /\ entries \in Seq(Records)
        BY SerialsAssumption DEF Records, RecordsOver, ReaderTypeOK
      <3>3. Replays(entries) /\ reader = Replayed(entries) /\ entries' = Append(entries, e)
        BY <3>1 DEF Take, LastRecordTellsAll
      <3>4. CASE Accepts(reader, e)
        <4>1. answer' = "ok" /\ reader' = Consume(reader, e)
          BY <3>1, <3>4 DEF Take
        <4>2. Replays(entries') /\ reader' = Replayed(entries')
          BY <3>2, <3>3, <3>4, <4>1, ReplaysAppend, ConsumeReadsLast
        <4>. QED
          BY <4>1, <4>2 DEF LastRecordTellsAll
      <3>5. CASE ~Accepts(reader, e)
        <4>1. answer' = "corrupt"
          BY <3>1, <3>5 DEF Take
        <4>2. ~Replays(entries')
          BY <3>2, <3>3, <3>5, ReplaysAppend
        <4>. QED
          BY <4>1, <4>2 DEF LastRecordTellsAll
      <3>. QED
        BY <3>4, <3>5
    <2>2. CASE UNCHANGED readerVars
      BY <2>2 DEF readerVars, LastRecordTellsAll, Replays, Replayed, StateAfter, Accepts,
                  Fresh, SameFence, Outcomes, Unresolved, EmptyState
    <2>. QED
      BY <2>1, <2>2
  <1>. QED
    BY <1>1, <1>2, ReceiverTypeCorrect, PTL DEF ReaderSpec

\* A log that Read_Previous reads to its end begins no request twice,
\* whatever lies between two records.
THEOREM NoneBegunTwice == ReaderSpec => []BegunOnce
  <1>. DEFINE Inv == answer = "ok" => Forward(entries)
  <1>1. ReaderInit => Inv
    BY DEF ReaderInit, Forward
  <1>2. ReaderTypeOK /\ LastRecordTellsAll /\ Inv /\ [ReaderNext]_readerVars => Inv'
    <2>. SUFFICES ASSUME ReaderTypeOK, LastRecordTellsAll, Inv, [ReaderNext]_readerVars
                  PROVE  Inv'
      OBVIOUS
    <2>1. CASE ReaderNext
      <3>1. PICK e \in RecordsOver(Serials) : Take(e)
        BY <2>1 DEF ReaderNext
      <3>2. e \in Records /\ entries \in Seq(Records)
        BY SerialsAssumption DEF Records, RecordsOver, ReaderTypeOK
      <3>3. /\ Forward(entries) /\ reader = Replayed(entries) /\ entries' = Append(entries, e)
            /\ answer' = "ok" => Accepts(reader, e)
        BY <3>1 DEF Take, LastRecordTellsAll
      <3>. QED
        BY <3>2, <3>3, ForwardAppend
    <2>2. CASE UNCHANGED readerVars
      BY <2>2 DEF readerVars, Forward, Later
    <2>. QED
      BY <2>1, <2>2
  <1>3. ReaderTypeOK /\ LastRecordTellsAll /\ Inv => BegunOnce
    BY ForwardInOrder DEF ReaderTypeOK, LastRecordTellsAll, BegunOnce
  <1>. QED
    BY <1>1, <1>2, <1>3, ReceiverTypeCorrect, LastRecordSuffices, PTL DEF ReaderSpec

-----------------------------------------------------------------------------
(* Control.                                                                *)

\* At most one session holds the flock.
Exclusive ==
    \A p, q \in Procs : session[p].pc \in Locked /\ session[q].pc \in Locked => p = q

\* Where only a repair, or only a request for admission, may stand.
Repairing == {"preserve", "preserved", "note", "noted", "truncate", "truncated", "mark", "marking"}
Admitted  == {"admitted", "authorized", "finishing"}

\* A session under way has a request; a repair has a repair request.
Engaged ==
    \A p \in Procs :
        /\ session[p].pc # "closed" => session[p].req \in Requests
        /\ session[p].pc # "closed" /\ session[p].mode = "repair"
            => session[p].req.action = "repair"
        /\ session[p].pc \in Repairing => session[p].mode = "repair"
        /\ session[p].pc \in Admitted => session[p].mode = "begin"

Control == session \in [Procs -> Session] /\ Exclusive /\ Engaged

\* p moves to another place and stays what it is; the others stay.
Moves(p, pc) ==
    /\ session' \in [Procs -> Session]
    /\ session'[p].pc = pc
    /\ session'[p].mode = session[p].mode
    /\ session'[p].req = session[p].req
    /\ session'[p].policy = session[p].policy
    /\ \A q \in Procs : q # p => session'[q] = session[q]

\* p ends its session; the others stay.
Ends(p) ==
    /\ session' \in [Procs -> Session]
    /\ session'[p] = Closed
    /\ \A q \in Procs : q # p => session'[q] = session[q]

\* A closed session is a session.
LEMMA ClosedType == Closed \in Session
  BY PoliciesAssumption DEF Closed, Session, Unlocked

\* What Goto and Close do to the sessions, for the lemmas to come.
LEMMA GotoMoves ==
    ASSUME session \in [Procs -> Session], NEW p \in Procs,
           NEW pc \in Unlocked \union Locked, Goto(p, pc)
    PROVE  Moves(p, pc)
  BY DEF Goto, Moves, Session

\* Close leaves the other sessions where they are.
LEMMA CloseEnds ==
    ASSUME session \in [Procs -> Session], NEW p \in Procs, Close(p)
    PROVE  Ends(p)
  BY ClosedType DEF Close, Ends

\* A session that ends disturbs nothing.
LEMMA EndsControl ==
    ASSUME Control, NEW p \in Procs, Ends(p)
    PROVE  Control'
  <1>1. session'[p].pc = "closed"
    BY DEF Ends, Closed
  <1>2. Exclusive'
    BY <1>1 DEF Control, Ends, Exclusive, Locked
  <1>3. Engaged'
    BY <1>1 DEF Control, Ends, Engaged, Repairing, Admitted
  <1>. QED
    BY <1>2, <1>3 DEF Control, Ends

\* A session may move on while it holds the flock, or take the free flock.
LEMMA MovesControl ==
    ASSUME Control, NEW p \in Procs, NEW pc, Moves(p, pc),
           session[p].pc # "closed", pc # "closed",
           pc \in Locked => session[p].pc \in Locked \/ LockFree,
           pc \in Repairing => session[p].mode = "repair",
           pc \in Admitted => session[p].mode = "begin"
    PROVE  Control'
  <1>1. Exclusive'
    BY DEF Control, Moves, Exclusive, LockFree
  <1>2. Engaged'
    BY DEF Control, Moves, Engaged
  <1>. QED
    BY <1>1, <1>2 DEF Control, Moves

\* Where each action of a session takes it.
LEMMA StepMoves ==
    ASSUME Control, NEW p \in Procs, Step(p)
    PROVE  \/ Ends(p)
           \/ \E pc \in Locked :
                /\ Moves(p, pc)
                /\ \/ session[p].pc \in Locked
                   \/ session[p].pc = "loaded" /\ LockFree
                /\ pc \in Repairing => session[p].mode = "repair"
                /\ pc \in Admitted => session[p].mode = "begin"
  <1>. DEFINE Onward(pc) ==
                /\ pc \in Locked
                /\ Moves(p, pc)
                /\ \/ session[p].pc \in Locked
                   \/ session[p].pc = "loaded" /\ LockFree
                /\ pc \in Repairing => session[p].mode = "repair"
                /\ pc \in Admitted => session[p].mode = "begin"
  <1>. SUFFICES Ends(p) \/ \E pc : Onward(pc)
    OBVIOUS
  <1>0. session \in [Procs -> Session] /\ Engaged
    BY DEF Control
  <1>1. CASE BeginRetry(p)
    <2>1. Goto(p, "answered")
      BY <1>1 DEF BeginRetry, Open
    <2>2. Moves(p, "answered")
      BY <1>0, <2>1, GotoMoves DEF Locked
    <2>3. Onward("answered")
      BY <1>0, <1>1, <2>2 DEF BeginRetry, Open, Locked, Repairing, Admitted, Engaged
    <2>. QED
      BY <2>3
  <1>2. CASE BeginAccept(p)
    <2>1. Goto(p, "save")
      BY <1>2 DEF BeginAccept, Open
    <2>2. Moves(p, "save")
      BY <1>0, <2>1, GotoMoves DEF Locked
    <2>3. Onward("save")
      BY <1>0, <1>2, <2>2 DEF BeginAccept, Open, Locked, Repairing, Admitted, Engaged
    <2>. QED
      BY <2>3
  <1>3. CASE BeginRefuse(p)
    BY <1>0, <1>3, CloseEnds DEF BeginRefuse
  <1>4. CASE RepairAccept(p)
    <2>1. Goto(p, "preserve")
      BY <1>4 DEF RepairAccept, Open
    <2>2. Moves(p, "preserve")
      BY <1>0, <2>1, GotoMoves DEF Locked
    <2>3. Onward("preserve")
      BY <1>0, <1>4, <2>2 DEF RepairAccept, Open, Locked, Repairing, Admitted, Engaged
    <2>. QED
      BY <2>3
  <1>5. CASE RepairRefuse(p)
    BY <1>0, <1>5, CloseEnds DEF RepairRefuse
  <1>6. CASE Busy(p)
    BY <1>0, <1>6, CloseEnds DEF Busy
  <1>7. CASE PreserveTail(p)
    <2>1. Goto(p, "note") \/ Goto(p, "preserved")
      BY <1>7 DEF PreserveTail
    <2>2. Moves(p, "note") \/ Moves(p, "preserved")
      BY <1>0, <2>1, GotoMoves DEF Locked
    <2>3. Onward("note") \/ Onward("preserved")
      BY <1>0, <1>7, <2>2 DEF PreserveTail, Locked, Repairing, Admitted, Engaged
    <2>. QED
      BY <2>3
  <1>8. CASE NoteRepair(p)
    <2>1. Goto(p, "noted") \/ Goto(p, "save") \/ Close(p)
      BY <1>8 DEF NoteRepair, Publish
    <2>2. Moves(p, "noted") \/ Moves(p, "save") \/ Ends(p)
      BY <1>0, <2>1, GotoMoves, CloseEnds DEF AfterSave, Locked
    <2>3. Onward("noted") \/ Onward("save") \/ Ends(p)
      BY <1>0, <1>8, <2>2 DEF NoteRepair, AfterSave, Locked, Repairing, Admitted, Engaged, Session
    <2>. QED
      BY <2>3
  <1>9. CASE SyncNote(p)
    <2>1. Goto(p, "save")
      BY <1>9 DEF SyncNote, SyncDirectory
    <2>2. Moves(p, "save")
      BY <1>0, <2>1, GotoMoves DEF Locked
    <2>3. Onward("save")
      BY <1>0, <1>9, <2>2 DEF SyncNote, SyncDirectory, Locked, Repairing, Admitted, Engaged
    <2>. QED
      BY <2>3
  <1>10. CASE SaveEnvelope(p)
    <2>1. Goto(p, "saved") \/ Goto(p, AfterSave(p)) \/ Close(p)
      BY <1>10 DEF SaveEnvelope, Publish
    <2>2. Moves(p, "saved") \/ Moves(p, AfterSave(p)) \/ Ends(p)
      BY <1>0, <2>1, GotoMoves, CloseEnds DEF AfterSave, Locked
    <2>3. Onward("saved") \/ Onward(AfterSave(p)) \/ Ends(p)
      BY <1>0, <1>10, <2>2 DEF SaveEnvelope, AfterSave, Locked, Repairing, Admitted, Engaged, Session
    <2>. QED
      BY <2>3
  <1>11. CASE SyncEnvelope(p)
    <2>1. Goto(p, AfterSave(p))
      BY <1>11 DEF SyncEnvelope, SyncDirectory
    <2>2. Moves(p, AfterSave(p))
      BY <1>0, <2>1, GotoMoves DEF AfterSave, Locked
    <2>3. Onward(AfterSave(p))
      BY <1>0, <1>11, <2>2 DEF SyncEnvelope, AfterSave, Locked, Repairing, Admitted, Session
    <2>. QED
      BY <2>3
  <1>12. CASE Truncate(p)
    <2>1. Goto(p, "truncated")
      BY <1>12 DEF Truncate
    <2>2. Moves(p, "truncated")
      BY <1>0, <2>1, GotoMoves DEF Locked
    <2>3. Onward("truncated")
      BY <1>0, <1>12, <2>2 DEF Truncate, Locked, Repairing, Admitted, Engaged
    <2>. QED
      BY <2>3
  <1>13. CASE RefuseTruncate(p)
    BY <1>0, <1>13, CloseEnds DEF RefuseTruncate
  <1>14. CASE SyncTruncate(p)
    <2>1. Goto(p, "intend")
      BY <1>14 DEF SyncTruncate, Sync
    <2>2. Moves(p, "intend")
      BY <1>0, <2>1, GotoMoves DEF Locked
    <2>3. Onward("intend")
      BY <1>0, <1>14, <2>2 DEF SyncTruncate, Sync, Locked, Repairing, Admitted, Engaged
    <2>. QED
      BY <2>3
  <1>15. CASE WriteIntent(p)
    <2>1. Goto(p, "intending")
      BY <1>15 DEF WriteIntent, Write, MayWrite, Outcomes
    <2>2. Moves(p, "intending")
      BY <1>0, <2>1, GotoMoves DEF Locked
    <2>3. Onward("intending")
      BY <1>0, <1>15, <2>2 DEF WriteIntent, Write, MayWrite, Outcomes, Locked, Repairing, Admitted, Engaged
    <2>. QED
      BY <2>3
  <1>16. CASE Admit(p)
    <2>1. Goto(p, "admitted")
      BY <1>16 DEF Admit, Sync
    <2>2. Moves(p, "admitted")
      BY <1>0, <2>1, GotoMoves DEF Locked
    <2>3. Onward("admitted")
      BY <1>0, <1>16, <2>2 DEF Admit, Sync, Locked, Repairing, Admitted, Engaged
    <2>. QED
      BY <2>3
  <1>17. CASE SyncRepairIntent(p)
    <2>1. Goto(p, "mark")
      BY <1>17 DEF SyncRepairIntent, Sync
    <2>2. Moves(p, "mark")
      BY <1>0, <2>1, GotoMoves DEF Locked
    <2>3. Onward("mark")
      BY <1>0, <1>17, <2>2 DEF SyncRepairIntent, Sync, Locked, Repairing, Admitted, Engaged
    <2>. QED
      BY <2>3
  <1>18. CASE Authorize(p)
    <2>1. Goto(p, "authorized")
      BY <1>18 DEF Authorize
    <2>2. Moves(p, "authorized")
      BY <1>0, <2>1, GotoMoves DEF Locked
    <2>3. Onward("authorized")
      BY <1>0, <1>18, <2>2 DEF Authorize, Locked, Repairing, Admitted, Engaged
    <2>. QED
      BY <2>3
  <1>19. CASE Effect(p)
    <2>1. Goto(p, "admitted")
      BY <1>19 DEF Effect
    <2>2. Moves(p, "admitted")
      BY <1>0, <2>1, GotoMoves DEF Locked
    <2>3. Onward("admitted")
      BY <1>0, <1>19, <2>2 DEF Effect, Locked, Repairing, Admitted, Engaged
    <2>. QED
      BY <2>3
  <1>20. CASE Finish(p)
    <2>1. Goto(p, "finishing")
      BY <1>20 DEF Finish, Write, MayWrite, Outcomes
    <2>2. Moves(p, "finishing")
      BY <1>0, <2>1, GotoMoves DEF Locked
    <2>3. Onward("finishing")
      BY <1>0, <1>20, <2>2 DEF Finish, Write, MayWrite, Outcomes, Locked, Repairing, Admitted, Engaged
    <2>. QED
      BY <2>3
  <1>21. CASE SyncOutcome(p)
    <2>1. Goto(p, "answered")
      BY <1>21 DEF SyncOutcome, Sync
    <2>2. Moves(p, "answered")
      BY <1>0, <2>1, GotoMoves DEF Locked
    <2>3. Onward("answered")
      BY <1>0, <1>21, <2>2 DEF SyncOutcome, Sync, Locked, Repairing, Admitted, Engaged
    <2>. QED
      BY <2>3
  <1>22. CASE WriteUnknown(p)
    <2>1. Goto(p, "marking")
      BY <1>22 DEF WriteUnknown, Write, MayWrite, Outcomes
    <2>2. Moves(p, "marking")
      BY <1>0, <2>1, GotoMoves DEF Locked
    <2>3. Onward("marking")
      BY <1>0, <1>22, <2>2 DEF WriteUnknown, Write, MayWrite, Outcomes, Locked, Repairing, Admitted, Engaged
    <2>. QED
      BY <2>3
  <1>23. CASE SyncUnknown(p)
    <2>1. Goto(p, "answered")
      BY <1>23 DEF SyncUnknown, Sync
    <2>2. Moves(p, "answered")
      BY <1>0, <2>1, GotoMoves DEF Locked
    <2>3. Onward("answered")
      BY <1>0, <1>23, <2>2 DEF SyncUnknown, Sync, Locked, Repairing, Admitted, Engaged
    <2>. QED
      BY <2>3
  <1>24. CASE CloseAnswered(p)
    BY <1>0, <1>24, CloseEnds DEF CloseAnswered
  <1>25. CASE SyncStore(p)
    <2>1. Goto(p, "note")
      BY <1>25 DEF SyncStore
    <2>2. Moves(p, "note")
      BY <1>0, <2>1, GotoMoves DEF Locked
    <2>3. Onward("note")
      BY <1>0, <1>25, <2>2 DEF SyncStore, Locked, Repairing, Admitted, Engaged
    <2>. QED
      BY <2>3
  <1>. QED
    BY <1>1, <1>2, <1>3, <1>4, <1>5, <1>6, <1>7, <1>8, <1>9, <1>10, <1>11, <1>12,
       <1>13, <1>14, <1>15, <1>16, <1>17, <1>18, <1>19, <1>20, <1>21, <1>22, <1>23,
       <1>24, <1>25 DEF Step

\* Whatever happens, Control is kept.
LEMMA ControlStep ==
    ASSUME Control, policy \in Policies, Next
    PROVE  Control'
  <1>1. ASSUME NEW p \in Procs, Step(p)
        PROVE  Control'
    BY <1>1, StepMoves, EndsControl, MovesControl DEF Locked
  <1>2. ASSUME NEW p \in Procs, Start(p)
        PROVE  Control'
    <2>1. PICK r \in Requests, mode \in {"begin", "repair"} : Load(p, r, mode)
      BY <1>2 DEF Start
    <2>2. /\ session' \in [Procs -> Session]
          /\ session'[p].pc = "loaded" /\ session'[p].req = r /\ session'[p].mode = mode
          /\ \A q \in Procs : q # p => session'[q] = session[q]
      BY <2>1 DEF Load, Control, Session, Unlocked
    <2>3. mode = "repair" => r.action = "repair"
      BY <2>1 DEF Load
    <2>4. Exclusive'
      BY <2>2 DEF Control, Exclusive, Locked
    <2>5. Engaged'
      BY <2>2, <2>3 DEF Control, Engaged, Repairing, Admitted
    <2>. QED
      BY <2>2, <2>4, <2>5 DEF Control
  <1>3. ASSUME NEW p \in Procs, TearRecord(p) \/ Fail(p)
        PROVE  Control'
    BY <1>3, CloseEnds, EndsControl DEF TearRecord, Fail, Control
  <1>4. CASE PowerLoss
    BY <1>4, ClosedType
       DEF PowerLoss, Closed, Control, Exclusive, Engaged, Locked, Repairing, Admitted
  <1>5. ASSUME session' = session
        PROVE  Control'
    BY <1>5 DEF Control, Exclusive, Engaged
  <1>6. CASE Environment
    BY <1>4, <1>5, <1>6 DEF Environment, Observe, Tick, PolicyLapse, RotatePolicy
  <1>. QED
    BY <1>1, <1>2, <1>3, <1>6 DEF Next

-----------------------------------------------------------------------------
(* Types.                                                                  *)

\* Where a repair has the tail still to cut off.
BeforeCut(p) ==
    \/ session[p].pc \in {"preserve", "preserved", "note", "noted", "truncate"}
    \/ session[p].pc \in {"save", "saved"} /\ session[p].mode = "repair"

TailHeld == \A p \in Procs : BeforeCut(p) => tail # NoTail

TypeInv == TypeOK /\ Control /\ TailHeld

\* What a session writes are records and files.
LEMMA RecordType ==
    ASSUME Control, NEW p \in Procs, session[p].pc # "closed",
           NEW kind \in {"begun"} \union Outcomes
    PROVE  Record(p, kind) \in Records
  <1>1. session[p].req \in Requests
    BY DEF Control, Engaged
  <1>2. session[p].policy.serial \in Nat
    BY PoliciesAssumption DEF Control, Session, Policy
  <1>. QED
    BY <1>1, <1>2 DEF Record, Records, RecordsOver

\* What the gate publishes is an immutable file.
LEMMA FileType ==
    ASSUME NEW r \in Requests
    PROVE  /\ RequestFile(r) \in File
           /\ TypeOK => RepairFile(r) \in File
  <1>1. r.id \in Ids
    BY RequestsAssumption DEF Request
  <1>2. <<>> \in Seq(Records)
    OBVIOUS
  <1>. QED
    BY <1>1, <1>2 DEF RequestFile, RepairFile, File, TypeOK

\* A power loss leaves a tail or none.
LEMMA TailsAfterType ==
    ASSUME TypeOK, NEW k \in synced..Len(journal)
    PROVE  TailsAfter(k) \subseteq Tails \union {NoTail}
  <1>1. k < Len(journal) => journal[k + 1] \in Records
    BY DEF TypeOK
  <1>2. tail # NoTail => tail.rec \in Records
    BY DEF TypeOK, Tails
  <1>3. lostTail # NoTail => lostTail.tail \in Tails
    BY DEF TypeOK, LostTails
  <1>. QED
    BY <1>1, <1>2, <1>3 DEF TailsAfter, Tails

\* The records on disk and what is known of them, for the actions that touch
\* requests.log.
LEMMA WriteType ==
    ASSUME TypeInv, NEW p \in Procs, NEW kind \in {"begun"} \union Outcomes,
           NEW next, Write(p, kind, next), session' \in [Procs -> Session]
    PROVE  TypeOK'
  <1>1. Record(p, kind) \in Records
    BY RecordType DEF TypeInv, Write, MayWrite
  <1>2. /\ journal' \in Seq(Records)
        /\ Len(journal') = Len(journal) + 1
    BY <1>1 DEF Write, TypeInv, TypeOK
  <1>. QED
    BY <1>2 DEF Write, TypeInv, TypeOK, dir, cas, site, clock, history

\* An fsync of requests.log keeps the types of the log.
LEMMA SyncType ==
    ASSUME TypeInv, NEW p \in Procs, NEW at, NEW next, Sync(p, at, next),
           begun' \subseteq Ids, session' \in [Procs -> Session]
    PROVE  TypeOK'
  BY DEF Sync, SyncLog, TypeInv, TypeOK, dir, cas, site, clock

\* Every step of the gate and of its environment keeps the types.
LEMMA TypeStep ==
    ASSUME TypeInv, session' \in [Procs -> Session], Next
    PROVE  TypeOK'
  <1>0. TypeOK /\ Control /\ TailHeld
    BY DEF TypeInv
  <1>1. ASSUME NEW p \in Procs, NEW mode, Open(p, mode)
        PROVE  TypeOK'
    BY <1>0, <1>1 DEF Open, TypeOK, log, cas, site, clock, history
  <1>2. ASSUME UNCHANGED <<log, dir, cas, site, clock, history, faults>>
        PROVE  TypeOK'
    BY <1>0, <1>2 DEF TypeOK, log, dir, cas, site, clock, history
  <1>3. ASSUME NEW p \in Procs, PreserveTail(p)
        PROVE  TypeOK'
    <2>1. tail # NoTail
      BY <1>0, <1>3 DEF PreserveTail, TailHeld, BeforeCut
    <2>. QED
      BY <1>0, <1>3, <2>1 DEF PreserveTail, TypeOK, log, dir, site, clock, history
  <1>15. ASSUME NEW p \in Procs, SyncStore(p)
         PROVE  TypeOK'
    <2>1. tail # NoTail
      BY <1>0, <1>15 DEF SyncStore, TailHeld, BeforeCut
    <2>. QED
      BY <1>0, <1>15, <2>1 DEF SyncStore, TypeOK, log, dir, site, clock, history
  <1>4. ASSUME NEW p \in Procs, NEW f \in File, NEW a, NEW b, Publish(p, f, a, b)
        PROVE  TypeOK'
    BY <1>0, <1>4 DEF Publish, TypeOK, log, cas, site, clock, history
  <1>5. ASSUME NEW p \in Procs, NEW a, SyncDirectory(p, a)
        PROVE  TypeOK'
    BY <1>0, <1>5 DEF SyncDirectory, TypeOK, log, cas, site, clock, history
  <1>6. ASSUME NEW p \in Procs, Truncate(p)
        PROVE  TypeOK'
    <2>1. tail # NoTail
      BY <1>0, <1>6 DEF Truncate, TailHeld, BeforeCut
    <2>2. lostTail' \in LostTails
      BY <1>0, <1>6, <2>1 DEF Truncate, TypeOK, LostTails
    <2>. QED
      BY <1>0, <1>6, <2>2 DEF Truncate, TypeOK, dir, cas, site, clock, history
  <1>7. ASSUME NEW p \in Procs, Effect(p)
        PROVE  TypeOK'
    <2>1. session[p].req \in Requests
      BY <1>0, <1>7 DEF Effect, Control, Engaged
    <2>. QED
      BY <1>0, <1>7, <2>1 DEF Effect, TypeOK, log, dir, cas, site, clock
  <1>8. ASSUME NEW p \in Procs, Admit(p)
        PROVE  TypeOK'
    <2>1. session[p].req \in Requests
      BY <1>0, <1>8 DEF Admit, Sync, Control, Engaged
    <2>2. begun' \subseteq Ids
      BY <1>0, <1>8, <2>1, RequestsAssumption DEF Admit, TypeOK, Request
    <2>. QED
      BY <1>8, <2>2, SyncType DEF Admit
  <1>9. ASSUME NEW p \in Procs, NEW a, NEW b, Sync(p, a, b), UNCHANGED begun
        PROVE  TypeOK'
    <2>1. begun' \subseteq Ids
      BY <1>0, <1>9 DEF TypeOK
    <2>. QED
      BY <1>9, <2>1, SyncType
  <1>10. ASSUME NEW p \in Procs, Step(p)
         PROVE  TypeOK'
    <2>1. CASE BeginRetry(p) \/ BeginAccept(p) \/ BeginRefuse(p)
      BY <1>1, <2>1 DEF BeginRetry, BeginAccept, BeginRefuse
    <2>2. CASE RepairAccept(p) \/ RepairRefuse(p)
      BY <1>1, <2>2 DEF RepairAccept, RepairRefuse
    <2>3. CASE Busy(p) \/ RefuseTruncate(p) \/ Authorize(p) \/ CloseAnswered(p)
      BY <1>2, <2>3 DEF Busy, RefuseTruncate, Authorize, CloseAnswered
    <2>4. CASE NoteRepair(p) \/ SaveEnvelope(p)
      <3>1. session[p].req \in Requests
        BY <1>0, <2>4 DEF NoteRepair, SaveEnvelope, Control, Engaged
      <3>. QED
        BY <1>0, <1>4, <2>4, <3>1, FileType DEF NoteRepair, SaveEnvelope
    <2>5. CASE SyncNote(p) \/ SyncEnvelope(p)
      BY <1>5, <2>5 DEF SyncNote, SyncEnvelope
    <2>6. CASE SyncTruncate(p) \/ SyncRepairIntent(p) \/ SyncOutcome(p) \/ SyncUnknown(p)
      BY <1>9, <2>6 DEF SyncTruncate, SyncRepairIntent, SyncOutcome, SyncUnknown
    <2>7. CASE WriteIntent(p) \/ WriteUnknown(p) \/ Finish(p)
      BY <2>7, WriteType DEF WriteIntent, WriteUnknown, Finish, Outcomes
    <2>. QED
      BY <1>3, <1>15, <1>6, <1>7, <1>8, <1>10, <2>1, <2>2, <2>3, <2>4, <2>5, <2>6, <2>7
         DEF Step
  <1>11. ASSUME NEW p \in Procs, Start(p) \/ Fail(p)
         PROVE  TypeOK'
    BY <1>0, <1>11 DEF Start, Load, Fail, TypeOK, log, dir, cas, site, clock, history
  <1>12. ASSUME NEW p \in Procs, TearRecord(p)
         PROVE  TypeOK'
    <2>1. PICK kind \in {"begun"} \union Outcomes, part \in Parts :
             MayWrite(p, kind) /\ tail' = [rec |-> Record(p, kind), part |-> part]
      BY <1>12 DEF TearRecord
    <2>2. tail' \in Tails
      BY <1>0, <2>1, RecordType DEF MayWrite, Tails
    <2>. QED
      BY <1>0, <1>12, <2>2 DEF TearRecord, TypeOK, dir, cas, site, clock, history
  <1>13. CASE PowerLoss
    <2>1. PICK k \in synced..Len(journal) :
             /\ journal' = SubSeq(journal, 1, k)
             /\ synced' = k
             /\ \E t \in TailsAfter(k) : tail' = t
      BY <1>13 DEF PowerLoss
    <2>2. /\ journal' \in Seq(Records)
          /\ Len(journal') = k
          /\ k \in Nat
      BY <1>0, <2>1 DEF TypeOK
    <2>3. tail' \in Tails \union {NoTail}
      BY <1>0, <2>1, TailsAfterType
    <2>4. files' \subseteq File /\ durable' = files'
      BY <1>0, <1>13 DEF PowerLoss, TypeOK
    <2>5. journal' \in Seq(Records) /\ synced' \in 0..Len(journal')
      BY <2>1, <2>2
    <2>6. /\ UNCHANGED <<savedPolicy, policyLive, begun, effects, lastEffect, faults>>
          /\ lostTail' = NoTail
          /\ policy' = savedPolicy
          /\ now' = 0
          /\ boot' = boot + 1
      BY <1>13 DEF PowerLoss, history
    <2>7. objects' \subseteq Tails /\ stored' = objects'
      BY <1>0, <1>13 DEF PowerLoss, TypeOK
    <2>. QED
      BY <1>0, <1>13, <2>3, <2>4, <2>5, <2>6, <2>7 DEF TypeOK
  <1>14. CASE Environment
    <2>1. CASE Observe
      BY <1>0, <2>1 DEF Observe, TypeOK, log, cas, site, clock, history
    <2>2. CASE Tick
      BY <1>0, <2>2 DEF Tick, TypeOK, log, dir, cas, site, history
    <2>4. CASE PolicyLapse
      <3>1. policyLive' \in BOOLEAN
        BY <2>4 DEF PolicyLapse
      <3>. QED
        BY <1>0, <2>4, <3>1 DEF PolicyLapse, TypeOK, log, dir, cas, clock, history
    <2>3. ASSUME NEW q \in Policies, RotatePolicy(q)
          PROVE  TypeOK'
      BY <1>0, <2>3 DEF RotatePolicy, TypeOK, log, dir, cas, clock, history
    <2>. QED
      BY <1>13, <1>14, <2>1, <2>2, <2>3, <2>4 DEF Environment
  <1>. QED
    BY <1>10, <1>11, <1>12, <1>14 DEF Next

\* No session but the one that holds the flock has a tail to cut off.
LEMMA OneBeforeCut ==
    ASSUME Control, NEW p \in Procs, session[p].pc \in Locked,
           NEW q \in Procs, q # p
    PROVE  session[q].pc \notin Locked /\ ~BeforeCut(q)
  BY DEF Control, Exclusive, BeforeCut, Locked

\* No step takes the torn tail away under a repair that has not cut it off.
LEMMA TailHeldStep ==
    ASSUME TypeInv, Next
    PROVE  TailHeld'
  <1>0. Control /\ TailHeld /\ session \in [Procs -> Session]
    BY DEF TypeInv, Control
  <1>1. ASSUME NEW p \in Procs, Ends(p), tail' = tail
        PROVE  TailHeld'
    BY <1>0, <1>1 DEF Ends, Closed, TailHeld, BeforeCut
  <1>2. ASSUME NEW p \in Procs, NEW pc, Moves(p, pc), tail' = tail,
               BeforeCut(p)' => tail # NoTail
        PROVE  TailHeld'
    BY <1>0, <1>2 DEF Moves, TailHeld, BeforeCut
  <1>3. ASSUME NEW p \in Procs, Ends(p), session[p].pc \in Locked
        PROVE  TailHeld'
    <2>1. ~BeforeCut(p)'
      BY <1>3 DEF Ends, Closed, BeforeCut
    <2>2. \A q \in Procs : q # p => ~BeforeCut(q)'
      BY <1>0, <1>3, OneBeforeCut DEF Ends, BeforeCut
    <2>. QED
      BY <2>1, <2>2 DEF TailHeld
  <1>4. ASSUME NEW p \in Procs, Step(p)
        PROVE  TailHeld'
    <2>1. CASE Truncate(p)
      <3>1. Moves(p, "truncated")
        BY <1>0, <2>1, GotoMoves DEF Truncate, Locked
      <3>2. ~BeforeCut(p)'
        BY <3>1 DEF Moves, BeforeCut
      <3>3. \A q \in Procs : q # p => ~BeforeCut(q)'
        BY <1>0, <2>1, <3>1, OneBeforeCut DEF Truncate, Locked, Moves, BeforeCut
      <3>. QED
        BY <3>2, <3>3 DEF TailHeld
    <2>2. CASE SyncTruncate(p) \/ Admit(p) \/ SyncRepairIntent(p)
                  \/ SyncOutcome(p) \/ SyncUnknown(p) \/ Effect(p) \/ Authorize(p)
                  \/ WriteIntent(p) \/ WriteUnknown(p) \/ Finish(p)
      <3>1. \E pc \in {"intend", "admitted", "mark", "answered", "authorized",
                        "intending", "marking", "finishing"} :
                Goto(p, pc) /\ tail' = tail
        BY <2>2 DEF SyncTruncate, Admit, SyncRepairIntent, SyncOutcome, SyncUnknown,
                    Sync, Effect, Authorize, WriteIntent, WriteUnknown, Finish, Write, log
      <3>2. PICK pc \in {"intend", "admitted", "mark", "answered", "authorized",
                         "intending", "marking", "finishing"} :
                Moves(p, pc) /\ tail' = tail
        BY <1>0, <3>1, GotoMoves DEF Locked
      <3>3. ~BeforeCut(p)'
        BY <3>2 DEF Moves, BeforeCut
      <3>. QED
        BY <1>2, <3>2, <3>3
    <2>3. CASE BeginRetry(p) \/ BeginAccept(p)
      <3>1. /\ \E pc \in {"answered", "save"} : Goto(p, pc)
            /\ tail' = tail
            /\ session[p].mode = "begin"
        BY <2>3 DEF BeginRetry, BeginAccept, Open, log
      <3>2. PICK pc \in {"answered", "save"} : Moves(p, pc)
        BY <1>0, <3>1, GotoMoves DEF Locked
      <3>3. ~BeforeCut(p)'
        BY <3>1, <3>2 DEF Moves, BeforeCut
      <3>. QED
        BY <1>2, <3>1, <3>2, <3>3
    <2>4. CASE RepairAccept(p)
      <3>1. tail # NoTail /\ tail' = tail
        BY <2>4 DEF RepairAccept, Open, log
      <3>2. Moves(p, "preserve")
        BY <1>0, <2>4, GotoMoves DEF RepairAccept, Locked
      <3>. QED
        BY <1>2, <3>1, <3>2
    <2>5. CASE PreserveTail(p) \/ SyncStore(p) \/ NoteRepair(p) \/ SyncNote(p)
      <3>1. tail # NoTail /\ tail' = tail
        BY <1>0, <2>5 DEF PreserveTail, SyncStore, NoteRepair, Publish, SyncNote, SyncDirectory,
                          log, TailHeld, BeforeCut
      <3>2. (\E pc \in {"note", "noted", "save", "preserved"} : Goto(p, pc)) \/ Close(p)
        BY <2>5 DEF PreserveTail, SyncStore, NoteRepair, Publish, SyncNote, SyncDirectory
      <3>3. (\E pc \in {"note", "noted", "save", "preserved"} : Moves(p, pc)) \/ Ends(p)
        BY <1>0, <3>2, GotoMoves, CloseEnds DEF Locked
      <3>. QED
        BY <1>1, <1>2, <3>1, <3>3
    <2>6. CASE SaveEnvelope(p) \/ SyncEnvelope(p)
      <3>1. tail' = tail /\ session[p].pc \in {"save", "saved"}
        BY <2>6 DEF SaveEnvelope, SyncEnvelope, Publish, SyncDirectory, log
      <3>2. Goto(p, "saved") \/ Goto(p, AfterSave(p)) \/ Close(p)
        BY <2>6 DEF SaveEnvelope, SyncEnvelope, Publish, SyncDirectory
      <3>3. Moves(p, "saved") \/ Moves(p, AfterSave(p)) \/ Ends(p)
        BY <1>0, <3>2, GotoMoves, CloseEnds DEF AfterSave, Locked
      <3>4. ASSUME NEW pc \in {"saved", AfterSave(p)}, Moves(p, pc), BeforeCut(p)'
            PROVE  tail # NoTail
        BY <1>0, <3>1, <3>4 DEF Moves, AfterSave, TailHeld, BeforeCut, Session
      <3>. QED
        BY <1>1, <1>2, <3>1, <3>3, <3>4
    <2>7. CASE BeginRefuse(p) \/ RepairRefuse(p) \/ Busy(p) \/ RefuseTruncate(p)
                  \/ CloseAnswered(p)
      <3>1. tail' = tail /\ Close(p)
        BY <2>7 DEF BeginRefuse, RepairRefuse, Busy, RefuseTruncate, CloseAnswered, Open, log
      <3>. QED
        BY <1>0, <1>1, <3>1, CloseEnds
    <2>. QED
      BY <1>4, <2>1, <2>2, <2>3, <2>4, <2>5, <2>6, <2>7 DEF Step
  <1>5. ASSUME NEW p \in Procs, Start(p)
        PROVE  TailHeld'
    <2>1. PICK r \in Requests, mode \in {"begin", "repair"} : Load(p, r, mode)
      BY <1>5 DEF Start
    <2>2. /\ tail' = tail
          /\ session'[p].pc = "loaded"
          /\ \A q \in Procs : q # p => session'[q] = session[q]
      BY <1>0, <2>1 DEF Load, log
    <2>. QED
      BY <1>0, <2>2 DEF TailHeld, BeforeCut
  <1>6. ASSUME NEW p \in Procs, TearRecord(p)
        PROVE  TailHeld'
    BY <1>0, <1>3, <1>6, CloseEnds DEF TearRecord, MayWrite, Locked
  <1>7. ASSUME NEW p \in Procs, Fail(p)
        PROVE  TailHeld'
    BY <1>0, <1>1, <1>7, CloseEnds DEF Fail, log
  <1>8. CASE PowerLoss
    BY <1>8 DEF PowerLoss, Closed, TailHeld, BeforeCut
  <1>9. ASSUME session' = session, tail' = tail
        PROVE  TailHeld'
    BY <1>0, <1>9 DEF TailHeld, BeforeCut
  <1>10. CASE Environment
    BY <1>8, <1>9, <1>10 DEF Environment, Observe, Tick, PolicyLapse, RotatePolicy, log
  <1>. QED
    BY <1>4, <1>5, <1>6, <1>7, <1>10 DEF Next

\* The state of the gate, its ledger and its sessions is well formed.  Without
\* mutual exclusion it would not be: a repair cuts off the tail it found.
LEMMA TypeInvariant == Spec => []TypeInv
  <1>1. Init => TypeInv
    <2>. SUFFICES ASSUME Init PROVE TypeInv
      OBVIOUS
    <2>1. /\ session \in [Procs -> Session]
          /\ \A p \in Procs : session[p].pc = "closed"
      BY ClosedType DEF Init, Closed
    <2>2. Genesis(FirstPolicy.serial) \in Records
      BY PoliciesAssumption DEF Genesis, Records, RecordsOver, Policy
    <2>3. TypeOK
      BY <2>1, <2>2, PoliciesAssumption DEF Init, TypeOK
    <2>4. Control
      BY <2>1 DEF Control, Exclusive, Engaged, Locked, Repairing, Admitted
    <2>5. TailHeld
      BY <2>1 DEF TailHeld, BeforeCut
    <2>. QED
      BY <2>3, <2>4, <2>5 DEF TypeInv
  <1>2. TypeInv /\ [Next]_vars => TypeInv'
    <2>. SUFFICES ASSUME TypeInv, [Next]_vars PROVE TypeInv'
      OBVIOUS
    <2>1. CASE Next
      <3>1. Control'
        BY <2>1, ControlStep DEF TypeInv, TypeOK
      <3>. QED
        BY <2>1, <3>1, TypeStep, TailHeldStep DEF TypeInv, Control
    <2>2. CASE UNCHANGED vars
      <3>1. UNCHANGED <<journal, synced, tail, lostTail, files, durable, objects, stored, policy,
                        savedPolicy, policyLive, now, boot, session, begun, effects,
                        lastEffect, faults>>
        BY <2>2 DEF vars, log, dir, cas, site, clock, history
      <3>. QED
        BY <3>1 DEF TypeInv, TypeOK, Control, Exclusive, Engaged, TailHeld, BeforeCut
    <2>. QED
      BY <2>1, <2>2
  <1>. QED
    BY <1>1, <1>2, PTL DEF Spec

\* The ledger directory, the policy and the sessions of MC_Gate stay well
\* formed: what is durable is visible, and no more is fsynced than written.
THEOREM TypeCorrect == Spec => []TypeOK
  <1>1. TypeInv => TypeOK
    BY DEF TypeInv
  <1>. QED
    BY <1>1, TypeInvariant, PTL

-----------------------------------------------------------------------------
(* The journal.                                                            *)

\* A session that was accepted and has not written its Begun record yet, and
\* one whose Begun record is the last of the log.
Coming   == {"preserve", "preserved", "note", "noted", "save", "saved", "truncate",
             "truncated", "intend"}
Recorded == {"intending", "admitted", "authorized", "mark"}

\* What the session was accepted for still fits the log it goes into.
InTurn(p) ==
    /\ session[p].pc \in Coming => Accepts(Prior, Record(p, "begun"))
    /\ session[p].pc \in Recorded => journal[Len(journal)] = Record(p, "begun")

JournalInv ==
    /\ synced >= 1
    /\ Readable
    /\ Forward(journal)
    /\ \A p \in Procs : InTurn(p)

\* A step of p that leaves the log alone.
LEMMA QuietJournal ==
    ASSUME TypeInv, JournalInv, journal' = journal, synced' = synced \/ synced' = Len(journal),
           NEW p \in Procs, \A q \in Procs : q # p => session'[q] = session[q],
           InTurn(p)'
    PROVE  JournalInv'
  <1>1. Len(journal) >= 1
    BY DEF TypeInv, TypeOK, JournalInv, Readable
  <1>2. synced' >= 1
    BY <1>1 DEF JournalInv
  <1>3. Readable' /\ Forward(journal)'
    BY DEF JournalInv, Readable, Replays, StateAfter, Accepts, Fresh, SameFence, Forward,
           Later, Outcomes, Unresolved, EmptyState
  <1>4. ASSUME NEW q \in Procs, q # p
        PROVE  InTurn(q)'
    <2>1. InTurn(q) /\ session'[q] = session[q]
      BY <1>4 DEF JournalInv
    <2>. QED
      BY <2>1 DEF InTurn, Prior, Record, Replayed
  <1>. QED
    BY <1>2, <1>3, <1>4 DEF JournalInv

\* The same, by where the step takes p.
LEMMA MovesJournal ==
    ASSUME TypeInv, JournalInv, journal' = journal, synced' = synced \/ synced' = Len(journal),
           NEW p \in Procs, NEW pc, Moves(p, pc),
           pc \in Coming => session[p].pc \in Coming \/ Accepts(Prior, Record(p, "begun")),
           pc \in Recorded => session[p].pc \in Recorded
    PROVE  JournalInv'
  <1>1. InTurn(p)
    BY DEF JournalInv
  <1>2. InTurn(p)'
    BY <1>1 DEF Moves, InTurn, Prior, Record, Replayed
  <1>. QED
    BY <1>2, QuietJournal DEF Moves

\* A session that ends owes the log no record.
LEMMA EndsJournal ==
    ASSUME TypeInv, JournalInv, journal' = journal, synced' = synced,
           NEW p \in Procs, Ends(p)
    PROVE  JournalInv'
  <1>1. InTurn(p)'
    BY DEF Ends, Closed, InTurn, Coming, Recorded
  <1>. QED
    BY <1>1, QuietJournal DEF Ends

\* The reader takes the record that a session writes.
LEMMA WriteAccepted ==
    ASSUME TypeInv, JournalInv, NEW p \in Procs,
           NEW kind \in {"begun"} \union Outcomes, MayWrite(p, kind)
    PROVE  Accepts(Prior, Record(p, kind))
  <1>1. InTurn(p)
    BY DEF JournalInv
  <1>2. CASE kind = "begun"
    BY <1>1, <1>2 DEF MayWrite, InTurn, Coming, Outcomes
  <1>3. CASE kind \in Outcomes
    <2>1. journal[Len(journal)] = Record(p, "begun")
      BY <1>1, <1>3 DEF MayWrite, InTurn, Recorded, Outcomes
    <2>2. Len(journal) # 0
      BY DEF TypeInv, TypeOK, JournalInv, Readable
    <2>3. /\ Prior.serial = session[p].policy.serial
          /\ Prior.window = session[p].req
          /\ Prior.pending
      <3>1. Prior = [count |-> Len(journal), serial |-> Record(p, "begun").serial,
                     window |-> Record(p, "begun").req,
                     pending |-> Unresolved(Record(p, "begun"))]
        BY <2>1, <2>2 DEF Prior, Replayed, StateAfter
      <3>2. Unresolved(Record(p, "begun")) = TRUE
        BY DEF Unresolved, Record
      <3>. QED
        BY <3>1, <3>2 DEF Record
    <2>4. session[p].policy.serial \in Nat
      BY PoliciesAssumption DEF TypeInv, TypeOK, Session, Policy
    <2>. QED
      BY <1>3, <2>3, <2>4 DEF Accepts, Record
  <1>. QED
    BY <1>2, <1>3

\* A record written where it is due keeps the log readable.
LEMMA WriteJournal ==
    ASSUME TypeInv, JournalInv, NEW p \in Procs, NEW kind \in {"begun"} \union Outcomes,
           NEW next \in Locked, Write(p, kind, next),
           next \notin Coming, next \in Recorded => kind = "begun"
    PROVE  JournalInv'
  <1>. DEFINE e == Record(p, kind)
  <1>1. journal' = Append(journal, e) /\ MayWrite(p, kind) /\ synced' = synced
    BY DEF Write
  <1>2. e \in Records /\ journal \in Seq(Records)
    BY <1>1, RecordType DEF MayWrite, TypeInv, TypeOK
  <1>3. Accepts(Replayed(journal), e)
    BY <1>1, WriteAccepted DEF Prior
  <1>4. Replays(journal') /\ Forward(journal')
    BY <1>1, <1>2, <1>3, ReplaysAppend, ForwardAppend DEF JournalInv, Readable
  <1>5. Moves(p, next)
    BY GotoMoves DEF Write, TypeInv, TypeOK
  <1>6. InTurn(p)'
    <2>1. journal'[Len(journal')] = e
      BY <1>1, <1>2
    <2>2. Record(p, kind)' = e
      BY <1>5 DEF Moves, Record
    <2>. QED
      BY <1>5, <2>1, <2>2 DEF InTurn, Moves
  <1>7. ASSUME NEW q \in Procs, q # p
        PROVE  InTurn(q)'
    <2>1. session[q].pc \notin Locked
      BY <1>1, <1>7, OneBeforeCut DEF MayWrite, Locked, TypeInv
    <2>. QED
      BY <1>5, <1>7, <2>1 DEF InTurn, Moves, Locked, Coming, Recorded
  <1>8. journal' # <<>>
    BY <1>1, <1>2
  <1>. QED
    BY <1>1, <1>4, <1>6, <1>7, <1>8 DEF JournalInv, Readable

\* A power loss leaves a readable prefix, and no session.
LEMMA PowerLossJournal ==
    ASSUME TypeInv, JournalInv, PowerLoss
    PROVE  JournalInv'
  <1>1. PICK k \in synced..Len(journal) :
           journal' = SubSeq(journal, 1, k) /\ synced' = k
    BY DEF PowerLoss
  <1>2. k \in 1..Len(journal) /\ journal \in Seq(Records)
    BY DEF TypeInv, TypeOK, JournalInv
  <1>3. Replays(journal') /\ Forward(journal')
    BY <1>1, <1>2, ReplaysPrefix, ForwardPrefix DEF JournalInv, Readable
  <1>4. journal' # <<>> /\ synced' >= 1
    BY <1>1, <1>2
  <1>5. \A p \in Procs : InTurn(p)'
    BY DEF PowerLoss, Closed, InTurn, Coming, Recorded
  <1>. QED
    BY <1>3, <1>4, <1>5 DEF JournalInv, Readable

\* Every step keeps the log readable and its next record due.
LEMMA JournalStep ==
    ASSUME TypeInv, JournalInv, Next
    PROVE  JournalInv'
  <1>0. session \in [Procs -> Session]
    BY DEF TypeInv, TypeOK
  <1>1. ASSUME NEW p \in Procs, Step(p)
        PROVE  JournalInv'
    <2>1. CASE BeginRetry(p)
      <3>1. Moves(p, "answered") /\ journal' = journal /\ synced' = synced
        BY <1>0, <2>1, GotoMoves DEF BeginRetry, Open, log, Locked
      <3>. QED
        BY <3>1, MovesJournal DEF Coming, Recorded
    <2>2. CASE BeginAccept(p)
      <3>1. Moves(p, "save") /\ journal' = journal /\ synced' = synced
        BY <1>0, <2>2, GotoMoves DEF BeginAccept, Open, log, Locked
      <3>2. Accepts(Prior, Record(p, "begun"))
        BY <2>2 DEF BeginAccept, Current, Admissible, Accepts, Record
      <3>. QED
        BY <3>1, <3>2, MovesJournal DEF Coming, Recorded
    <2>3. CASE RepairAccept(p)
      <3>1. Moves(p, "preserve") /\ journal' = journal /\ synced' = synced
        BY <1>0, <2>3, GotoMoves DEF RepairAccept, Open, log, Locked
      <3>2. Accepts(Prior, Record(p, "begun"))
        BY <2>3 DEF RepairAccept, Current, Repairable, Accepts, Record
      <3>. QED
        BY <3>1, <3>2, MovesJournal DEF Coming, Recorded
    <2>4. CASE BeginRefuse(p) \/ RepairRefuse(p) \/ Busy(p) \/ RefuseTruncate(p)
                  \/ CloseAnswered(p)
      <3>1. journal' = journal /\ synced' = synced /\ Close(p)
        BY <2>4 DEF BeginRefuse, RepairRefuse, Busy, RefuseTruncate, CloseAnswered, Open, log
      <3>. QED
        BY <1>0, <3>1, CloseEnds, EndsJournal
    <2>5. CASE PreserveTail(p) \/ SyncStore(p) \/ NoteRepair(p) \/ SyncNote(p) \/ SaveEnvelope(p)
                  \/ SyncEnvelope(p) \/ Truncate(p)
      <3>1. journal' = journal /\ synced' = synced /\ session[p].pc \in Coming
        BY <2>5 DEF PreserveTail, SyncStore, NoteRepair, SyncNote, SaveEnvelope, SyncEnvelope, Truncate,
                    Publish, SyncDirectory, log, Coming
      <3>2. (\E pc \in Coming : Goto(p, pc)) \/ Close(p)
        BY <2>5 DEF PreserveTail, SyncStore, NoteRepair, SyncNote, SaveEnvelope, SyncEnvelope, Truncate,
                    Publish, SyncDirectory, AfterSave, Coming
      <3>3. (\E pc \in Coming : Moves(p, pc)) \/ Ends(p)
        BY <1>0, <3>2, GotoMoves, CloseEnds DEF Coming, Locked
      <3>4. \A pc \in Coming : pc \notin Recorded
        BY DEF Coming, Recorded
      <3>. QED
        BY <3>1, <3>3, <3>4, MovesJournal, EndsJournal
    <2>6. CASE SyncTruncate(p)
      <3>1. Moves(p, "intend") /\ journal' = journal /\ synced' = Len(journal)
        BY <1>0, <2>6, GotoMoves DEF SyncTruncate, Sync, SyncLog, Locked
      <3>2. session[p].pc \in Coming
        BY <2>6 DEF SyncTruncate, Sync, Coming
      <3>. QED
        BY <3>1, <3>2, MovesJournal DEF Recorded
    <2>7. CASE Admit(p) \/ SyncRepairIntent(p) \/ SyncOutcome(p) \/ SyncUnknown(p)
      <3>1. journal' = journal /\ synced' = Len(journal)
        BY <2>7 DEF Admit, SyncRepairIntent, SyncOutcome, SyncUnknown, Sync, SyncLog
      <3>2. \/ Goto(p, "answered")
            \/ (Goto(p, "admitted") \/ Goto(p, "mark")) /\ session[p].pc \in Recorded
        BY <2>7 DEF Admit, SyncRepairIntent, SyncOutcome, SyncUnknown, Sync, Recorded
      <3>3. \/ Moves(p, "answered")
            \/ (Moves(p, "admitted") \/ Moves(p, "mark")) /\ session[p].pc \in Recorded
        BY <1>0, <3>2, GotoMoves DEF Locked
      <3>. QED
        BY <3>1, <3>3, MovesJournal DEF Coming, Recorded
    <2>8. CASE Authorize(p) \/ Effect(p)
      <3>1. journal' = journal /\ synced' = synced /\ session[p].pc \in Recorded
        BY <2>8 DEF Authorize, Effect, log, Recorded
      <3>2. Moves(p, "authorized") \/ Moves(p, "admitted")
        BY <1>0, <2>8, GotoMoves DEF Authorize, Effect, Locked
      <3>. QED
        BY <3>1, <3>2, MovesJournal DEF Coming
    <2>9. CASE WriteIntent(p)
      BY <2>9, WriteJournal DEF WriteIntent, Locked, Coming, Recorded
    <2>10. CASE WriteUnknown(p) \/ Finish(p)
      BY <2>10, WriteJournal DEF WriteUnknown, Finish, Locked, Coming, Recorded, Outcomes
    <2>. QED
      BY <1>1, <2>1, <2>2, <2>3, <2>4, <2>5, <2>6, <2>7, <2>8, <2>9, <2>10 DEF Step
  <1>2. ASSUME NEW p \in Procs, Start(p)
        PROVE  JournalInv'
    <2>1. PICK r \in Requests, mode \in {"begin", "repair"} : Load(p, r, mode)
      BY <1>2 DEF Start
    <2>2. /\ journal' = journal /\ synced' = synced
          /\ session'[p].pc = "loaded"
          /\ \A q \in Procs : q # p => session'[q] = session[q]
      BY <1>0, <2>1 DEF Load, log
    <2>3. InTurn(p)'
      BY <2>2 DEF InTurn, Coming, Recorded
    <2>. QED
      BY <2>2, <2>3, QuietJournal
  <1>3. ASSUME NEW p \in Procs, TearRecord(p) \/ Fail(p)
        PROVE  JournalInv'
    BY <1>0, <1>3, CloseEnds, EndsJournal DEF TearRecord, Fail, log
  <1>4. ASSUME UNCHANGED <<journal, synced, session>>
        PROVE  JournalInv'
    BY <1>4 DEF JournalInv, Readable, Replays, StateAfter, Accepts, Fresh, SameFence, Forward,
                Later, Outcomes, Unresolved, EmptyState, InTurn, Prior, Record, Replayed
  <1>5. CASE Environment
    BY <1>4, <1>5, PowerLossJournal
       DEF Environment, Observe, Tick, PolicyLapse, RotatePolicy, log
  <1>. QED
    BY <1>1, <1>2, <1>3, <1>5 DEF Next

\* The log stays readable, with the right session before its next record.
LEMMA JournalInvariant == Spec => []JournalInv
  <1>1. Init => JournalInv
    <2>. SUFFICES ASSUME Init PROVE JournalInv
      OBVIOUS
    <2>. DEFINE g == Genesis(FirstPolicy.serial)
    <2>1. journal = <<g>> /\ Len(journal) = 1 /\ journal[1] = g /\ synced = 1
      BY DEF Init
    <2>2. Accepts(EmptyState, g)
      BY PoliciesAssumption DEF Accepts, EmptyState, Genesis, Policy
    <2>3. Replays(journal)
      BY <2>1, <2>2 DEF Replays, StateAfter
    <2>4. Forward(journal)
      BY <2>1 DEF Forward, Genesis
    <2>5. \A p \in Procs : InTurn(p)
      BY DEF Init, Closed, InTurn, Coming, Recorded
    <2>. QED
      BY <2>1, <2>3, <2>4, <2>5 DEF JournalInv, Readable
  <1>2. TypeInv /\ JournalInv /\ [Next]_vars => JournalInv'
    <2>. SUFFICES ASSUME TypeInv, JournalInv, [Next]_vars PROVE JournalInv'
      OBVIOUS
    <2>1. CASE Next
      BY <2>1, JournalStep
    <2>2. CASE UNCHANGED vars
      <3>1. UNCHANGED <<journal, synced, session>>
        BY <2>2 DEF vars, log
      <3>. QED
        BY <3>1 DEF JournalInv, Readable, Replays, StateAfter, Accepts, Fresh, SameFence,
                    Forward, Later, Outcomes, Unresolved, EmptyState, InTurn, Prior, Record,
                    Replayed
    <2>. QED
      BY <2>1, <2>2
  <1>. QED
    BY <1>1, <1>2, TypeInvariant, PTL DEF Spec

\* No interleaving, crash, torn write or rotation of the policy makes the
\* writers leave a log that Read_Previous would call corrupt.
THEOREM AlwaysReadable == Spec => []JournalReplays
  <1>1. JournalInv => JournalReplays
    BY DEF JournalInv, JournalReplays
  <1>. QED
    BY <1>1, JournalInvariant, PTL

-----------------------------------------------------------------------------
(* Files.                                                                  *)

NamesUnique == \A f, g \in files : f.name = g.name => f = g

\* What a session under way knows of the ledger directory.
FilesAt(p) ==
    /\ session[p].pc \in {"preserve", "preserved", "note", "save"} => durable = files
    /\ session[p].pc = "saved" => RequestFile(session[p].req) \in files
    /\ session[p].pc \in {"truncate", "truncated", "intend"}
        => RequestFile(session[p].req) \in durable

FilesInv == NamesUnique /\ EnvelopeKept /\ \A p \in Procs : FilesAt(p)

\* A step of p that creates no file and writes no record.
LEMMA QuietFiles ==
    ASSUME TypeInv, FilesInv, journal' = journal, files' = files,
           durable' = durable \/ durable' = files,
           NEW p \in Procs, \A q \in Procs : q # p => session'[q] = session[q],
           FilesAt(p)'
    PROVE  FilesInv'
  <1>0. durable \subseteq durable' /\ durable' \subseteq files
    BY DEF TypeInv, TypeOK
  <1>1. NamesUnique' /\ EnvelopeKept'
    BY <1>0 DEF FilesInv, NamesUnique, EnvelopeKept, RequestFile
  <1>2. ASSUME NEW q \in Procs, q # p
        PROVE  FilesAt(q)'
    <2>1. FilesAt(q) /\ session'[q] = session[q]
      BY <1>2 DEF FilesInv
    <2>. QED
      BY <1>0, <2>1 DEF FilesAt, RequestFile
  <1>. QED
    BY <1>1, <1>2 DEF FilesInv

\* The same, by where the step takes p.
LEMMA MovesFiles ==
    ASSUME TypeInv, FilesInv, journal' = journal, files' = files,
           durable' = durable \/ durable' = files,
           NEW p \in Procs, NEW pc, Moves(p, pc),
           pc \in {"preserve", "preserved", "note", "save"} =>
               \/ durable' = files
               \/ session[p].pc \in {"preserve", "preserved", "note", "save"},
           pc = "saved" => session[p].pc = "saved",
           pc \in {"truncate", "truncated", "intend"} =>
               \/ session[p].pc \in {"truncate", "truncated", "intend"}
               \/ session[p].pc = "saved" /\ durable' = files
    PROVE  FilesInv'
  <1>1. FilesAt(p) /\ durable \subseteq files
    BY DEF FilesInv, TypeInv, TypeOK
  <1>2. FilesAt(p)'
    BY <1>1 DEF Moves, FilesAt, RequestFile
  <1>. QED
    BY <1>2, QuietFiles DEF Moves

\* The same where the session of p ends.
LEMMA EndsFiles ==
    ASSUME TypeInv, FilesInv, journal' = journal, files' = files,
           durable' = durable \/ durable' = files, NEW p \in Procs, Ends(p)
    PROVE  FilesInv'
  <1>1. FilesAt(p)'
    BY DEF Ends, Closed, FilesAt
  <1>. QED
    BY <1>1, QuietFiles DEF Ends

\* An immutable file is created, or found to be the same.
LEMMA PublishFiles ==
    ASSUME TypeInv, FilesInv, NEW p \in Procs, NEW f \in File, NEW written, NEW kept,
           Publish(p, f, written, kept),
           \/ /\ session[p].pc = "save" /\ f = RequestFile(session[p].req)
              /\ written = "saved" /\ kept \in {"intend", "truncate"}
           \/ session[p].pc = "note" /\ written = "noted" /\ kept = "save"
    PROVE  FilesInv'
  <1>0. session \in [Procs -> Session] /\ Control
    BY DEF TypeInv, TypeOK
  <1>1. durable = files /\ journal' = journal /\ durable' = durable
    BY DEF FilesInv, FilesAt, Publish, log
  <1>2. CASE files' = files
    <2>1. (Goto(p, kept) /\ f \in files) \/ Close(p)
      BY <1>2 DEF Publish
    <2>2. CASE Close(p)
      BY <1>0, <1>1, <1>2, <2>2, CloseEnds, EndsFiles
    <2>3. CASE Goto(p, kept) /\ f \in files
      <3>1. Moves(p, kept)
        BY <1>0, <2>3, GotoMoves DEF Locked
      <3>2. FilesAt(p)'
        BY <1>1, <1>2, <2>3, <3>1 DEF Moves, FilesAt, RequestFile
      <3>. QED
        BY <1>1, <1>2, <3>1, <3>2, QuietFiles DEF Moves
    <2>. QED
      BY <2>1, <2>2, <2>3
  <1>3. CASE files' # files
    <2>1. /\ \A g \in files : g.name # f.name
          /\ files' = files \union {f}
          /\ Goto(p, written)
      BY <1>3 DEF Publish
    <2>2. Moves(p, written)
      BY <1>0, <2>1, GotoMoves DEF Locked
    <2>3. NamesUnique'
      BY <2>1 DEF FilesInv, NamesUnique
    <2>4. EnvelopeKept'
      BY <1>1 DEF FilesInv, EnvelopeKept, RequestFile
    <2>5. FilesAt(p)'
      BY <2>1, <2>2 DEF Moves, FilesAt, RequestFile
    <2>6. ASSUME NEW q \in Procs, q # p
          PROVE  FilesAt(q)'
      <3>1. session[q].pc \notin Locked
        BY <1>0, <2>6, OneBeforeCut DEF Locked
      <3>. QED
        BY <2>2, <2>6, <3>1 DEF Moves, FilesAt, Locked
    <2>. QED
      BY <2>3, <2>4, <2>5, <2>6 DEF FilesInv
  <1>. QED
    BY <1>2, <1>3

\* A record is written; a Begun record only where its file is durable.
LEMMA WriteFiles ==
    ASSUME TypeInv, FilesInv, NEW p \in Procs, NEW kind \in {"begun"} \union Outcomes,
           NEW next \in {"intending", "finishing", "marking"}, Write(p, kind, next)
    PROVE  FilesInv'
  <1>0. session \in [Procs -> Session] /\ Control /\ journal \in Seq(Records)
    BY DEF TypeInv, TypeOK
  <1>1. /\ journal' = Append(journal, Record(p, kind))
        /\ files' = files /\ durable' = durable
        /\ MayWrite(p, kind)
    BY DEF Write, dir
  <1>2. Moves(p, next)
    BY <1>0, GotoMoves DEF Write, Locked
  <1>3. kind = "begun" => RequestFile(session[p].req) \in durable
    BY <1>1 DEF MayWrite, Outcomes, FilesInv, FilesAt
  <1>4. EnvelopeKept'
    <2>. SUFFICES ASSUME NEW i \in 1..Len(journal'), journal'[i].kind = "begun"
                  PROVE  RequestFile(journal'[i].req) \in durable
      BY <1>1 DEF EnvelopeKept, RequestFile
    <2>1. CASE i <= Len(journal)
      <3>1. i \in 1..Len(journal) /\ journal'[i] = journal[i]
        BY <1>0, <1>1, <2>1
      <3>. QED
        BY <3>1 DEF FilesInv, EnvelopeKept
    <2>2. CASE i > Len(journal)
      <3>1. journal'[i] = Record(p, kind)
        BY <1>0, <1>1, <2>2
      <3>. QED
        BY <1>3, <3>1 DEF Record
    <2>. QED
      BY <1>0, <2>1, <2>2
  <1>5. ASSUME NEW q \in Procs
        PROVE  FilesAt(q)'
    <2>1. q # p => session'[q] = session[q] /\ FilesAt(q)
      BY <1>2 DEF Moves, FilesInv
    <2>. QED
      BY <1>1, <1>2, <2>1 DEF Moves, FilesAt, RequestFile
  <1>6. NamesUnique'
    BY <1>1 DEF FilesInv, NamesUnique
  <1>. QED
    BY <1>4, <1>5, <1>6 DEF FilesInv

\* A power loss takes no durable file, and no session is left to need one.
LEMMA PowerLossFiles ==
    ASSUME TypeInv, FilesInv, PowerLoss
    PROVE  FilesInv'
  <1>1. PICK k \in synced..Len(journal) : journal' = SubSeq(journal, 1, k)
    BY DEF PowerLoss
  <1>2. k \in 0..Len(journal) /\ journal \in Seq(Records)
    BY DEF TypeInv, TypeOK
  <1>3. durable \subseteq durable' /\ durable' = files' /\ files' \subseteq files
    BY DEF PowerLoss, TypeInv, TypeOK
  <1>4. NamesUnique'
    BY <1>3 DEF FilesInv, NamesUnique
  <1>5. EnvelopeKept'
    <2>1. \A i \in 1..Len(journal') : i \in 1..Len(journal) /\ journal'[i] = journal[i]
      BY <1>1, <1>2
    <2>. QED
      BY <1>3, <2>1 DEF FilesInv, EnvelopeKept, RequestFile
  <1>6. \A p \in Procs : FilesAt(p)'
    BY DEF PowerLoss, Closed, FilesAt
  <1>. QED
    BY <1>4, <1>5, <1>6 DEF FilesInv

\* Every step keeps the files in place for the records.
LEMMA FilesStep ==
    ASSUME TypeInv, FilesInv, Next
    PROVE  FilesInv'
  <1>0. session \in [Procs -> Session] /\ Control
    BY DEF TypeInv, TypeOK
  <1>1. ASSUME NEW p \in Procs, Step(p)
        PROVE  FilesInv'
    <2>1. CASE BeginRetry(p) \/ BeginAccept(p) \/ RepairAccept(p)
      <3>1. journal' = journal /\ files' = files /\ durable' = files
        BY <2>1 DEF BeginRetry, BeginAccept, RepairAccept, Open, log
      <3>2. PICK pc \in {"answered", "save", "preserve"} : Goto(p, pc)
        BY <2>1 DEF BeginRetry, BeginAccept, RepairAccept
      <3>3. Moves(p, pc)
        BY <1>0, <3>2, GotoMoves DEF Locked
      <3>. QED
        BY <3>1, <3>3, MovesFiles
    <2>2. CASE BeginRefuse(p) \/ RepairRefuse(p)
      <3>1. journal' = journal /\ files' = files /\ durable' = files /\ Close(p)
        BY <2>2 DEF BeginRefuse, RepairRefuse, Open, log
      <3>. QED
        BY <1>0, <3>1, CloseEnds, EndsFiles
    <2>3. CASE Busy(p) \/ RefuseTruncate(p) \/ CloseAnswered(p)
      <3>1. journal' = journal /\ files' = files /\ durable' = durable /\ Close(p)
        BY <2>3 DEF Busy, RefuseTruncate, CloseAnswered, log, dir
      <3>. QED
        BY <1>0, <3>1, CloseEnds, EndsFiles
    <2>4. CASE PreserveTail(p) \/ SyncStore(p) \/ Truncate(p)
      <3>1. journal' = journal /\ files' = files /\ durable' = durable
        BY <2>4 DEF PreserveTail, SyncStore, Truncate, log, dir
      <3>2. \/ /\ session[p].pc \in {"preserve", "preserved"}
               /\ Goto(p, "note") \/ Goto(p, "preserved")
            \/ session[p].pc = "truncate" /\ Goto(p, "truncated")
        BY <2>4 DEF PreserveTail, SyncStore, Truncate
      <3>3. \/ /\ session[p].pc \in {"preserve", "preserved"}
               /\ Moves(p, "note") \/ Moves(p, "preserved")
            \/ session[p].pc = "truncate" /\ Moves(p, "truncated")
        BY <1>0, <3>2, GotoMoves DEF Locked
      <3>. QED
        BY <3>1, <3>3, MovesFiles
    <2>5. CASE NoteRepair(p) \/ SaveEnvelope(p)
      <3>1. session[p].req \in Requests
        BY <1>0, <2>5 DEF NoteRepair, SaveEnvelope, Control, Engaged
      <3>2. RequestFile(session[p].req) \in File /\ RepairFile(session[p].req) \in File
        BY <3>1, FileType DEF TypeInv
      <3>. QED
        BY <2>5, <3>2, PublishFiles DEF NoteRepair, SaveEnvelope, AfterSave
    <2>6. CASE SyncNote(p) \/ SyncEnvelope(p)
      <3>1. journal' = journal /\ files' = files /\ durable' = files
        BY <2>6 DEF SyncNote, SyncEnvelope, SyncDirectory, log
      <3>2. \/ Goto(p, "save")
            \/ session[p].pc = "saved" /\ (Goto(p, "intend") \/ Goto(p, "truncate"))
        BY <2>6 DEF SyncNote, SyncEnvelope, SyncDirectory, AfterSave
      <3>3. \/ Moves(p, "save")
            \/ session[p].pc = "saved" /\ (Moves(p, "intend") \/ Moves(p, "truncate"))
        BY <1>0, <3>2, GotoMoves DEF Locked
      <3>. QED
        BY <3>1, <3>3, MovesFiles
    <2>7. CASE SyncTruncate(p) \/ Admit(p) \/ SyncRepairIntent(p) \/ SyncOutcome(p)
                  \/ SyncUnknown(p) \/ Authorize(p) \/ Effect(p)
      <3>1. journal' = journal /\ files' = files /\ durable' = durable
        BY <2>7 DEF SyncTruncate, Admit, SyncRepairIntent, SyncOutcome, SyncUnknown, Sync,
                    Authorize, Effect, log, dir
      <3>2. \/ session[p].pc = "truncated" /\ Goto(p, "intend")
            \/ \E pc \in {"admitted", "mark", "answered", "authorized"} : Goto(p, pc)
        BY <2>7 DEF SyncTruncate, Admit, SyncRepairIntent, SyncOutcome, SyncUnknown, Sync,
                    Authorize, Effect
      <3>3. \/ session[p].pc = "truncated" /\ Moves(p, "intend")
            \/ \E pc \in {"admitted", "mark", "answered", "authorized"} : Moves(p, pc)
        BY <1>0, <3>2, GotoMoves DEF Locked
      <3>. QED
        BY <3>1, <3>3, MovesFiles
    <2>8. CASE WriteIntent(p) \/ WriteUnknown(p) \/ Finish(p)
      BY <2>8, WriteFiles DEF WriteIntent, WriteUnknown, Finish, Outcomes
    <2>. QED
      BY <1>1, <2>1, <2>2, <2>3, <2>4, <2>5, <2>6, <2>7, <2>8 DEF Step
  <1>2. ASSUME NEW p \in Procs, Start(p)
        PROVE  FilesInv'
    <2>1. PICK r \in Requests, mode \in {"begin", "repair"} : Load(p, r, mode)
      BY <1>2 DEF Start
    <2>2. /\ journal' = journal /\ files' = files /\ durable' = durable
          /\ session'[p].pc = "loaded"
          /\ \A q \in Procs : q # p => session'[q] = session[q]
      BY <1>0, <2>1 DEF Load, log, dir
    <2>3. FilesAt(p)'
      BY <2>2 DEF FilesAt
    <2>. QED
      BY <2>2, <2>3, QuietFiles
  <1>3. ASSUME NEW p \in Procs, TearRecord(p) \/ Fail(p)
        PROVE  FilesInv'
    BY <1>0, <1>3, CloseEnds, EndsFiles DEF TearRecord, Fail, log, dir
  <1>4. ASSUME UNCHANGED <<journal, files, session>>, durable' = durable \/ durable' = files
        PROVE  FilesInv'
    BY <1>4 DEF TypeInv, TypeOK, FilesInv, NamesUnique, EnvelopeKept, FilesAt, RequestFile
  <1>5. CASE Environment
    BY <1>4, <1>5, PowerLossFiles
       DEF Environment, Observe, Tick, PolicyLapse, RotatePolicy, log, dir
  <1>. QED
    BY <1>1, <1>2, <1>3, <1>5 DEF Next

\* Files and records together stay in place.
LEMMA FilesInvariant == Spec => []FilesInv
  <1>1. Init => FilesInv
    <2>. SUFFICES ASSUME Init PROVE FilesInv
      OBVIOUS
    <2>1. EnvelopeKept
      BY DEF Init, EnvelopeKept, Genesis
    <2>. QED
      BY <2>1 DEF Init, Closed, FilesInv, NamesUnique, FilesAt
  <1>2. TypeInv /\ FilesInv /\ [Next]_vars => FilesInv'
    <2>1. TypeInv /\ FilesInv /\ UNCHANGED vars => FilesInv'
      BY DEF vars, log, dir, FilesInv, NamesUnique, EnvelopeKept, FilesAt, RequestFile
    <2>. QED
      BY <2>1, FilesStep
  <1>. QED
    BY <1>1, <1>2, TypeInvariant, PTL DEF Spec

\* Begin_Request and Repair_Ledger never leave a Begun record whose
\* request-ID.bin a power loss could take, so recovery always finds it.
THEOREM EnvelopesKept == Spec => []EnvelopeKept
  <1>1. FilesInv => EnvelopeKept
    BY DEF FilesInv
  <1>. QED
    BY <1>1, FilesInvariant, PTL

-----------------------------------------------------------------------------
(* Intent.                                                                 *)

\* What is on stable storage where a session stands.
IntentAt(p) ==
    /\ session[p].pc \in {"admitted", "authorized"} => synced = Len(journal)
    /\ session[p].pc = "intending" => synced < Len(journal)

IntentInv ==
    /\ IntentBeforeEffect
    /\ lastEffect \in effects \union {NoRequest}
    /\ \A id \in begun : \E i \in 1..synced :
            journal[i].kind = "begun" /\ journal[i].req.id = id
    /\ \A p \in Procs : IntentAt(p)

\* A step that takes back nothing from stable storage, admits nobody and has
\* no effect.
LEMMA QuietIntent ==
    ASSUME TypeInv, IntentInv,
           UNCHANGED <<begun, effects, lastEffect>>, durable \subseteq durable',
           synced' >= synced, synced' \in Nat,
           \A i \in 1..synced : journal'[i] = journal[i],
           \A p \in Procs : IntentAt(p)'
    PROVE  IntentInv'
  <1>0. synced \in Nat /\ \A i \in 1..synced : i \in 1..synced'
    BY DEF TypeInv, TypeOK
  <1>1. IntentBeforeEffect'
    <2>. SUFFICES ASSUME NEW r \in effects
                  PROVE  /\ RequestFile(r) \in durable'
                         /\ \E i \in 1..synced' : journal'[i].kind = "begun" /\ journal'[i].req = r
      BY DEF IntentBeforeEffect, RequestFile
    <2>1. PICK i \in 1..synced : journal[i].kind = "begun" /\ journal[i].req = r
      BY DEF IntentInv, IntentBeforeEffect
    <2>2. RequestFile(r) \in durable
      BY DEF IntentInv, IntentBeforeEffect
    <2>. QED
      BY <1>0, <2>1, <2>2
  <1>2. ASSUME NEW id \in begun'
        PROVE  \E i \in 1..synced' : journal'[i].kind = "begun" /\ journal'[i].req.id = id
    <2>1. PICK i \in 1..synced : journal[i].kind = "begun" /\ journal[i].req.id = id
      BY <1>2 DEF IntentInv
    <2>. QED
      BY <1>0, <2>1
  <1>. QED
    BY <1>1, <1>2 DEF IntentInv

\* The same where one session moves or ends.
LEMMA MovesIntent ==
    ASSUME TypeInv, IntentInv, UNCHANGED <<begun, effects, lastEffect>>,
           durable \subseteq durable',
           journal' = journal, synced' = synced \/ synced' = Len(journal),
           NEW p \in Procs, \A q \in Procs : q # p => session'[q] = session[q],
           synced' = synced \/ session[p].pc \in Locked,
           IntentAt(p)'
    PROVE  IntentInv'
  <1>0. Control /\ synced \in Nat /\ synced <= Len(journal) /\ Len(journal) \in Nat
    BY DEF TypeInv, TypeOK
  <1>1. ASSUME NEW q \in Procs, q # p
        PROVE  IntentAt(q)'
    <2>1. IntentAt(q) /\ session'[q] = session[q]
      BY <1>1 DEF IntentInv
    <2>2. CASE synced' = synced
      BY <2>1, <2>2 DEF IntentAt
    <2>3. CASE session[p].pc \in Locked
      <3>1. session[q].pc \notin Locked
        BY <1>0, <1>1, <2>3, OneBeforeCut
      <3>. QED
        BY <2>1, <3>1 DEF IntentAt, Locked
    <2>. QED
      BY <2>2, <2>3
  <1>2. \A q \in Procs : IntentAt(q)'
    BY <1>1
  <1>. QED
    BY <1>0, <1>2, QuietIntent

\* A record is written behind those on stable storage.
LEMMA WriteIntentInv ==
    ASSUME TypeInv, IntentInv, NEW p \in Procs, NEW kind \in {"begun"} \union Outcomes,
           NEW next \in {"intending", "finishing", "marking"}, Write(p, kind, next)
    PROVE  IntentInv'
  <1>0. /\ session \in [Procs -> Session] /\ Control /\ journal \in Seq(Records)
        /\ synced \in 0..Len(journal)
    BY DEF TypeInv, TypeOK
  <1>1. /\ journal' = Append(journal, Record(p, kind)) /\ synced' = synced
        /\ UNCHANGED <<begun, effects, lastEffect>> /\ durable' = durable
        /\ session[p].pc \in Locked
    BY DEF Write, MayWrite, dir, history, Locked
  <1>2. Moves(p, next)
    BY <1>0, GotoMoves DEF Write, Locked
  <1>3. Len(journal') = Len(journal) + 1 /\ \A i \in 1..synced : journal'[i] = journal[i]
    BY <1>0, <1>1
  <1>4. ASSUME NEW q \in Procs
        PROVE  IntentAt(q)'
    <2>1. CASE q = p
      BY <1>0, <1>1, <1>2, <1>3, <2>1 DEF Moves, IntentAt
    <2>2. CASE q # p
      <3>1. session[q].pc \notin Locked
        BY <1>0, <1>1, <2>2, OneBeforeCut
      <3>. QED
        BY <1>2, <2>2, <3>1 DEF Moves, IntentAt, Locked
    <2>. QED
      BY <2>1, <2>2
  <1>. QED
    BY <1>0, <1>1, <1>3, <1>4, QuietIntent

\* A power loss leaves what is on stable storage.
LEMMA PowerLossIntent ==
    ASSUME TypeInv, IntentInv, PowerLoss
    PROVE  IntentInv'
  <1>1. PICK k \in synced..Len(journal) : journal' = SubSeq(journal, 1, k) /\ synced' = k
    BY DEF PowerLoss
  <1>2. synced \in Nat /\ k \in synced..Len(journal) /\ journal \in Seq(Records)
    BY DEF TypeInv, TypeOK
  <1>3. synced' >= synced /\ synced' \in Nat /\ \A i \in 1..synced : journal'[i] = journal[i]
    BY <1>1, <1>2
  <1>4. durable \subseteq durable' /\ UNCHANGED <<begun, effects, lastEffect>>
    BY DEF PowerLoss, history
  <1>5. \A p \in Procs : IntentAt(p)'
    BY DEF PowerLoss, Closed, IntentAt
  <1>. QED
    BY <1>3, <1>4, <1>5, QuietIntent

\* Admit and Effect are the steps that the invariant is about.
LEMMA AdmitIntent ==
    ASSUME TypeInv, JournalInv, IntentInv, NEW p \in Procs, Admit(p)
    PROVE  IntentInv'
  <1>0. /\ session \in [Procs -> Session] /\ Control /\ journal \in Seq(Records)
        /\ synced \in 0..Len(journal)
    BY DEF TypeInv, TypeOK
  <1>1. /\ journal' = journal /\ synced' = Len(journal) /\ durable' = durable
        /\ effects' = effects /\ lastEffect' = lastEffect
        /\ begun' = begun \union {session[p].req.id}
        /\ session[p].pc = "intending" /\ Goto(p, "admitted")
    BY DEF Admit, Sync, SyncLog, dir
  <1>2. Moves(p, "admitted")
    BY <1>0, <1>1, GotoMoves DEF Locked
  <1>3. Len(journal) >= 1 /\ journal[Len(journal)] = Record(p, "begun")
    BY <1>0, <1>1 DEF JournalInv, InTurn, Recorded, Readable
  <1>4. IntentBeforeEffect'
    BY <1>0, <1>1 DEF IntentInv, IntentBeforeEffect, RequestFile
  <1>5. ASSUME NEW id \in begun'
        PROVE  \E i \in 1..synced' : journal'[i].kind = "begun" /\ journal'[i].req.id = id
    <2>1. CASE id = session[p].req.id
      BY <1>0, <1>1, <1>3, <2>1 DEF Record
    <2>2. CASE id \in begun
      BY <1>0, <1>1, <2>2 DEF IntentInv
    <2>. QED
      BY <1>1, <1>5, <2>1, <2>2
  <1>6. ASSUME NEW q \in Procs
        PROVE  IntentAt(q)'
    <2>1. CASE q = p
      BY <1>1, <1>2, <2>1 DEF Moves, IntentAt
    <2>2. CASE q # p
      <3>1. session[q].pc \notin Locked
        BY <1>0, <1>1, <2>2, OneBeforeCut DEF Locked
      <3>. QED
        BY <1>2, <2>2, <3>1 DEF Moves, IntentAt, Locked
    <2>. QED
      BY <2>1, <2>2
  <1>7. (lastEffect \in effects \union {NoRequest})'
    BY <1>1 DEF IntentInv
  <1>. QED
    BY <1>4, <1>5, <1>6, <1>7 DEF IntentInv

\* The effect is that of the last record, which is on stable storage.
LEMMA EffectIntent ==
    ASSUME TypeInv, JournalInv, FilesInv, IntentInv, NEW p \in Procs, Effect(p)
    PROVE  IntentInv'
  <1>0. /\ session \in [Procs -> Session] /\ Control /\ journal \in Seq(Records)
        /\ synced \in 0..Len(journal)
    BY DEF TypeInv, TypeOK
  <1>1. /\ journal' = journal /\ synced' = synced /\ durable' = durable /\ begun' = begun
        /\ effects' = effects \union {session[p].req} /\ lastEffect' = session[p].req
        /\ session[p].pc = "authorized" /\ Goto(p, "admitted")
    BY DEF Effect, log, dir
  <1>2. Moves(p, "admitted")
    BY <1>0, <1>1, GotoMoves DEF Locked
  <1>3. Len(journal) >= 1 /\ journal[Len(journal)] = Record(p, "begun")
    BY <1>0, <1>1 DEF JournalInv, InTurn, Recorded, Readable
  <1>4. synced = Len(journal)
    BY <1>1 DEF IntentInv, IntentAt
  <1>5. RequestFile(session[p].req) \in durable
    <2>1. journal[Len(journal)].kind = "begun" /\ journal[Len(journal)].req = session[p].req
      BY <1>3 DEF Record
    <2>. QED
      BY <1>0, <1>3, <2>1 DEF FilesInv, EnvelopeKept
  <1>6. IntentBeforeEffect'
    <2>. SUFFICES ASSUME NEW r \in effects'
                  PROVE  /\ RequestFile(r) \in durable
                         /\ \E i \in 1..synced : journal[i].kind = "begun" /\ journal[i].req = r
      BY <1>1 DEF IntentBeforeEffect, RequestFile
    <2>1. CASE r = session[p].req
      BY <1>0, <1>3, <1>4, <1>5, <2>1 DEF Record
    <2>2. CASE r \in effects
      BY <2>2 DEF IntentInv, IntentBeforeEffect
    <2>. QED
      BY <1>1, <2>1, <2>2
  <1>7. \A q \in Procs : IntentAt(q)'
    BY <1>1, <1>2, <1>4 DEF Moves, IntentInv, IntentAt
  <1>8. /\ lastEffect' \in effects' \union {NoRequest}
        /\ \A id \in begun' : \E i \in 1..synced' :
              journal'[i].kind = "begun" /\ journal'[i].req.id = id
    BY <1>1 DEF IntentInv
  <1>. QED
    BY <1>6, <1>7, <1>8 DEF IntentInv

\* Every step keeps intents before effects.
LEMMA IntentStep ==
    ASSUME TypeInv, JournalInv, FilesInv, IntentInv, Next
    PROVE  IntentInv'
  <1>0. session \in [Procs -> Session] /\ Control /\ durable \subseteq files
    BY DEF TypeInv, TypeOK
  <1>1. ASSUME NEW p \in Procs, Step(p)
        PROVE  IntentInv'
    <2>1. CASE BeginRetry(p) \/ BeginAccept(p) \/ RepairAccept(p) \/ BeginRefuse(p)
                  \/ RepairRefuse(p)
      <3>1. /\ UNCHANGED <<journal, synced, begun, effects, lastEffect>>
            /\ durable' = files
        BY <2>1 DEF BeginRetry, BeginAccept, RepairAccept, BeginRefuse, RepairRefuse, Open,
                    log, history
      <3>2. (\E pc \in {"answered", "save", "preserve"} : Goto(p, pc)) \/ Close(p)
        BY <2>1 DEF BeginRetry, BeginAccept, RepairAccept, BeginRefuse, RepairRefuse
      <3>3. (\E pc \in {"answered", "save", "preserve"} : Moves(p, pc)) \/ Ends(p)
        BY <1>0, <3>2, GotoMoves, CloseEnds DEF Locked
      <3>. QED
        BY <1>0, <3>1, <3>3, MovesIntent DEF Moves, Ends, Closed, IntentAt
    <2>2. CASE Busy(p) \/ RefuseTruncate(p) \/ CloseAnswered(p)
      <3>1. UNCHANGED <<journal, synced, begun, effects, lastEffect, durable>> /\ Close(p)
        BY <2>2 DEF Busy, RefuseTruncate, CloseAnswered, log, dir, history
      <3>2. Ends(p)
        BY <1>0, <3>1, CloseEnds
      <3>. QED
        BY <3>1, <3>2, MovesIntent DEF Ends, Closed, IntentAt
    <2>3. CASE PreserveTail(p) \/ SyncStore(p) \/ Truncate(p)
      <3>1. UNCHANGED <<journal, synced, begun, effects, lastEffect, durable>>
        BY <2>3 DEF PreserveTail, SyncStore, Truncate, log, dir, history
      <3>2. \E pc \in {"note", "preserved", "truncated"} : Goto(p, pc)
        BY <2>3 DEF PreserveTail, SyncStore, Truncate
      <3>3. \E pc \in {"note", "preserved", "truncated"} : Moves(p, pc)
        BY <1>0, <3>2, GotoMoves DEF Locked
      <3>. QED
        BY <3>1, <3>3, MovesIntent DEF Moves, IntentAt
    <2>4. CASE NoteRepair(p) \/ SaveEnvelope(p) \/ SyncNote(p) \/ SyncEnvelope(p)
      <3>1. /\ UNCHANGED <<journal, synced, begun, effects, lastEffect>>
            /\ durable' = durable \/ durable' = files
        BY <2>4 DEF NoteRepair, SaveEnvelope, SyncNote, SyncEnvelope, Publish, SyncDirectory,
                    log, history
      <3>2. (\E pc \in {"noted", "save", "saved", "intend", "truncate"} : Goto(p, pc))
                \/ Close(p)
        BY <2>4 DEF NoteRepair, SaveEnvelope, SyncNote, SyncEnvelope, Publish, SyncDirectory,
                    AfterSave
      <3>3. (\E pc \in {"noted", "save", "saved", "intend", "truncate"} : Moves(p, pc))
                \/ Ends(p)
        BY <1>0, <3>2, GotoMoves, CloseEnds DEF Locked
      <3>. QED
        BY <1>0, <3>1, <3>3, MovesIntent DEF Moves, Ends, Closed, IntentAt
    <2>5. CASE SyncTruncate(p) \/ SyncRepairIntent(p) \/ SyncOutcome(p) \/ SyncUnknown(p)
      <3>1. /\ UNCHANGED <<journal, begun, effects, lastEffect, durable>>
            /\ synced' = Len(journal)
            /\ session[p].pc \in Locked
        BY <2>5 DEF SyncTruncate, SyncRepairIntent, SyncOutcome, SyncUnknown, Sync, SyncLog,
                    dir, Locked
      <3>2. \E pc \in {"intend", "mark", "answered"} : Goto(p, pc)
        BY <2>5 DEF SyncTruncate, SyncRepairIntent, SyncOutcome, SyncUnknown, Sync
      <3>3. \E pc \in {"intend", "mark", "answered"} : Moves(p, pc)
        BY <1>0, <3>2, GotoMoves DEF Locked
      <3>. QED
        BY <3>1, <3>3, MovesIntent DEF Moves, IntentAt
    <2>6. CASE Authorize(p)
      <3>1. /\ UNCHANGED <<journal, synced, begun, effects, lastEffect, durable>>
            /\ session[p].pc = "admitted"
        BY <2>6 DEF Authorize, log, dir, history
      <3>2. Moves(p, "authorized")
        BY <1>0, <2>6, GotoMoves DEF Authorize, Locked
      <3>. QED
        BY <3>1, <3>2, MovesIntent DEF Moves, IntentInv, IntentAt
    <2>7. CASE WriteIntent(p) \/ WriteUnknown(p) \/ Finish(p)
      BY <2>7, WriteIntentInv DEF WriteIntent, WriteUnknown, Finish, Outcomes
    <2>. QED
      BY <1>1, <2>1, <2>2, <2>3, <2>4, <2>5, <2>6, <2>7, AdmitIntent, EffectIntent DEF Step
  <1>2. ASSUME NEW p \in Procs, Start(p)
        PROVE  IntentInv'
    <2>1. PICK r \in Requests, mode \in {"begin", "repair"} : Load(p, r, mode)
      BY <1>2 DEF Start
    <2>2. /\ UNCHANGED <<journal, synced, begun, effects, lastEffect, durable>>
          /\ session'[p].pc = "loaded"
          /\ \A q \in Procs : q # p => session'[q] = session[q]
      BY <1>0, <2>1 DEF Load, log, dir, history
    <2>. QED
      BY <2>2, MovesIntent DEF IntentAt
  <1>3. ASSUME NEW p \in Procs, TearRecord(p) \/ Fail(p)
        PROVE  IntentInv'
    <2>1. UNCHANGED <<journal, synced, begun, effects, lastEffect, durable>> /\ Close(p)
      BY <1>3 DEF TearRecord, Fail, log, dir, history
    <2>2. Ends(p)
      BY <1>0, <2>1, CloseEnds
    <2>. QED
      BY <2>1, <2>2, MovesIntent DEF Ends, Closed, IntentAt
  <1>4. ASSUME UNCHANGED <<journal, synced, begun, effects, lastEffect, session>>,
               durable' = durable \/ durable' = files
        PROVE  IntentInv'
    <2>1. synced \in Nat /\ \A p \in Procs : IntentAt(p)'
      BY <1>4 DEF TypeInv, TypeOK, IntentInv, IntentAt
    <2>. QED
      BY <1>0, <1>4, <2>1, QuietIntent
  <1>5. CASE Environment
    BY <1>4, <1>5, PowerLossIntent
       DEF Environment, Observe, Tick, PolicyLapse, RotatePolicy, log, dir, history
  <1>. QED
    BY <1>1, <1>2, <1>3, <1>5 DEF Next

\* Admissions and effects are on record on stable storage.
LEMMA IntentInvariant == Spec => []IntentInv
  <1>1. Init => IntentInv
    BY DEF Init, Closed, IntentInv, IntentBeforeEffect, IntentAt
  <1>2. TypeInv /\ JournalInv /\ FilesInv /\ IntentInv /\ [Next]_vars => IntentInv'
    <2>1. TypeInv /\ IntentInv /\ UNCHANGED vars => IntentInv'
      BY DEF vars, log, dir, history, IntentInv, IntentBeforeEffect, IntentAt, RequestFile
    <2>. QED
      BY <2>1, IntentStep
  <1>. QED
    BY <1>1, <1>2, TypeInvariant, JournalInvariant, FilesInvariant, PTL DEF Spec

\* "requests.log and immutable request-ID.bin records precede effects": what
\* MC_Gate lets happen on the host is on stable storage, and stays there.
THEOREM IntentsPrecedeEffects == Spec => []IntentBeforeEffect
  <1>1. IntentInv => IntentBeforeEffect
    BY DEF IntentInv
  <1>. QED
    BY <1>1, IntentInvariant, PTL

\* The fence holds at the effect although Check is not repeated there: the
\* request of the latest effect is on record, and records are in order.
THEOREM FenceHolds == Spec => EffectsInOrder
  <1>1. /\ TypeInv /\ JournalInv /\ IntentInv /\ [Next]_vars
        => [lastEffect' # lastEffect =>
              /\ lastEffect.epoch <= lastEffect'.epoch
              /\ \/ lastEffect.token < lastEffect'.token
                 \/ /\ lastEffect.token = lastEffect'.token
                    /\ lastEffect.seq < lastEffect'.seq]_vars
    <2>. SUFFICES ASSUME TypeInv, JournalInv, IntentInv, Next, lastEffect' # lastEffect
                  PROVE  /\ lastEffect.epoch <= lastEffect'.epoch
                         /\ \/ lastEffect.token < lastEffect'.token
                            \/ /\ lastEffect.token = lastEffect'.token
                               /\ lastEffect.seq < lastEffect'.seq
      BY DEF vars, history
    <2>1. PICK p \in Procs : Effect(p)
      <3>1. ASSUME NEW p \in Procs, Step(p), ~Effect(p)
            PROVE  FALSE
        BY <3>1 DEF Step, BeginRetry, BeginAccept, BeginRefuse, RepairAccept, RepairRefuse,
                    Busy, PreserveTail, SyncStore, NoteRepair, SyncNote, SaveEnvelope,
                    SyncEnvelope, Truncate, RefuseTruncate, SyncTruncate, WriteIntent, Admit,
                    SyncRepairIntent, Authorize, Finish, SyncOutcome, WriteUnknown,
                    SyncUnknown, CloseAnswered, Open, Publish, SyncDirectory, Write, Sync,
                    history
      <3>2. ASSUME NEW p \in Procs, Start(p) \/ TearRecord(p) \/ Fail(p)
            PROVE  FALSE
        BY <3>2 DEF Start, Load, TearRecord, Fail, history
      <3>3. ~Environment
        BY DEF Environment, Observe, PowerLoss, Tick, PolicyLapse, RotatePolicy, history
      <3>. QED
        BY <3>1, <3>2, <3>3 DEF Next
    <2>2. /\ lastEffect' = session[p].req /\ session[p].pc = "authorized"
          /\ session[p].req \in Requests
      BY <2>1 DEF Effect, TypeInv, Control, Engaged
    <2>3. session[p].req \in Request
      BY <2>2, RequestsAssumption
    <2>4. /\ Len(journal) \in Nat \ {0}
          /\ journal[Len(journal)] = Record(p, "begun")
          /\ synced \in 0..Len(journal)
      BY <2>2 DEF TypeInv, TypeOK, JournalInv, InTurn, Recorded, Readable
    <2>5. CASE lastEffect = NoRequest
      BY <2>2, <2>3, <2>5 DEF NoRequest, Request
    <2>6. CASE lastEffect \in effects
      <3>1. PICK i \in 1..synced : journal[i].kind = "begun" /\ journal[i].req = lastEffect
        BY <2>6 DEF IntentInv, IntentBeforeEffect
      <3>2. i # Len(journal)
        BY <2>2, <2>4, <3>1 DEF Record
      <3>3. InOrder(journal)
        BY ForwardInOrder DEF JournalInv, Readable, TypeInv, TypeOK
      <3>4. Later(journal[i].req, journal[Len(journal)].req)
        BY <2>4, <3>1, <3>2, <3>3 DEF InOrder, Record
      <3>5. Later(lastEffect, lastEffect')
        BY <2>2, <2>4, <3>1, <3>4 DEF Record
      <3>. QED
        BY <3>5 DEF Later
    <2>. QED
      BY <2>5, <2>6 DEF IntentInv
  <1>. QED
    BY <1>1, TypeInvariant, JournalInvariant, IntentInvariant, PTL DEF Spec, EffectsInOrder

\* Whatever comes back to the receiver under an identity it has admitted, and
\* whatever was lost in between, Begin_Request does not admit it again.
THEOREM AdmittedAtMostOnce == Spec => AdmittedOnce
  <1>1. /\ TypeInv /\ JournalInv /\ FilesInv /\ IntentInv /\ [Next]_vars
        => [\A p \in Procs :
              session[p].pc \notin {"admitted", "authorized"} /\ session'[p].pc = "admitted"
                => session[p].req.id \notin begun]_vars
    <2>. SUFFICES ASSUME TypeInv, JournalInv, FilesInv, IntentInv, Next, NEW p \in Procs,
                         session[p].pc \notin {"admitted", "authorized"},
                         session'[p].pc = "admitted", session[p].req.id \in begun
                  PROVE  FALSE
      BY DEF vars
    <2>0. session \in [Procs -> Session] /\ Control
      BY DEF TypeInv, TypeOK
    <2>1. session[p].pc = "intending"
      <3>1. ASSUME NEW q \in Procs, Step(q)
            PROVE  session[p].pc = "intending"
        <4>1. CASE q # p
          BY <2>0, <3>1, <4>1, StepMoves DEF Moves, Ends
        <4>2. CASE q = p /\ Admit(p)
          BY <4>2 DEF Admit, Sync
        <4>3. CASE q = p /\ Effect(p)
          BY <4>3 DEF Effect
        <4>4. CASE q = p /\ ~Admit(p) /\ ~Effect(p)
          <5>1. \/ \E pc \in Locked \ {"admitted"} : Goto(p, pc)
                \/ Close(p)
            BY <3>1, <4>4
               DEF Step, BeginRetry, BeginAccept, BeginRefuse, RepairAccept, RepairRefuse,
                   Busy, PreserveTail, SyncStore, NoteRepair, SyncNote, SaveEnvelope,
                   SyncEnvelope, Truncate, RefuseTruncate, SyncTruncate, WriteIntent,
                   SyncRepairIntent, Authorize, Finish, SyncOutcome, WriteUnknown,
                   SyncUnknown, CloseAnswered, Publish, SyncDirectory, Write, Sync,
                   AfterSave, Locked
          <5>2. (\E pc \in Locked \ {"admitted"} : Moves(p, pc)) \/ Ends(p)
            BY <2>0, <5>1, GotoMoves, CloseEnds
          <5>. QED
            BY <5>2 DEF Moves, Ends, Closed
        <4>. QED
          BY <4>1, <4>2, <4>3, <4>4
      <3>2. ASSUME NEW q \in Procs, Start(q) \/ TearRecord(q) \/ Fail(q)
            PROVE  FALSE
        BY <2>0, <3>2 DEF Start, Load, TearRecord, Fail, Close, Closed, Session
      <3>3. ~Environment
        BY DEF Environment, Observe, PowerLoss, Closed, Tick, PolicyLapse, RotatePolicy
      <3>. QED
        BY <3>1, <3>2, <3>3 DEF Next
    <2>2. /\ synced < Len(journal) /\ journal[Len(journal)] = Record(p, "begun")
          /\ synced \in Nat /\ Len(journal) \in Nat
          /\ session[p].req \in Requests
      BY <2>0, <2>1
         DEF IntentInv, IntentAt, JournalInv, InTurn, Recorded, TypeInv, TypeOK, Control, Engaged
    <2>3. PICK i \in 1..synced : journal[i].kind = "begun" /\ journal[i].req.id = session[p].req.id
      BY DEF IntentInv
    <2>4. Later(journal[i].req, session[p].req)
      <3>1. InOrder(journal)
        BY ForwardInOrder DEF JournalInv, Readable, TypeInv, TypeOK
      <3>2. Later(journal[i].req, journal[Len(journal)].req)
        BY <2>2, <2>3, <3>1 DEF InOrder, Record
      <3>. QED
        BY <2>2, <3>2 DEF Record
    <2>5. RequestFile(journal[i].req) = RequestFile(session[p].req)
      <3>1. RequestFile(journal[i].req) \in durable
        BY <2>2, <2>3 DEF FilesInv, EnvelopeKept
      <3>2. RequestFile(session[p].req) \in durable
        <4>1. journal[Len(journal)].kind = "begun" /\ journal[Len(journal)].req = session[p].req
          BY <2>2 DEF Record
        <4>. QED
          BY <2>2, <4>1 DEF FilesInv, EnvelopeKept
      <3>3. RequestFile(journal[i].req).name = RequestFile(session[p].req).name
        BY <2>3 DEF RequestFile
      <3>. QED
        BY <3>1, <3>2, <3>3 DEF FilesInv, NamesUnique, TypeInv, TypeOK
    <2>6. journal[i].req = session[p].req
      BY <2>5 DEF RequestFile
    <2>. QED
      BY <2>2, <2>4, <2>6, RequestsAssumption DEF Later, Request
  <1>. QED
    BY <1>1, TypeInvariant, JournalInvariant, FilesInvariant, IntentInvariant, PTL
       DEF Spec, AdmittedOnce

-----------------------------------------------------------------------------
(* Turn.                                                                   *)

\* A session that was accepted while a request is unresolved recovers it.
TurnAt(p) ==
    session[p].pc \in Coming /\ Prior.pending =>
        /\ session[p].req.action \in RecoveryActions
        /\ session[p].req.work = Prior.window.work

TurnInv == OneWork /\ \A p \in Procs : TurnAt(p)

\* A step of p that writes no record.
LEMMA MovesTurn ==
    ASSUME TypeInv, TurnInv, journal' = journal, NEW p \in Procs, NEW pc, Moves(p, pc),
           pc \in Coming =>
               \/ session[p].pc \in Coming
               \/ Prior.pending => /\ session[p].req.action \in RecoveryActions
                                   /\ session[p].req.work = Prior.window.work
    PROVE  TurnInv'
  <1>1. Prior' = Prior
    BY DEF Prior, Replayed, StateAfter
  <1>2. ASSUME NEW q \in Procs
        PROVE  TurnAt(q)'
    <2>1. TurnAt(q)
      BY DEF TurnInv
    <2>. QED
      BY <1>1, <2>1 DEF Moves, TurnAt
  <1>3. OneWork'
    BY DEF TurnInv, OneWork, Unresolved
  <1>. QED
    BY <1>2, <1>3 DEF TurnInv

\* A session that ends begins nothing.
LEMMA EndsTurn ==
    ASSUME TypeInv, TurnInv, journal' = journal, NEW p \in Procs, Ends(p)
    PROVE  TurnInv'
  <1>1. Prior' = Prior
    BY DEF Prior, Replayed, StateAfter
  <1>2. ASSUME NEW q \in Procs
        PROVE  TurnAt(q)'
    <2>1. TurnAt(q)
      BY DEF TurnInv
    <2>. QED
      BY <1>1, <2>1 DEF Ends, Closed, TurnAt, Coming
  <1>3. OneWork'
    BY DEF TurnInv, OneWork, Unresolved
  <1>. QED
    BY <1>2, <1>3 DEF TurnInv

\* The record that a session writes follows what it recovers.
LEMMA WriteTurn ==
    ASSUME TypeInv, JournalInv, TurnInv, NEW p \in Procs,
           NEW kind \in {"begun"} \union Outcomes,
           NEW next \in {"intending", "finishing", "marking"}, Write(p, kind, next)
    PROVE  TurnInv'
  <1>. DEFINE n == Len(journal)
  <1>0. /\ session \in [Procs -> Session] /\ Control /\ journal \in Seq(Records)
        /\ n \in Nat \ {0}
    BY DEF TypeInv, TypeOK, JournalInv, Readable
  <1>1. journal' = Append(journal, Record(p, kind)) /\ MayWrite(p, kind)
    BY DEF Write
  <1>2. /\ Len(journal') = n + 1 /\ journal'[n + 1] = Record(p, kind)
        /\ \A i \in 1..n : journal'[i] = journal[i]
    BY <1>0, <1>1
  <1>3. Moves(p, next) /\ session[p].pc \in Locked
    BY <1>0, <1>1, GotoMoves DEF Write, MayWrite, Locked
  <1>4. OneWork'
    <2>. SUFFICES ASSUME NEW i \in 1..n, Unresolved(journal'[i]), journal'[i + 1].kind = "begun"
                  PROVE  /\ journal'[i + 1].req.action \in RecoveryActions
                         /\ journal'[i + 1].req.work = journal'[i].req.work
      BY <1>0, <1>2 DEF OneWork, Unresolved
    <2>1. CASE i < n
      <3>1. i \in 1..n - 1 /\ journal'[i] = journal[i] /\ journal'[i + 1] = journal[i + 1]
        BY <1>0, <1>2, <2>1
      <3>. QED
        BY <3>1 DEF TurnInv, OneWork
    <2>2. CASE i = n
      <3>1. kind = "begun" /\ session[p].pc \in Coming
        BY <1>1, <1>2, <2>2 DEF Record, MayWrite, Outcomes, Coming
      <3>2. Prior.pending = Unresolved(journal[n]) /\ Prior.window = journal[n].req
        BY <1>0 DEF Prior, Replayed, StateAfter
      <3>3. Unresolved(journal[n])
        BY <1>0, <1>2, <2>2
      <3>. QED
        BY <1>0, <1>2, <2>2, <3>1, <3>2, <3>3 DEF TurnInv, TurnAt, Record
    <2>. QED
      BY <1>0, <2>1, <2>2
  <1>5. ASSUME NEW q \in Procs
        PROVE  TurnAt(q)'
    <2>1. CASE q = p
      BY <1>3, <2>1 DEF Moves, TurnAt, Coming
    <2>2. CASE q # p
      <3>1. session[q].pc \notin Locked
        BY <1>0, <1>3, <2>2, OneBeforeCut
      <3>. QED
        BY <1>3, <2>2, <3>1 DEF Moves, TurnAt, Coming, Locked
    <2>. QED
      BY <2>1, <2>2
  <1>. QED
    BY <1>4, <1>5 DEF TurnInv

\* A prefix of the log hands over as the log did.
LEMMA PowerLossTurn ==
    ASSUME TypeInv, TurnInv, PowerLoss
    PROVE  TurnInv'
  <1>1. PICK k \in synced..Len(journal) : journal' = SubSeq(journal, 1, k)
    BY DEF PowerLoss
  <1>2. k \in 0..Len(journal) /\ journal \in Seq(Records)
    BY DEF TypeInv, TypeOK
  <1>3. Len(journal') = k /\ \A i \in 1..k : journal'[i] = journal[i]
    BY <1>1, <1>2
  <1>4. OneWork'
    BY <1>2, <1>3 DEF TurnInv, OneWork, Unresolved
  <1>5. \A p \in Procs : TurnAt(p)'
    BY DEF PowerLoss, Closed, TurnAt, Coming
  <1>. QED
    BY <1>4, <1>5 DEF TurnInv

\* Every step hands an unresolved request over to its recovery only.
LEMMA TurnStep ==
    ASSUME TypeInv, JournalInv, TurnInv, Next
    PROVE  TurnInv'
  <1>0. session \in [Procs -> Session] /\ Control
    BY DEF TypeInv, TypeOK
  <1>1. ASSUME NEW p \in Procs, Step(p)
        PROVE  TurnInv'
    <2>1. CASE BeginAccept(p) \/ RepairAccept(p)
      <3>1. journal' = journal
        BY <2>1 DEF BeginAccept, RepairAccept, Open, log
      <3>2. Moves(p, "save") \/ Moves(p, "preserve")
        BY <1>0, <2>1, GotoMoves DEF BeginAccept, RepairAccept, Locked
      <3>3. session[p].req.action \in RecoveryActions \/ BeginAccept(p)
        BY <1>0, <2>1 DEF RepairAccept, Open, Control, Engaged, RecoveryActions
      <3>4. Prior.pending => /\ session[p].req.action \in RecoveryActions
                             /\ session[p].req.work = Prior.window.work
        BY <2>1, <3>3 DEF BeginAccept, RepairAccept, Admissible, Repairable
      <3>. QED
        BY <3>1, <3>2, <3>4, MovesTurn
    <2>2. CASE BeginRetry(p) \/ Admit(p) \/ SyncRepairIntent(p) \/ SyncOutcome(p)
                  \/ SyncUnknown(p) \/ Authorize(p) \/ Effect(p)
      <3>1. journal' = journal
        BY <2>2 DEF BeginRetry, Open, Admit, SyncRepairIntent, SyncOutcome, SyncUnknown, Sync,
                    Authorize, Effect, log
      <3>2. \E pc \in {"answered", "admitted", "mark", "authorized"} : Goto(p, pc)
        BY <2>2 DEF BeginRetry, Admit, SyncRepairIntent, SyncOutcome, SyncUnknown, Sync,
                    Authorize, Effect
      <3>3. \E pc \in {"answered", "admitted", "mark", "authorized"} : Moves(p, pc)
        BY <1>0, <3>2, GotoMoves DEF Locked
      <3>. QED
        BY <3>1, <3>3, MovesTurn DEF Coming
    <2>3. CASE PreserveTail(p) \/ SyncStore(p) \/ NoteRepair(p) \/ SyncNote(p)
                  \/ SaveEnvelope(p) \/ SyncEnvelope(p) \/ Truncate(p) \/ SyncTruncate(p)
      <3>1. journal' = journal /\ session[p].pc \in Coming
        BY <2>3 DEF PreserveTail, SyncStore, NoteRepair, SyncNote, SaveEnvelope, SyncEnvelope,
                    Truncate, SyncTruncate, Publish, SyncDirectory, Sync, log, Coming
      <3>2. (\E pc \in Locked : Goto(p, pc)) \/ Close(p)
        BY <2>3 DEF PreserveTail, SyncStore, NoteRepair, SyncNote, SaveEnvelope, SyncEnvelope,
                    Truncate, SyncTruncate, Publish, SyncDirectory, Sync, AfterSave, Locked
      <3>3. (\E pc \in Locked : Moves(p, pc)) \/ Ends(p)
        BY <1>0, <3>2, GotoMoves, CloseEnds
      <3>. QED
        BY <3>1, <3>3, MovesTurn, EndsTurn
    <2>4. CASE BeginRefuse(p) \/ RepairRefuse(p) \/ Busy(p) \/ RefuseTruncate(p)
                  \/ CloseAnswered(p)
      <3>1. journal' = journal /\ Close(p)
        BY <2>4 DEF BeginRefuse, RepairRefuse, Busy, RefuseTruncate, CloseAnswered, Open, log
      <3>. QED
        BY <1>0, <3>1, CloseEnds, EndsTurn
    <2>5. CASE WriteIntent(p) \/ WriteUnknown(p) \/ Finish(p)
      BY <2>5, WriteTurn DEF WriteIntent, WriteUnknown, Finish, Outcomes
    <2>. QED
      BY <1>1, <2>1, <2>2, <2>3, <2>4, <2>5 DEF Step
  <1>2. ASSUME NEW p \in Procs, Start(p)
        PROVE  TurnInv'
    <2>1. PICK r \in Requests, mode \in {"begin", "repair"} : Load(p, r, mode)
      BY <1>2 DEF Start
    <2>2. /\ journal' = journal /\ session'[p].pc = "loaded"
          /\ \A q \in Procs : q # p => session'[q] = session[q]
      BY <1>0, <2>1 DEF Load, log
    <2>. QED
      BY <2>2 DEF TurnInv, OneWork, Unresolved, TurnAt, Coming, Prior, Replayed, StateAfter
  <1>3. ASSUME NEW p \in Procs, TearRecord(p) \/ Fail(p)
        PROVE  TurnInv'
    BY <1>0, <1>3, CloseEnds, EndsTurn DEF TearRecord, Fail, log
  <1>4. ASSUME UNCHANGED <<journal, session>>
        PROVE  TurnInv'
    BY <1>4 DEF TurnInv, OneWork, Unresolved, TurnAt, Prior, Replayed, StateAfter
  <1>5. CASE Environment
    BY <1>4, <1>5, PowerLossTurn
       DEF Environment, Observe, Tick, PolicyLapse, RotatePolicy, log
  <1>. QED
    BY <1>1, <1>2, <1>3, <1>5 DEF Next

\* Begin_Request and Repair_Ledger let nothing but a recovery of the same
\* transaction and plan take over a request whose outcome is not known.
THEOREM OneWorkAtATime == Spec => []OneWork
  <1>1. Init => TurnInv
    BY DEF Init, Closed, TurnInv, OneWork, TurnAt, Coming
  <1>2. TypeInv /\ JournalInv /\ TurnInv /\ [Next]_vars => TurnInv'
    <2>1. TurnInv /\ UNCHANGED vars => TurnInv'
      BY DEF vars, log, TurnInv, OneWork, Unresolved, TurnAt, Prior, Replayed, StateAfter
    <2>. QED
      BY <2>1, TurnStep
  <1>3. TurnInv => OneWork
    BY DEF TurnInv
  <1>. QED
    BY <1>1, <1>2, <1>3, TypeInvariant, JournalInvariant, PTL DEF Spec

-----------------------------------------------------------------------------
(* Room.                                                                   *)

\* Work that is not a recovery, and whose outcome is not known.
NewWork(e) == Unresolved(e) /\ e.req.action \notin RecoveryActions

\* Behind n records there is room to repair a tail t of them.
SpareFor(t, n) == t # NoTail /\ t.rec.kind # "unknown" => n + RepairRoom <= MaxRecords

\* The room that was there when the session was accepted, less what it has
\* written since, is still there.
RoomAt(p) ==
    /\ session[p].mode = "begin" =>
        /\ session[p].pc \in Coming => Fits(RoomNeeded(session[p].req))
        /\ session[p].pc \in {"intending", "admitted", "authorized"}
            => Fits(RoomNeeded(session[p].req) - 1)
    /\ session[p].mode = "repair" =>
        /\ session[p].pc \in Coming => Fits(RepairRoom)
        /\ session[p].pc \in {"intending", "mark"} => Fits(RepairRoom - 1)

\* What was written left room behind it: new work for a recovery and a repair,
\* every record but an Unknown mark for one more.  So it was before a power
\* loss, and so it is of any record the power loss may tear.
RoomLeft(j) ==
    /\ \A i \in 1..Len(j) : NewWork(j[i]) => i + RecoveryRoom + RepairRoom <= MaxRecords
    /\ \A i \in 2..Len(j) : j[i].kind # "unknown" => i + 1 <= MaxRecords

RoomInv ==
    /\ \A p \in Procs : RoomAt(p)
    /\ RoomLeft(journal)
    /\ SpareFor(tail, Len(journal))
    /\ lostTail # NoTail => SpareFor(lostTail.tail, lostTail.at)

\* A step that leaves the log alone, and the sessions within their room.
LEMMA QuietRoom ==
    ASSUME RoomInv, UNCHANGED log, \A p \in Procs : RoomAt(p)'
    PROVE  RoomInv'
  BY DEF RoomInv, RoomLeft, NewWork, Unresolved, SpareFor, log

\* A session that moves on within the room it was accepted with, and writes
\* no record.
LEMMA MovesRoom ==
    ASSUME TypeInv, RoomInv, journal' = journal, NEW p \in Procs, NEW pc, Moves(p, pc),
           pc \in Coming =>
               \/ session[p].pc \in Coming
               \/ session[p].mode = "begin" /\ Fits(RoomNeeded(session[p].req))
               \/ session[p].mode = "repair" /\ Fits(RepairRoom),
           pc \in Recorded => session[p].pc \in Recorded
    PROVE  \A q \in Procs : RoomAt(q)'
  <1>1. ASSUME NEW n PROVE Fits(n)' <=> Fits(n)
    BY DEF Fits
  <1>2. ASSUME NEW q \in Procs
        PROVE  RoomAt(q)'
    <2>0. RoomAt(q) /\ Engaged
      BY DEF RoomInv, TypeInv, Control
    <2>1. CASE q = p
      <3>1. /\ session'[p].pc = pc /\ session'[p].mode = session[p].mode
            /\ session'[p].req = session[p].req
        BY DEF Moves
      <3>2. pc \in Coming => session[p].pc \in Coming \/ Fits(RoomNeeded(session[p].req))
                                \/ session[p].mode = "repair"
        OBVIOUS
      <3>3. session[p].pc = "mark" => session[p].mode = "repair"
        BY <2>0 DEF Engaged, Repairing
      <3>4. session[p].pc \in {"admitted", "authorized"} => session[p].mode = "begin"
        BY <2>0 DEF Engaged, Admitted
      <3>. QED
        BY <1>1, <2>0, <2>1, <3>1, <3>3, <3>4 DEF RoomAt, Recorded, Coming, RoomNeeded
    <2>2. CASE q # p
      <3>1. session'[q] = session[q]
        BY <2>2 DEF Moves
      <3>. QED
        BY <1>1, <2>0, <3>1 DEF RoomAt, RoomNeeded
    <2>. QED
      BY <2>1, <2>2
  <1>. QED
    BY <1>2

\* A session that ends needs no room.
LEMMA EndsRoom ==
    ASSUME TypeInv, RoomInv, journal' = journal, NEW p \in Procs, Ends(p)
    PROVE  \A q \in Procs : RoomAt(q)'
  <1>1. \A q \in Procs : RoomAt(q)
    BY DEF RoomInv
  <1>2. RoomAt(p)'
    BY DEF Ends, Closed, RoomAt, Coming
  <1>3. ASSUME NEW q \in Procs, q # p
        PROVE  RoomAt(q)'
    BY <1>1, <1>3 DEF Ends, RoomAt, RoomNeeded, Fits
  <1>. QED
    BY <1>2, <1>3

\* How much room there is where a record may be written, and after it.
LEMMA WriteAtRoom ==
    ASSUME TypeInv, JournalInv, RoomInv, NEW p \in Procs,
           NEW kind \in {"begun"} \union Outcomes, MayWrite(p, kind)
    PROVE  /\ kind # "unknown" => Fits(RepairRoom)
           /\ NewWork(Record(p, kind)) => Fits(1 + RecoveryRoom + RepairRoom)
           /\ kind = "begun" /\ session[p].mode = "begin" => Fits(RoomNeeded(session[p].req))
           /\ kind = "begun" /\ session[p].mode = "repair" => Fits(RepairRoom)
           /\ session[p].req \in Requests
  <1>0. RoomAt(p) /\ Control /\ session \in [Procs -> Session] /\ Len(journal) \in Nat
    BY DEF RoomInv, TypeInv, TypeOK
  <1>1. /\ session[p].mode \in {"begin", "repair"}
        /\ session[p].req \in Requests
        /\ session[p].mode = "repair" => session[p].req.action \in RecoveryActions
        /\ session[p].pc = "mark" => session[p].mode = "repair"
        /\ session[p].pc \in {"admitted", "authorized"} => session[p].mode = "begin"
    BY <1>0 DEF MayWrite, Control, Engaged, Session, Repairing, Admitted, RecoveryActions
  <1>2. NewWork(Record(p, kind)) => session[p].req.action \notin RecoveryActions
    BY DEF NewWork, Record
  <1>3. MaxRecords \in Nat
    BY BoundsAssumption
  <1>4. CASE session[p].pc = "intend"
    <2>1. kind = "begun"
      BY <1>4 DEF MayWrite, Outcomes
    <2>. QED
      BY <1>0, <1>1, <1>2, <1>3, <1>4, <2>1
         DEF RoomAt, Coming, RoomNeeded, Fits, OrdinaryRoom, RecoveryRoom, RepairRoom
  <1>5. CASE session[p].pc \in {"admitted", "authorized"}
    <2>1. kind # "begun"
      BY <1>5 DEF MayWrite, Outcomes
    <2>. QED
      BY <1>0, <1>1, <1>2, <1>3, <1>5, <2>1
         DEF RoomAt, Coming, RoomNeeded, Fits, OrdinaryRoom, RecoveryRoom, RepairRoom
  <1>6. CASE session[p].pc = "mark" /\ kind = "unknown"
    BY <1>1, <1>2, <1>6
  <1>. QED
    BY <1>4, <1>5, <1>6 DEF MayWrite

\* A record that a session writes leaves the room that is asked of it.
LEMMA WriteRoom ==
    ASSUME TypeInv, JournalInv, RoomInv, NEW p \in Procs,
           NEW kind \in {"begun"} \union Outcomes, NEW next, Write(p, kind, next),
           (next = "intending" /\ kind = "begun") \/ next \in {"finishing", "marking"}
    PROVE  RoomInv'
  <1>. DEFINE n == Len(journal)
  <1>0. /\ session \in [Procs -> Session] /\ Control /\ journal \in Seq(Records)
        /\ n \in Nat \ {0} /\ MaxRecords \in Nat
    BY BoundsAssumption DEF TypeInv, TypeOK, JournalInv, Readable
  <1>1. /\ journal' = Append(journal, Record(p, kind)) /\ MayWrite(p, kind)
        /\ tail = NoTail /\ tail' = tail /\ lostTail' = lostTail
    BY DEF Write, MayWrite
  <1>2. /\ Len(journal') = n + 1 /\ journal'[n + 1] = Record(p, kind)
        /\ \A i \in 1..n : journal'[i] = journal[i]
    BY <1>0, <1>1
  <1>3. Moves(p, next) /\ session[p].pc \in Locked
    BY <1>0, <1>1, GotoMoves DEF Write, MayWrite, Locked
  <1>4. /\ kind # "unknown" => n + RepairRoom <= MaxRecords
        /\ NewWork(Record(p, kind)) => n + 1 + RecoveryRoom + RepairRoom <= MaxRecords
        /\ kind = "begun" /\ session[p].mode = "begin" => Fits(RoomNeeded(session[p].req))
        /\ kind = "begun" /\ session[p].mode = "repair" => Fits(RepairRoom)
    BY <1>0, <1>1, WriteAtRoom DEF Fits, RepairRoom, RecoveryRoom
  <1>5. RoomLeft(journal')
    <2>1. ASSUME NEW i \in 1..(n + 1), NewWork(journal'[i])
          PROVE  i + RecoveryRoom + RepairRoom <= MaxRecords
      BY <1>0, <1>2, <1>4, <2>1 DEF RoomInv, RoomLeft
    <2>2. ASSUME NEW i \in 2..(n + 1), journal'[i].kind # "unknown"
          PROVE  i + 1 <= MaxRecords
      BY <1>0, <1>2, <1>4, <2>2 DEF RoomInv, RoomLeft, Record, RepairRoom
    <2>. QED
      BY <1>2, <2>1, <2>2 DEF RoomLeft
  <1>6. ASSUME NEW q \in Procs
        PROVE  RoomAt(q)'
    <2>1. CASE q = p
      <3>1. /\ session'[p].pc = next /\ session'[p].mode = session[p].mode
            /\ session'[p].req = session[p].req
        BY <1>3 DEF Moves
      <3>. QED
        BY <1>0, <1>2, <1>4, <2>1, <3>1
           DEF RoomAt, Coming, RoomNeeded, Fits, OrdinaryRoom, RecoveryRoom, RepairRoom
    <2>2. CASE q # p
      <3>1. session[q].pc \notin Locked /\ session'[q] = session[q]
        BY <1>0, <1>3, <2>2, OneBeforeCut DEF Moves
      <3>. QED
        BY <3>1 DEF RoomAt, Coming, Locked
    <2>. QED
      BY <2>1, <2>2
  <1>7. SpareFor(tail, Len(journal))' /\ (lostTail # NoTail => SpareFor(lostTail.tail, lostTail.at))'
    BY <1>1 DEF RoomInv, SpareFor
  <1>. QED
    BY <1>2, <1>5, <1>6, <1>7 DEF RoomInv

\* A record that is torn instead leaves room to repair it.
LEMMA TearRoom ==
    ASSUME TypeInv, JournalInv, RoomInv, NEW p \in Procs, TearRecord(p)
    PROVE  RoomInv'
  <1>1. PICK kind \in {"begun"} \union Outcomes, part \in Parts :
           MayWrite(p, kind) /\ tail' = [rec |-> Record(p, kind), part |-> part]
    BY DEF TearRecord
  <1>2. journal' = journal /\ lostTail' = lostTail /\ Ends(p)
    BY CloseEnds DEF TearRecord, TypeInv, TypeOK
  <1>3. kind # "unknown" => Fits(RepairRoom)
    BY <1>1, WriteAtRoom
  <1>4. SpareFor(tail, Len(journal))'
    BY <1>1, <1>2, <1>3 DEF SpareFor, Fits, Record
  <1>5. \A q \in Procs : RoomAt(q)'
    BY <1>2, EndsRoom
  <1>. QED
    BY <1>2, <1>4, <1>5 DEF RoomInv, RoomLeft, NewWork, Unresolved, SpareFor

\* A prefix of the log, and whatever the power loss leaves behind it, have the
\* room they had.
LEMMA PowerLossRoom ==
    ASSUME TypeInv, JournalInv, RoomInv, PowerLoss
    PROVE  RoomInv'
  <1>0. journal \in Seq(Records) /\ MaxRecords \in Nat
    BY BoundsAssumption DEF TypeInv, TypeOK
  <1>1. PICK k \in synced..Len(journal) :
           journal' = SubSeq(journal, 1, k) /\ tail' \in TailsAfter(k)
    BY DEF PowerLoss
  <1>2. k \in Nat /\ k >= 1 /\ k <= Len(journal) /\ Len(journal) \in Nat
    BY <1>0 DEF TypeInv, TypeOK, JournalInv
  <1>3. Len(journal') = k /\ \A i \in 1..k : journal'[i] = journal[i]
    BY <1>0, <1>1, <1>2
  <1>4. RoomLeft(journal')
    BY <1>0, <1>2, <1>3 DEF RoomInv, RoomLeft
  <1>5. SpareFor(tail', k)
    <2>. SUFFICES ASSUME tail' # NoTail, tail'.rec.kind # "unknown"
                  PROVE  k + RepairRoom <= MaxRecords
      BY DEF SpareFor
    <2>1. CASE k < Len(journal) /\ \E part \in Parts : tail' = [rec |-> journal[k + 1], part |-> part]
      <3>1. k + 1 \in 2..Len(journal) /\ journal[k + 1].kind # "unknown"
        BY <1>2, <2>1
      <3>2. (k + 1) + 1 <= MaxRecords
        BY <3>1 DEF RoomInv, RoomLeft
      <3>. QED
        BY <1>0, <1>2, <3>2 DEF RepairRoom
    <2>2. CASE k = Len(journal) /\ tail # NoTail
                  /\ \E part \in Parts : tail' = [rec |-> tail.rec, part |-> part]
      BY <2>2 DEF RoomInv, SpareFor
    <2>3. CASE lostTail # NoTail /\ lostTail.at = k /\ tail' = lostTail.tail
      BY <2>3 DEF RoomInv, SpareFor
    <2>. QED
      BY <1>1, <2>1, <2>2, <2>3 DEF TailsAfter
  <1>6. \A p \in Procs : RoomAt(p)'
    BY DEF PowerLoss, Closed, RoomAt, Coming
  <1>7. lostTail' = NoTail
    BY DEF PowerLoss
  <1>. QED
    BY <1>3, <1>4, <1>5, <1>6, <1>7 DEF RoomInv

\* Every step keeps the room.
LEMMA RoomStep ==
    ASSUME TypeInv, JournalInv, RoomInv, Next
    PROVE  RoomInv'
  <1>0. session \in [Procs -> Session] /\ Control
    BY DEF TypeInv, TypeOK
  <1>1. ASSUME NEW p \in Procs, Step(p)
        PROVE  RoomInv'
    <2>1. CASE BeginAccept(p) \/ RepairAccept(p)
      <3>1. UNCHANGED log
        BY <2>1 DEF BeginAccept, RepairAccept, Open
      <3>2. \/ Moves(p, "save") /\ session[p].mode = "begin" /\ Fits(RoomNeeded(session[p].req))
            \/ Moves(p, "preserve") /\ session[p].mode = "repair" /\ Fits(RepairRoom)
        BY <1>0, <2>1, GotoMoves
           DEF BeginAccept, RepairAccept, Open, Admissible, Repairable, Locked
      <3>3. \A q \in Procs : RoomAt(q)'
        BY <3>1, <3>2, MovesRoom DEF log, Coming, Recorded
      <3>. QED
        BY <3>1, <3>3, QuietRoom
    <2>2. CASE BeginRetry(p) \/ Authorize(p) \/ Effect(p)
      <3>1. UNCHANGED log
        BY <2>2 DEF BeginRetry, Open, Authorize, Effect
      <3>2. \/ Goto(p, "answered")
            \/ (Goto(p, "admitted") \/ Goto(p, "authorized")) /\ session[p].pc \in Recorded
        BY <2>2 DEF BeginRetry, Authorize, Effect, Recorded
      <3>3. \/ Moves(p, "answered")
            \/ (Moves(p, "admitted") \/ Moves(p, "authorized")) /\ session[p].pc \in Recorded
        BY <1>0, <3>2, GotoMoves DEF Locked
      <3>4. \A q \in Procs : RoomAt(q)'
        BY <3>1, <3>3, MovesRoom DEF log, Coming, Recorded
      <3>. QED
        BY <3>1, <3>4, QuietRoom
    <2>3. CASE PreserveTail(p) \/ SyncStore(p) \/ NoteRepair(p) \/ SyncNote(p)
                  \/ SaveEnvelope(p) \/ SyncEnvelope(p)
      <3>1. UNCHANGED log /\ session[p].pc \in Coming
        BY <2>3 DEF PreserveTail, SyncStore, NoteRepair, SyncNote, SaveEnvelope, SyncEnvelope,
                    Publish, SyncDirectory, Coming
      <3>2. (\E pc \in Coming : Goto(p, pc)) \/ Close(p)
        BY <2>3 DEF PreserveTail, SyncStore, NoteRepair, SyncNote, SaveEnvelope, SyncEnvelope,
                    Publish, SyncDirectory, AfterSave, Coming
      <3>3. (\E pc \in Coming : Moves(p, pc)) \/ Ends(p)
        BY <1>0, <3>2, GotoMoves, CloseEnds DEF Coming, Locked
      <3>4. \A pc \in Coming : pc \notin Recorded
        BY DEF Coming, Recorded
      <3>5. \A q \in Procs : RoomAt(q)'
        BY <3>1, <3>3, <3>4, MovesRoom, EndsRoom DEF log
      <3>. QED
        BY <3>1, <3>5, QuietRoom
    <2>4. CASE Truncate(p)
      <3>1. Moves(p, "truncated") /\ session[p].pc \in Coming
        BY <1>0, <2>4, GotoMoves DEF Truncate, Locked, Coming
      <3>2. /\ journal' = journal /\ tail' = NoTail
            /\ lostTail' = [at |-> Len(journal), tail |-> tail]
        BY <2>4 DEF Truncate
      <3>3. \A q \in Procs : RoomAt(q)'
        BY <3>1, <3>2, MovesRoom DEF Recorded
      <3>. QED
        BY <3>2, <3>3 DEF RoomInv, RoomLeft, NewWork, Unresolved, SpareFor
    <2>5. CASE SyncTruncate(p) \/ Admit(p) \/ SyncRepairIntent(p) \/ SyncOutcome(p)
                  \/ SyncUnknown(p)
      <3>1. journal' = journal /\ tail' = tail /\ lostTail' = NoTail
        BY <2>5 DEF SyncTruncate, Admit, SyncRepairIntent, SyncOutcome, SyncUnknown, Sync,
                    SyncLog
      <3>2. \/ Goto(p, "answered")
            \/ Goto(p, "intend") /\ session[p].pc \in Coming
            \/ (Goto(p, "admitted") \/ Goto(p, "mark")) /\ session[p].pc \in Recorded
        BY <2>5 DEF SyncTruncate, Admit, SyncRepairIntent, SyncOutcome, SyncUnknown, Sync,
                    Coming, Recorded
      <3>3. \/ Moves(p, "answered")
            \/ Moves(p, "intend") /\ session[p].pc \in Coming
            \/ (Moves(p, "admitted") \/ Moves(p, "mark")) /\ session[p].pc \in Recorded
        BY <1>0, <3>2, GotoMoves DEF Locked
      <3>4. \A q \in Procs : RoomAt(q)'
        BY <3>1, <3>3, MovesRoom DEF Coming, Recorded
      <3>. QED
        BY <3>1, <3>4 DEF RoomInv, RoomLeft, NewWork, Unresolved, SpareFor
    <2>6. CASE BeginRefuse(p) \/ RepairRefuse(p) \/ Busy(p) \/ RefuseTruncate(p)
                  \/ CloseAnswered(p)
      <3>1. UNCHANGED log /\ Close(p)
        BY <2>6 DEF BeginRefuse, RepairRefuse, Busy, RefuseTruncate, CloseAnswered, Open
      <3>2. \A q \in Procs : RoomAt(q)'
        BY <1>0, <3>1, CloseEnds, EndsRoom DEF log
      <3>. QED
        BY <3>1, <3>2, QuietRoom
    <2>7. CASE WriteIntent(p) \/ WriteUnknown(p) \/ Finish(p)
      BY <2>7, WriteRoom DEF WriteIntent, WriteUnknown, Finish, Outcomes
    <2>. QED
      BY <1>1, <2>1, <2>2, <2>3, <2>4, <2>5, <2>6, <2>7 DEF Step
  <1>2. ASSUME NEW p \in Procs, Start(p)
        PROVE  RoomInv'
    <2>1. PICK r \in Requests, mode \in {"begin", "repair"} : Load(p, r, mode)
      BY <1>2 DEF Start
    <2>2. /\ UNCHANGED log /\ session'[p].pc = "loaded"
          /\ \A q \in Procs : q # p => session'[q] = session[q]
      BY <1>0, <2>1 DEF Load
    <2>3. \A q \in Procs : RoomAt(q)'
      BY <2>2 DEF RoomInv, RoomAt, Coming, RoomNeeded, Fits, log
    <2>. QED
      BY <2>2, <2>3, QuietRoom
  <1>3. ASSUME NEW p \in Procs, Fail(p)
        PROVE  RoomInv'
    <2>1. UNCHANGED log /\ Ends(p)
      BY <1>0, <1>3, CloseEnds DEF Fail
    <2>. QED
      BY <2>1, EndsRoom, QuietRoom DEF log
  <1>4. ASSUME UNCHANGED <<log, session>>
        PROVE  RoomInv'
    <2>1. \A q \in Procs : RoomAt(q)'
      BY <1>4 DEF RoomInv, RoomAt, RoomNeeded, Fits, log
    <2>. QED
      BY <1>4, <2>1, QuietRoom
  <1>5. CASE Environment
    BY <1>4, <1>5, PowerLossRoom
       DEF Environment, Observe, Tick, PolicyLapse, RotatePolicy
  <1>. QED
    BY <1>1, <1>2, <1>3, <1>5, TearRoom DEF Next

\* The bounds of Begin_Request and Repair_Ledger on the room of the log are
\* enough, for every capacity of it: whoever is to write a record finds room,
\* and behind new work whose outcome is not known, and behind a torn record,
\* there is room left to recover and to repair.
THEOREM RoomAlwaysKept == Spec => []RoomKept
  <1>1. Init => RoomInv
    <2>. SUFFICES ASSUME Init PROVE RoomInv
      OBVIOUS
    <2>1. Len(journal) = 1 /\ journal[1].kind = "genesis" /\ tail = NoTail /\ lostTail = NoTail
      BY DEF Init, Genesis
    <2>2. \A p \in Procs : RoomAt(p)
      BY DEF Init, Closed, RoomAt, Coming
    <2>. QED
      BY <2>1, <2>2 DEF RoomInv, RoomLeft, NewWork, Unresolved, SpareFor
  <1>2. TypeInv /\ JournalInv /\ RoomInv /\ [Next]_vars => RoomInv'
    <2>1. ASSUME RoomInv, UNCHANGED vars PROVE RoomInv'
      <3>1. UNCHANGED log /\ session' = session
        BY <2>1 DEF vars
      <3>2. \A q \in Procs : RoomAt(q)'
        BY <2>1, <3>1 DEF RoomInv, RoomAt, RoomNeeded, Fits, log
      <3>. QED
        BY <2>1, <3>1, <3>2, QuietRoom
    <2>. QED
      BY <2>1, RoomStep
  <1>3. TypeInv /\ JournalInv /\ RoomInv => RoomKept
    <2>. SUFFICES ASSUME TypeInv, JournalInv, RoomInv PROVE RoomKept
      OBVIOUS
    <2>0. /\ Len(journal) \in Nat \ {0} /\ MaxRecords \in Nat
          /\ session \in [Procs -> Session] /\ Control
      BY BoundsAssumption DEF TypeInv, TypeOK, JournalInv, Readable
    <2>1. CompletionRoom
      <3>. SUFFICES ASSUME NEW p \in Procs,
                           session[p].pc \in {"intend", "admitted", "authorized", "mark"}
                    PROVE  Fits(1)
        BY DEF CompletionRoom
      <3>1. /\ RoomAt(p) /\ session[p].mode \in {"begin", "repair"}
            /\ session[p].pc = "mark" => session[p].mode = "repair"
            /\ session[p].pc \in {"admitted", "authorized"} => session[p].mode = "begin"
        BY <2>0 DEF RoomInv, Session, Control, Engaged, Repairing, Admitted
      <3>. QED
        BY <2>0, <3>1
           DEF RoomAt, Coming, RoomNeeded, Fits, OrdinaryRoom, RecoveryRoom, RepairRoom
    <2>2. RoomRetained
      <3>1. Prior.window = journal[Len(journal)].req /\ Prior.pending = Unresolved(journal[Len(journal)])
        BY <2>0 DEF Prior, Replayed, StateAfter
      <3>2. NewWork(journal[Len(journal)]) => Len(journal) + RecoveryRoom + RepairRoom <= MaxRecords
        BY <2>0 DEF RoomInv, RoomLeft
      <3>3. Prior.pending /\ Prior.window.action \notin RecoveryActions
                => Fits(RecoveryRoom + RepairRoom)
        BY <2>0, <3>1, <3>2 DEF NewWork, Fits, RecoveryRoom, RepairRoom
      <3>4. tail # NoTail /\ tail.rec.kind # "unknown" => Fits(RepairRoom)
        BY DEF RoomInv, SpareFor, Fits
      <3>. QED
        BY <3>3, <3>4 DEF RoomRetained
    <2>. QED
      BY <2>1, <2>2 DEF RoomKept
  <1>. QED
    BY <1>1, <1>2, <1>3, TypeInvariant, JournalInvariant, PTL DEF Spec

-----------------------------------------------------------------------------
(* Evidence.                                                               *)

\* What a repair has put in place before it cuts the tail off.
EvidenceAt(p) ==
    /\ session[p].pc \in {"preserved", "note", "noted", "truncate"} => tail \in objects
    /\ session[p].pc \in {"save", "saved"} /\ session[p].mode = "repair" => tail \in objects
    /\ session[p].pc = "noted" => RepairFile(session[p].req) \in files
    /\ session[p].pc = "truncate" => RepairFile(session[p].req) \in durable
    /\ session[p].pc \in {"save", "saved"} /\ session[p].mode = "repair"
        => RepairFile(session[p].req) \in durable

EvidenceInv == \A p \in Procs : EvidenceAt(p)

\* A step of p that leaves the log alone.
LEMMA QuietEvidence ==
    ASSUME TypeInv, EvidenceInv, UNCHANGED <<journal, tail>>, objects \subseteq objects',
           files \subseteq files', durable \subseteq durable',
           NEW p \in Procs, \A q \in Procs : q # p => session'[q] = session[q],
           EvidenceAt(p)'
    PROVE  EvidenceInv'
  <1>1. ASSUME NEW q \in Procs, q # p
        PROVE  EvidenceAt(q)'
    <2>1. EvidenceAt(q) /\ session'[q] = session[q]
      BY <1>1 DEF EvidenceInv
    <2>. QED
      BY <2>1 DEF EvidenceAt, RepairFile
  <1>. QED
    BY <1>1 DEF EvidenceInv

\* A step of the session with the flock to where it needs no evidence.
LEMMA LoudEvidence ==
    ASSUME TypeInv, NEW p \in Procs, session[p].pc \in Locked,
           \A q \in Procs : q # p => session'[q] = session[q],
           session'[p].pc \notin {"preserved", "note", "noted", "truncate", "save", "saved"}
    PROVE  EvidenceInv'
  <1>1. ASSUME NEW q \in Procs, q # p
        PROVE  EvidenceAt(q)'
    <2>1. session[q].pc \notin Locked
      BY <1>1, OneBeforeCut DEF TypeInv
    <2>. QED
      BY <1>1, <2>1 DEF EvidenceAt, Locked
  <1>2. EvidenceAt(p)'
    BY DEF EvidenceAt
  <1>. QED
    BY <1>1, <1>2 DEF EvidenceInv

\* Every step keeps the evidence of a repair that is under way.
LEMMA EvidenceStep ==
    ASSUME TypeInv, FilesInv, EvidenceInv, Next
    PROVE  EvidenceInv'
  <1>0. session \in [Procs -> Session] /\ Control /\ durable \subseteq files
    BY DEF TypeInv, TypeOK
  <1>1. ASSUME NEW p \in Procs, Step(p)
        PROVE  EvidenceInv'
    <2>0. EvidenceAt(p) /\ FilesAt(p)
      BY DEF EvidenceInv, FilesInv
    <2>1. CASE BeginRetry(p) \/ BeginAccept(p) \/ RepairAccept(p) \/ BeginRefuse(p)
                  \/ RepairRefuse(p)
      <3>1. UNCHANGED <<journal, tail, objects, files>> /\ durable' = files
        BY <2>1 DEF BeginRetry, BeginAccept, RepairAccept, BeginRefuse, RepairRefuse, Open,
                    log, cas
      <3>2. \/ Moves(p, "answered") \/ Moves(p, "preserve") \/ Ends(p)
            \/ Moves(p, "save") /\ session[p].mode = "begin"
        BY <1>0, <2>1, GotoMoves, CloseEnds
           DEF BeginRetry, BeginAccept, RepairAccept, BeginRefuse, RepairRefuse, Open, Locked
      <3>3. EvidenceAt(p)'
        BY <3>2 DEF Moves, Ends, Closed, EvidenceAt
      <3>. QED
        BY <1>0, <3>1, <3>2, <3>3, QuietEvidence DEF Moves, Ends
    <2>2. CASE Busy(p) \/ RefuseTruncate(p) \/ CloseAnswered(p)
      <3>1. UNCHANGED <<journal, tail, objects, files, durable>> /\ Close(p)
        BY <2>2 DEF Busy, RefuseTruncate, CloseAnswered, log, dir, cas
      <3>2. Ends(p)
        BY <1>0, <3>1, CloseEnds
      <3>3. EvidenceAt(p)'
        BY <3>2 DEF Ends, Closed, EvidenceAt
      <3>. QED
        BY <3>1, <3>2, <3>3, QuietEvidence DEF Ends
    <2>3. CASE PreserveTail(p) \/ SyncStore(p)
      <3>1. /\ UNCHANGED <<journal, tail, files, durable>>
            /\ objects \subseteq objects' /\ tail \in objects'
        BY <2>0, <2>3 DEF PreserveTail, SyncStore, log, dir, EvidenceAt
      <3>2. Goto(p, "note") \/ Goto(p, "preserved")
        BY <2>3 DEF PreserveTail, SyncStore
      <3>3. Moves(p, "note") \/ Moves(p, "preserved")
        BY <1>0, <3>2, GotoMoves DEF Locked
      <3>4. EvidenceAt(p)'
        BY <3>1, <3>3 DEF Moves, EvidenceAt
      <3>. QED
        BY <3>1, <3>3, <3>4, QuietEvidence DEF Moves
    <2>4. CASE NoteRepair(p)
      <3>1. /\ UNCHANGED <<journal, tail, objects, durable>> /\ files \subseteq files'
            /\ session[p].pc = "note"
        BY <2>4 DEF NoteRepair, Publish, log, cas
      <3>2. \/ Goto(p, "noted") /\ RepairFile(session[p].req) \in files'
            \/ Goto(p, "save") /\ RepairFile(session[p].req) \in files
            \/ Close(p)
        BY <2>4 DEF NoteRepair, Publish
      <3>3. \/ Moves(p, "noted") /\ RepairFile(session[p].req) \in files'
            \/ Moves(p, "save") /\ RepairFile(session[p].req) \in files
            \/ Ends(p)
        BY <1>0, <3>2, GotoMoves, CloseEnds DEF Locked
      <3>4. tail \in objects /\ durable = files
        BY <2>0, <3>1 DEF EvidenceAt, FilesAt
      <3>5. EvidenceAt(p)'
        BY <3>1, <3>3, <3>4 DEF Moves, Ends, Closed, EvidenceAt, RepairFile
      <3>. QED
        BY <3>1, <3>3, <3>5, QuietEvidence DEF Moves, Ends
    <2>5. CASE SyncNote(p)
      <3>1. /\ UNCHANGED <<journal, tail, objects, files>> /\ durable' = files
            /\ session[p].pc = "noted"
        BY <2>5 DEF SyncNote, SyncDirectory, log, cas
      <3>2. Moves(p, "save")
        BY <1>0, <2>5, GotoMoves DEF SyncNote, SyncDirectory, Locked
      <3>3. EvidenceAt(p)'
        BY <2>0, <3>1, <3>2 DEF Moves, EvidenceAt, RepairFile
      <3>. QED
        BY <1>0, <3>1, <3>2, <3>3, QuietEvidence DEF Moves
    <2>6. CASE SaveEnvelope(p) \/ SyncEnvelope(p)
      <3>1. /\ UNCHANGED <<journal, tail, objects>> /\ files \subseteq files'
            /\ durable \subseteq durable' /\ session[p].pc \in {"save", "saved"}
        BY <1>0, <2>6 DEF SaveEnvelope, SyncEnvelope, Publish, SyncDirectory, log, cas
      <3>2. \/ Goto(p, "saved") \/ Close(p)
            \/ Goto(p, "intend")
            \/ Goto(p, "truncate") /\ session[p].mode = "repair"
        BY <1>0, <2>6 DEF SaveEnvelope, SyncEnvelope, Publish, SyncDirectory, AfterSave, Session
      <3>3. \/ Moves(p, "saved") \/ Ends(p)
            \/ Moves(p, "intend")
            \/ Moves(p, "truncate") /\ session[p].mode = "repair"
        BY <1>0, <3>2, GotoMoves, CloseEnds DEF Locked
      <3>4. session[p].mode = "repair"
                => tail \in objects /\ RepairFile(session[p].req) \in durable
        BY <2>0, <3>1 DEF EvidenceAt
      <3>5. EvidenceAt(p)'
        BY <3>1, <3>3, <3>4 DEF Moves, Ends, Closed, EvidenceAt, RepairFile
      <3>. QED
        BY <3>1, <3>3, <3>5, QuietEvidence DEF Moves, Ends
    <2>7. CASE Truncate(p) \/ SyncTruncate(p) \/ WriteIntent(p) \/ Admit(p)
                  \/ SyncRepairIntent(p) \/ Authorize(p) \/ Effect(p) \/ Finish(p)
                  \/ SyncOutcome(p) \/ WriteUnknown(p) \/ SyncUnknown(p)
      <3>1. session[p].pc \in Locked
        BY <2>7 DEF Truncate, SyncTruncate, WriteIntent, Admit, SyncRepairIntent, Authorize,
                    Effect, Finish, SyncOutcome, WriteUnknown, SyncUnknown, Write, MayWrite,
                    Sync, Locked
      <3>2. \E pc \in {"truncated", "intend", "intending", "admitted", "mark", "authorized",
                        "finishing", "answered", "marking"} : Goto(p, pc)
        BY <2>7 DEF Truncate, SyncTruncate, WriteIntent, Admit, SyncRepairIntent, Authorize,
                    Effect, Finish, SyncOutcome, WriteUnknown, SyncUnknown, Write, Sync
      <3>3. \E pc \in {"truncated", "intend", "intending", "admitted", "mark", "authorized",
                        "finishing", "answered", "marking"} : Moves(p, pc)
        BY <1>0, <3>2, GotoMoves DEF Locked
      <3>. QED
        BY <3>1, <3>3, LoudEvidence DEF Moves
    <2>. QED
      BY <1>1, <2>1, <2>2, <2>3, <2>4, <2>5, <2>6, <2>7 DEF Step
  <1>2. ASSUME NEW p \in Procs, Start(p)
        PROVE  EvidenceInv'
    <2>1. PICK r \in Requests, mode \in {"begin", "repair"} : Load(p, r, mode)
      BY <1>2 DEF Start
    <2>2. /\ UNCHANGED <<journal, tail, objects, files, durable>>
          /\ session'[p].pc = "loaded"
          /\ \A q \in Procs : q # p => session'[q] = session[q]
      BY <1>0, <2>1 DEF Load, log, dir, cas
    <2>3. EvidenceAt(p)'
      BY <2>2 DEF EvidenceAt
    <2>. QED
      BY <2>2, <2>3, QuietEvidence
  <1>3. ASSUME NEW p \in Procs, TearRecord(p) \/ Fail(p)
        PROVE  EvidenceInv'
    <2>1. Ends(p) /\ session[p].pc \in Locked
      BY <1>0, <1>3, CloseEnds DEF TearRecord, Fail, MayWrite, Locked
    <2>. QED
      BY <2>1, LoudEvidence DEF Ends, Closed
  <1>4. ASSUME UNCHANGED <<journal, tail, objects, files, session>>, durable \subseteq durable'
        PROVE  EvidenceInv'
    BY <1>4 DEF EvidenceInv, EvidenceAt, RepairFile
  <1>5. CASE PowerLoss
    BY <1>5 DEF PowerLoss, Closed, EvidenceInv, EvidenceAt
  <1>6. CASE Environment
    BY <1>0, <1>4, <1>5, <1>6
       DEF Environment, Observe, Tick, PolicyLapse, RotatePolicy, log, dir, cas
  <1>. QED
    BY <1>1, <1>2, <1>3, <1>6 DEF Next

\* A repair that may cut the tail off holds the evidence of it.
LEMMA EvidenceInvariant == Spec => []EvidenceInv
  <1>1. Init => EvidenceInv
    BY DEF Init, Closed, EvidenceInv, EvidenceAt
  <1>2. TypeInv /\ FilesInv /\ EvidenceInv /\ [Next]_vars => EvidenceInv'
    <2>1. EvidenceInv /\ UNCHANGED vars => EvidenceInv'
      BY DEF vars, log, dir, cas, EvidenceInv, EvidenceAt, RepairFile
    <2>. QED
      BY <2>1, EvidenceStep
  <1>. QED
    BY <1>1, <1>2, TypeInvariant, FilesInvariant, PTL DEF Spec

\* Repair_Ledger destroys nothing without a trace: when it cuts a tail off,
\* the content store shows the tail and a durable repair-ID.bin names it.
THEOREM TailsPreserved == Spec => TailPreserved
  <1>1. TypeInv /\ EvidenceInv /\ [Next]_vars
        => [tail # NoTail /\ tail' # tail /\ boot' = boot =>
              /\ tail \in objects
              /\ \E f \in durable : f.tail = tail /\ f.head = journal]_vars
    <2>. SUFFICES ASSUME TypeInv, EvidenceInv, Next, tail # NoTail, tail' # tail, boot' = boot
                  PROVE  /\ tail \in objects
                         /\ \E f \in durable : f.tail = tail /\ f.head = journal
      BY DEF vars
    <2>1. PICK p \in Procs : Truncate(p)
      <3>1. ASSUME NEW p \in Procs, Step(p), ~Truncate(p)
            PROVE  FALSE
        BY <3>1 DEF Step, BeginRetry, BeginAccept, BeginRefuse, RepairAccept, RepairRefuse,
                    Busy, PreserveTail, SyncStore, NoteRepair, SyncNote, SaveEnvelope,
                    SyncEnvelope, RefuseTruncate, SyncTruncate, WriteIntent, Admit,
                    SyncRepairIntent, Authorize, Effect, Finish, SyncOutcome, WriteUnknown,
                    SyncUnknown, CloseAnswered, Open, Publish, SyncDirectory, Write, Sync, log
      <3>2. ASSUME NEW p \in Procs, Start(p) \/ TearRecord(p) \/ Fail(p)
            PROVE  FALSE
        BY <3>2 DEF Start, Load, TearRecord, MayWrite, Fail, log
      <3>3. ~PowerLoss
        BY DEF PowerLoss, TypeInv, TypeOK
      <3>4. ~Environment
        BY <3>3 DEF Environment, Observe, Tick, PolicyLapse, RotatePolicy, log
      <3>. QED
        BY <3>1, <3>2, <3>4 DEF Next
    <2>2. tail \in objects /\ RepairFile(session[p].req) \in durable
      BY <2>1 DEF Truncate, EvidenceInv, EvidenceAt
    <2>. QED
      BY <2>2 DEF RepairFile
  <1>. QED
    BY <1>1, TypeInvariant, EvidenceInvariant, PTL DEF Spec, TailPreserved

-----------------------------------------------------------------------------
(* Logs.                                                                   *)

\* A log whose requests all have their files in D, one file to a name, and in
\* which unresolved requests give way to recoveries only.
Backed(j, D) ==
    /\ \A f, g \in D : f.name = g.name => f = g
    /\ \A i \in 1..Len(j) : j[i].kind = "begun" => RequestFile(j[i].req) \in D

Chained(j) ==
    \A i \in 1..Len(j) - 1 :
        Unresolved(j[i]) /\ j[i + 1].kind = "begun"
            => j[i + 1].req.action \in RecoveryActions /\ j[i + 1].req.work = j[i].req.work

\* What the invariants say of the log makes every prefix of it lawful.
LEMMA LawfulPrefix ==
    ASSUME NEW j \in Seq(Records), Replays(j), Forward(j), NEW D, Backed(j, D), Chained(j),
           NEW k \in 0..Len(j)
    PROVE  Promise!Lawful(SubSeq(j, 1, k))
  <1>. DEFINE h == SubSeq(j, 1, k)
  <1>1. Len(h) = k /\ \A i \in 1..k : i \in 1..Len(j) /\ h[i] = j[i] /\ h[i] \in Records
    OBVIOUS
  <1>2. Promise!Replays(h)
    <2>1. Replays(h)
      BY ReplaysPrefix
    <2>. QED
      BY <2>1 DEF Promise!Replays, Replays, Promise!StateAfter, StateAfter, Promise!Accepts,
                  Accepts, Promise!Fresh, Fresh, Promise!SameFence, SameFence,
                  Promise!EmptyState, EmptyState, Promise!NoRequest, NoRequest,
                  Promise!Outcomes, Outcomes, Promise!Unresolved, Unresolved
  <1>3. Promise!OnceEach(h)
    <2>. SUFFICES ASSUME NEW a \in 1..k, NEW b \in 1..k, a < b,
                         h[a].kind = "begun", h[b].kind = "begun", h[a].req.id = h[b].req.id
                  PROVE  FALSE
      BY <1>1 DEF Promise!OnceEach, Promise!IsBegun
    <2>1. RequestFile(h[a].req) \in D /\ RequestFile(h[b].req) \in D
      BY <1>1 DEF Backed
    <2>2. RequestFile(h[a].req) = RequestFile(h[b].req)
      BY <2>1 DEF Backed, RequestFile
    <2>3. h[a].req = h[b].req
      BY <2>2 DEF RequestFile
    <2>4. Later(h[a].req, h[b].req)
      BY <1>1, ForwardInOrder DEF InOrder
    <2>5. h[b].req \in Requests
      BY <1>1, RecordRequest
    <2>. QED
      BY <2>3, <2>4, <2>5, RequestsAssumption DEF Later, Request
  <1>4. Promise!Recovers(h)
    BY <1>1 DEF Chained, Unresolved, Promise!Recovers, Promise!IsBegun, Promise!Unresolved,
                Promise!RecoveryActions, RecoveryActions
  <1>. QED
    BY <1>2, <1>3, <1>4 DEF Promise!Lawful

\* A durable part that is kept and may grow.
LEMMA KeptOrLonger ==
    ASSUME NEW j \in Seq(Records), NEW k \in 0..Len(j),
           NEW j2 \in Seq(Records), NEW k2 \in k..Len(j2), \A i \in 1..k : j2[i] = j[i]
    PROVE  \/ SubSeq(j2, 1, k2) = SubSeq(j, 1, k)
           \/ Promise!IsStrictPrefix(SubSeq(j, 1, k), SubSeq(j2, 1, k2))
  <1>1. /\ Len(SubSeq(j, 1, k)) = k /\ Len(SubSeq(j2, 1, k2)) = k2
        /\ SubSeq(j, 1, k) \in Seq(Records) /\ SubSeq(j2, 1, k2) \in Seq(Records)
        /\ k \in Nat /\ k2 \in Nat /\ k <= k2
    OBVIOUS
  <1>2. SubSeq(j2, 1, k) = SubSeq(j, 1, k)
    <2>1. SubSeq(j2, 1, k) = [i \in 1..k |-> j2[i]] /\ SubSeq(j, 1, k) = [i \in 1..k |-> j[i]]
      OBVIOUS
    <2>. QED
      BY <2>1
  <1>3. CASE k2 = k
    BY <1>2, <1>3
  <1>4. CASE k2 # k
    <2>1. SubSeq(SubSeq(j, 1, k), 1, k) = SubSeq(j, 1, k)
      BY <1>1
    <2>2. SubSeq(SubSeq(j2, 1, k2), 1, k) = SubSeq(j2, 1, k)
      BY <1>1
    <2>3. Promise!IsPrefix(SubSeq(j, 1, k), SubSeq(j2, 1, k2))
      BY <1>1, <1>2, <2>1, <2>2 DEF Promise!IsPrefix
    <2>4. SubSeq(j, 1, k) # SubSeq(j2, 1, k2)
      BY <1>1, <1>4
    <2>. QED
      BY <2>3, <2>4 DEF Promise!IsStrictPrefix
  <1>. QED
    BY <1>3, <1>4

-----------------------------------------------------------------------------
(* Steps.                                                                  *)

Sound == TypeInv /\ JournalInv /\ FilesInv /\ IntentInv /\ OneWork

\* No step rewrites or takes back a record on stable storage; all but Effect
\* leave the effects alone.
LEMMA DiskGrows ==
    ASSUME Sound, Next
    PROVE  /\ synced' \in synced..Len(journal')
           /\ \A i \in 1..synced : journal'[i] = journal[i]
           /\ \/ effects' = effects
              \/ \E p \in Procs : Effect(p)
  <1>0. journal \in Seq(Records) /\ synced \in 0..Len(journal)
    BY DEF Sound, TypeInv, TypeOK
  <1>1. ASSUME NEW p \in Procs, Step(p)
        PROVE  /\ journal' = journal \/ \E e : journal' = Append(journal, e) /\ synced' = synced
               /\ synced' = synced \/ synced' = Len(journal)
               /\ effects' = effects \/ Effect(p)
    <2>1. CASE BeginRetry(p) \/ BeginAccept(p) \/ BeginRefuse(p) \/ RepairAccept(p)
                  \/ RepairRefuse(p) \/ Busy(p) \/ RefuseTruncate(p) \/ CloseAnswered(p)
      BY <2>1 DEF BeginRetry, BeginAccept, BeginRefuse, RepairAccept, RepairRefuse, Busy,
                  RefuseTruncate, CloseAnswered, Open, log, history
    <2>2. CASE PreserveTail(p) \/ SyncStore(p) \/ NoteRepair(p) \/ SyncNote(p)
                  \/ SaveEnvelope(p) \/ SyncEnvelope(p) \/ Truncate(p)
      BY <2>2 DEF PreserveTail, SyncStore, NoteRepair, SyncNote, SaveEnvelope, SyncEnvelope,
                  Truncate, Publish, SyncDirectory, log, history
    <2>3. CASE SyncTruncate(p) \/ Admit(p) \/ SyncRepairIntent(p) \/ SyncOutcome(p)
                  \/ SyncUnknown(p)
      BY <2>3 DEF SyncTruncate, Admit, SyncRepairIntent, SyncOutcome, SyncUnknown, Sync, SyncLog
    <2>4. CASE WriteIntent(p) \/ Finish(p) \/ WriteUnknown(p)
      BY <2>4 DEF WriteIntent, Finish, WriteUnknown, Write, history
    <2>5. CASE Authorize(p) \/ Effect(p)
      BY <2>5 DEF Authorize, Effect, log, history
    <2>. QED
      BY <1>1, <2>1, <2>2, <2>3, <2>4, <2>5 DEF Step
  <1>2. ASSUME NEW p \in Procs, Start(p) \/ TearRecord(p) \/ Fail(p)
        PROVE  UNCHANGED <<journal, synced, effects>>
    BY <1>2 DEF Start, Load, TearRecord, Fail, log, history
  <1>3. CASE PowerLoss
    <2>1. PICK k \in synced..Len(journal) : journal' = SubSeq(journal, 1, k) /\ synced' = k
      BY <1>3 DEF PowerLoss
    <2>2. Len(journal') = k /\ \A i \in 1..k : journal'[i] = journal[i]
      BY <1>0, <2>1
    <2>. QED
      BY <1>0, <1>3, <2>1, <2>2 DEF PowerLoss, history
  <1>4. CASE Environment /\ ~PowerLoss
    BY <1>0, <1>4 DEF Environment, Observe, Tick, PolicyLapse, RotatePolicy, log, history
  <1>5. ASSUME NEW e, journal' = Append(journal, e), synced' = synced
        PROVE  /\ synced' \in synced..Len(journal')
               /\ \A i \in 1..synced : journal'[i] = journal[i]
    <2>1. Len(journal') = Len(journal) + 1 /\ \A i \in 1..Len(journal) : journal'[i] = journal[i]
      BY <1>0, <1>5
    <2>. QED
      BY <1>0, <1>5, <2>1
  <1>. QED
    BY <1>0, <1>1, <1>2, <1>3, <1>4, <1>5 DEF Next

\* Every step is a step of DurableHistory or leaves it alone.
LEMMA StepRefines ==
    ASSUME Sound, Sound', Next
    PROVE  [Promise!Next]_(Promise!vars)
  <1>. DEFINE h == SubSeq(journal, 1, synced)
  <1>0. /\ journal \in Seq(Records) /\ synced \in 0..Len(journal)
        /\ journal' \in Seq(Records)
    BY DEF Sound, TypeInv, TypeOK
  <1>1. CASE effects' = effects
    <2>1. h' = h \/ Promise!IsStrictPrefix(h, h')
      BY <1>0, DiskGrows, KeptOrLonger
    <2>2. Promise!Lawful(h')
      <3>1. Backed(journal', files') /\ Chained(journal')
        BY DEF Sound, TypeInv, TypeOK, FilesInv, NamesUnique, EnvelopeKept, OneWork, Backed,
               Chained, RequestFile, Unresolved
      <3>2. Replays(journal') /\ Forward(journal') /\ synced' \in 0..Len(journal')
        BY DEF Sound, TypeInv, TypeOK, JournalInv, Readable
      <3>. QED
        BY <1>0, <3>1, <3>2, LawfulPrefix
    <2>. QED
      BY <1>1, <2>1, <2>2 DEF Promise!Next, Promise!Extend, Promise!vars
  <1>2. ASSUME NEW p \in Procs, Effect(p)
        PROVE  Promise!Act(session[p].req) /\ session[p].req \in Requests
    <2>1. /\ journal' = journal /\ synced' = synced
          /\ effects' = effects \union {session[p].req}
          /\ session[p].pc = "authorized"
      BY <1>2 DEF Effect, log
    <2>2. /\ synced = Len(journal) /\ journal[Len(journal)] = Record(p, "begun")
          /\ Len(journal) >= 1 /\ session[p].req \in Requests
      BY <1>0, <2>1 DEF Sound, IntentInv, IntentAt, JournalInv, InTurn, Recorded, Readable,
                        TypeInv, Control, Engaged
    <2>3. Len(h) = Len(journal) /\ h[Len(h)] = journal[Len(journal)]
      BY <1>0, <2>2
    <2>. QED
      BY <2>1, <2>2, <2>3 DEF Promise!Act, Record
  <1>. QED
    BY <1>1, <1>2, DiskGrows DEF Promise!Next

\* MC_Gate on its ledger keeps what DurableHistory promises: what was fsynced
\* is never rewritten or taken back, each identity is begun at most once for
\* good, and effects belong to the request that the disk shows as open.
THEOREM ImplementsDurableHistory == Spec => KeepsPromise
  <1>1. Init => Promise!Init
    <2>. SUFFICES ASSUME Init PROVE Promise!Init
      OBVIOUS
    <2>1. journal = <<Genesis(FirstPolicy.serial)>> /\ synced = 1 /\ effects = {}
      BY DEF Init
    <2>2. SubSeq(journal, 1, synced) = <<Genesis(FirstPolicy.serial)>>
      <3>1. journal \in Seq({Genesis(FirstPolicy.serial)}) /\ Len(journal) = 1
        BY <2>1
      <3>2. SubSeq(journal, 1, Len(journal)) = journal
        BY <3>1, SubSeqFull
      <3>. QED
        BY <2>1, <3>1, <3>2
    <2>. QED
      BY <2>1, <2>2 DEF Promise!Init, Promise!Genesis, Genesis, Promise!NoRequest, NoRequest
  <1>2. Sound /\ Sound' /\ [Next]_vars => [Promise!Next]_(Promise!vars)
    <2>1. UNCHANGED vars => UNCHANGED Promise!vars
      BY DEF vars, log, history, Promise!vars
    <2>. QED
      BY <2>1, StepRefines
  <1>3. Spec => []Sound
    BY TypeInvariant, JournalInvariant, FilesInvariant, IntentInvariant, OneWorkAtATime, PTL
       DEF Sound
  <1>. QED
    BY <1>1, <1>2, <1>3, PTL DEF Spec, KeepsPromise, Promise!Spec
=============================================================================
