------------------------- MODULE StopBarrierProofs -------------------------
(***************************************************************************)
(* The stop barrier, proved for every inventory, every number of barriers, *)
(* reports, reboots, restarts and regressions.  The invariants, in layers: *)
(*   Types      what the variables are;                                    *)
(*   Clocks     reports are dated, and in order, by the receiver's clock;  *)
(*   Stopped    what a clean report said of a member stays so;             *)
(*   Since      members that are quiet, and since when;                    *)
(*   Receipts   what each receipt stands on;                               *)
(*   Passed     why a report to the contrary was passed over.              *)
(***************************************************************************)
EXTENDS StopBarrier, TLAPS

Sources == {"node", "fence"}

MemberType == [boot : Nat, closed : BOOLEAN, latch : BOOLEAN, busy : BOOLEAN,
               isolated : SUBSET Paths, retired : BOOLEAN]

PolicyType == [boot : Nat, of : [Members -> Nat]]

ReceiptType == [current : {"awaiting", "acknowledged", "isolated", "uncertain"},
                node : Nat, fence : Nat, observed : Nat, expires : Nat, proof : Nat]

StateType == [policy : Nat, current : {"collecting", "sealed", "blocked"}, last : Nat,
              members : [Members -> ReceiptType]]

ReportType == [member : Members, source : Sources, policy : Nat, subject : Nat,
               stamp : [boot : Nat, observed : Nat, expires : Nat], clean : BOOLEAN]

Types ==
    /\ member \in [Members -> MemberType]
    /\ boot \in Nat /\ now \in Nat
    /\ policies \in Seq(PolicyType)
    /\ state \in StateType /\ state.policy <= Len(policies)
    /\ sent \in Seq(ReportType)
    /\ heard \subseteq DOMAIN sent
    /\ lastQuiet \in [Members -> Nat \X Nat]

Clocks ==
    /\ \A i \in DOMAIN sent :
         sent[i].stamp.boot <= boot /\ (sent[i].stamp.boot = boot => sent[i].stamp.observed <= now)
    /\ \A i, j \in DOMAIN sent :
         i <= j /\ sent[i].stamp.boot = sent[j].stamp.boot => sent[i].stamp.observed <= sent[j].stamp.observed

Said(e, m) == IF e.source = "node" THEN Drained(m) ELSE Fenced(m)

Stopped ==
    \A i \in DOMAIN sent :
        sent[i].clean /\ sent[i].member \notin reopened => Said(sent[i], member[sent[i].member])

Since ==
    /\ \A k \in Members : Quiet(member[k]) => lastQuiet[k] = <<boot, now>>
    /\ \A i \in DOMAIN sent :
         sent[i].clean /\ sent[i].stamp.boot = boot =>
             /\ lastQuiet[sent[i].member][1] = boot
             /\ lastQuiet[sent[i].member][2] >= sent[i].stamp.observed

\* Receipt r of member k stands on its proof, and what it counts was not to the contrary.
StandsOn(r, k) ==
    /\ r.current = "awaiting" => r = Awaited
    /\ r.current # "awaiting" =>
         /\ r.proof \in DOMAIN sent /\ state.policy > 0
         /\ sent[r.proof].member = k
         /\ sent[r.proof].stamp.boot = policies[state.policy].boot
         /\ r.observed = sent[r.proof].stamp.observed
         /\ r.current # "uncertain" => sent[r.proof].clean
    /\ \A source \in Sources :
         r[source] > 0 => r[source] \in DOMAIN sent /\ (sent[r[source]].clean \/ state.current = "blocked")

Receipts == \A k \in Members : StandsOn(state.members[k], k)

Overtaken(i) ==
    LET r == state.members[sent[i].member]
    IN  sent[i].stamp.observed < r.observed \/ i < r[sent[i].source]

Passed ==
    \A i \in heard :
        /\ state.policy > 0 /\ sent[i].stamp.boot = policies[state.policy].boot
        /\ sent[i].clean \/ state.current = "blocked" \/ Overtaken(i)

IInv == Types /\ Clocks /\ Stopped /\ Since /\ Receipts /\ Passed /\ StateValid

-----------------------------------------------------------------------------
(* Types.                                                                  *)

\* What Receipt makes of a receipt, field by field.
LEMMA ReceiptFields ==
    ASSUME NEW r \in ReceiptType, sent \in Seq(ReportType), NEW i \in DOMAIN sent, NEW q, q = Receipt(r, i)
    PROVE  /\ q \in ReceiptType
           /\ q.proof = i /\ q.observed = sent[i].stamp.observed /\ q.expires = sent[i].stamp.expires
           /\ q.current = IF sent[i].clean THEN IF sent[i].source = "node" THEN "acknowledged" ELSE "isolated"
                          ELSE "uncertain"
           /\ q[sent[i].source] = i
           /\ \A source \in Sources : source # sent[i].source => q[source] = r[source]
  <1>1. sent[i] \in ReportType /\ i \in Nat
    OBVIOUS
  <1>2. CASE sent[i].source = "node"
    BY <1>1, <1>2 DEF ReportType, ReceiptType, Receipt, Sources
  <1>3. CASE sent[i].source = "fence"
    BY <1>1, <1>3 DEF ReportType, ReceiptType, Receipt, Sources
  <1>. QED
    BY <1>1, <1>2, <1>3 DEF ReportType, Sources

\* The State that Observe leaves: one receipt is another one, and the state may be blocked.
LEMMA ObservedState ==
    ASSUME Types, NEW i \in DOMAIN sent, Observe(i)
    PROVE  /\ sent[i] \in ReportType
           /\ \/ state' = state /\ ~(state.current # "blocked" /\ Continues(state.members[sent[i].member], i))
              \/ /\ state.current # "blocked"
                 /\ Continues(state.members[sent[i].member], i)
                 /\ state'.policy = state.policy /\ state'.last = now
                 /\ state'.current = IF sent[i].clean THEN state.current ELSE "blocked"
                 /\ state'.members = [state.members EXCEPT ![sent[i].member] = Receipt(@, i)]
                 /\ state' \in StateType
  <1>1. sent[i] \in ReportType
    BY DEF Types
  <1>2. SUFFICES ASSUME state.current # "blocked", Continues(state.members[sent[i].member], i)
                 PROVE  /\ state'.policy = state.policy /\ state'.last = now
                        /\ state'.current = IF sent[i].clean THEN state.current ELSE "blocked"
                        /\ state'.members = [state.members EXCEPT ![sent[i].member] = Receipt(@, i)]
                        /\ state' \in StateType
    BY <1>1 DEF Observe
  <1>3. state' = [state EXCEPT !.members[sent[i].member] = Receipt(@, i), !.last = now,
                               !.current = IF sent[i].clean THEN @ ELSE "blocked"]
    BY <1>2 DEF Observe
  <1>4. Receipt(state.members[sent[i].member], i) \in ReceiptType
    BY <1>1, ReceiptFields DEF Types, StateType, ReportType
  <1>5. sent[i].member \in Members /\ sent[i].clean \in BOOLEAN
    BY <1>1 DEF ReportType
  <1>6. state \in StateType /\ now \in Nat
    BY DEF Types
  <1>. QED
    BY <1>3, <1>4, <1>5, <1>6 DEF StateType

\* What a member becomes is a member.
LEMMA BecomesTypes ==
    ASSUME Types, NEW k \in Members, NEW m \in MemberType, Becomes(k, m)
    PROVE  Types'
  <1>1. member' \in [Members -> MemberType]
    BY DEF Types, Becomes
  <1>2. lastQuiet' \in [Members -> Nat \X Nat]
    BY DEF Types, Becomes
  <1>. QED
    BY <1>1, <1>2 DEF Types, Becomes

\* Every step of a member, as what it becomes.
MemberStep(k) ==
    \/ Dispatch(k) \/ Complete(k) \/ CloseQueue(k) \/ Latch(k) \/ Retire(k) \/ Restart(k) \/ Reopen(k)
    \/ \E path \in Paths : Isolate(k, path)

Becoming(k, m) ==
    /\ m \in MemberType /\ Becomes(k, m)
    /\ \/ reopened' = reopened /\ (Drained(member[k]) => Drained(m)) /\ (Fenced(member[k]) => Fenced(m))
       \/ reopened' = reopened \cup {k}

\* A member with some of its fields changed.
LEMMA MemberExcept ==
    ASSUME NEW m \in MemberType, NEW n \in Nat, NEW closed \in BOOLEAN, NEW cut \in SUBSET Paths
    PROVE  [m EXCEPT !.boot = n, !.closed = closed, !.busy = FALSE, !.isolated = cut] \in MemberType
  <1>1. CASE closed = TRUE
    BY <1>1 DEF MemberType
  <1>2. CASE closed = FALSE
    BY <1>2 DEF MemberType
  <1>. QED
    BY <1>1, <1>2

\* Only who is reopened is not drained or fenced any more.
LEMMA MemberSteps ==
    ASSUME Types, NEW k \in Members, MemberStep(k)
    PROVE  \E m : Becoming(k, m)
  <1>1. member[k] \in MemberType
    BY DEF Types
  <1>2. CASE Dispatch(k)
    <2>1. [member[k] EXCEPT !.busy = TRUE] \in MemberType
      BY <1>1 DEF MemberType
    <2>. QED
      BY <1>1, <1>2, <2>1 DEF Dispatch, Becoming, Drained, Fenced, MemberType
  <1>3. CASE Complete(k)
    <2>1. [member[k] EXCEPT !.busy = FALSE] \in MemberType
      BY <1>1 DEF MemberType
    <2>. QED
      BY <1>1, <1>3, <2>1 DEF Complete, Becoming, Drained, Fenced, MemberType
  <1>4. CASE CloseQueue(k)
    <2>1. [member[k] EXCEPT !.closed = TRUE] \in MemberType
      BY <1>1 DEF MemberType
    <2>. QED
      BY <1>1, <1>4, <2>1 DEF CloseQueue, Becoming, Drained, Fenced, MemberType
  <1>5. CASE Latch(k)
    <2>1. [member[k] EXCEPT !.latch = TRUE] \in MemberType
      BY <1>1 DEF MemberType
    <2>. QED
      BY <1>1, <1>5, <2>1 DEF Latch, Becoming, Drained, Fenced, MemberType
  <1>6. CASE Retire(k)
    <2>1. [member[k] EXCEPT !.retired = TRUE] \in MemberType
      BY <1>1 DEF MemberType
    <2>. QED
      BY <1>1, <1>6, <2>1 DEF Retire, Becoming, Drained, Fenced, MemberType
  <1>7. CASE Restart(k)
    <2>. DEFINE cut == IF member[k].retired THEN member[k].isolated ELSE {}
                m == [member[k] EXCEPT !.boot = @ + 1, !.closed = member[k].latch, !.busy = FALSE,
                                       !.isolated = cut]
    <2>1. cut \in SUBSET Paths /\ (member[k].retired => cut = member[k].isolated)
      BY <1>1 DEF MemberType
    <2>2. Becomes(k, m) /\ reopened' = reopened
      BY <1>7 DEF Restart
    <2>. HIDE DEF cut
    <2>3. m \in MemberType
      <3>1. member[k].boot + 1 \in Nat /\ member[k].latch \in BOOLEAN
        BY <1>1 DEF MemberType
      <3>. QED
        BY <1>1, <2>1, <3>1, MemberExcept
    <2>4. Drained(member[k]) => Drained(m)
      BY <1>1 DEF Drained, MemberType
    <2>5. Fenced(member[k]) => Fenced(m)
      BY <1>1, <2>1 DEF Fenced, MemberType
    <2>. QED
      BY <2>2, <2>3, <2>4, <2>5 DEF Becoming
  <1>8. CASE Reopen(k)
    <2>1. reopened' = reopened \cup {k}
      BY <1>8 DEF Reopen
    <2>2. CASE Becomes(k, [member[k] EXCEPT !.closed = FALSE, !.latch = FALSE])
      <3>1. [member[k] EXCEPT !.closed = FALSE, !.latch = FALSE] \in MemberType
        BY <1>1 DEF MemberType
      <3>. QED
        BY <2>1, <2>2, <3>1 DEF Becoming
    <2>3. ASSUME NEW path \in member[k].isolated,
                 Becomes(k, [member[k] EXCEPT !.isolated = @ \ {path}, !.retired = FALSE])
          PROVE  \E m : Becoming(k, m)
      <3>1. [member[k] EXCEPT !.isolated = @ \ {path}, !.retired = FALSE] \in MemberType
        BY <1>1 DEF MemberType
      <3>. QED
        BY <2>1, <2>3, <3>1 DEF Becoming
    <2>. QED
      BY <1>8, <2>2, <2>3 DEF Reopen
  <1>9. ASSUME NEW path \in Paths, Isolate(k, path) PROVE \E m : Becoming(k, m)
    <2>1. [member[k] EXCEPT !.isolated = @ \cup {path}] \in MemberType
      BY <1>1 DEF MemberType
    <2>. QED
      BY <1>1, <1>9, <2>1 DEF Isolate, Becoming, Drained, Fenced, MemberType
  <1>. QED
    BY <1>2, <1>3, <1>4, <1>5, <1>6, <1>7, <1>8, <1>9 DEF MemberStep

\* A report is one more at the end, dated now; a clean one says what the member is like.
LEMMA Reported ==
    ASSUME Types, NEW k \in Members, NEW source \in Sources, NEW lifetime \in Lifetimes,
           Report(k, source, lifetime)
    PROVE  \E e \in ReportType :
               /\ sent' = Append(sent, e)
               /\ e.member = k /\ e.stamp.boot = boot /\ e.stamp.observed = now
               /\ e.clean => Said(e, member[k])
  <1>. DEFINE clean == IF source = "node" THEN Drained(member[k]) ELSE Fenced(member[k])
              stamp == [boot |-> boot, observed |-> now, expires |-> now + lifetime]
              e == [member |-> k, source |-> source, policy |-> Current, subject |-> member[k].boot,
                    stamp |-> stamp, clean |-> clean]
  <1>1. sent' = Append(sent, e)
    BY DEF Report
  <1>2. member[k] \in MemberType
    BY DEF Types
  <1>3. clean \in BOOLEAN
    BY <1>2 DEF Drained, Fenced, MemberType
  <1>4. stamp \in [boot : Nat, observed : Nat, expires : Nat]
    BY BarrierAssumption DEF Types
  <1>5. Current \in Nat /\ member[k].boot \in Nat
    BY <1>2 DEF Current, Types, MemberType
  <1>6. clean => Said(e, member[k])
    BY DEF Said
  <1>. HIDE DEF clean, stamp
  <1>7. e \in ReportType
    BY <1>3, <1>4, <1>5 DEF ReportType
  <1>8. e.stamp.boot = boot /\ e.stamp.observed = now
    BY DEF stamp
  <1>. QED
    BY <1>1, <1>6, <1>7, <1>8

\* The steps there are.
LEMMA Steps ==
    Next => \/ Authorize \/ Initialize \/ Seal \/ Tick \/ Reboot
            \/ \E i \in DOMAIN sent : Observe(i)
            \/ \E k \in Members : MemberStep(k)
            \/ \E k \in Members, source \in Sources, lifetime \in Lifetimes : Report(k, source, lifetime)
  BY DEF Next, MemberStep, Sources

LEMMA TypesStep == ASSUME Types, Next PROVE Types'
  <1>1. CASE Authorize
    <2>1. [boot |-> boot, of |-> [k \in Members |-> member[k].boot]] \in PolicyType
      BY DEF Types, PolicyType, MemberType
    <2>2. policies' \in Seq(PolicyType) /\ Len(policies') = Len(policies) + 1
      BY <1>1, <2>1 DEF Authorize, Types
    <2>. QED
      BY <1>1, <2>2 DEF Authorize, Types, StateType
  <1>2. CASE Initialize
    <2>1. state' = [policy |-> Current, current |-> "collecting", last |-> 0, members |-> [k \in Members |-> Awaited]]
      BY <1>2 DEF Initialize, NoState
    <2>2. Current \in Nat /\ Current = Len(policies)
      BY DEF Current, Types
    <2>3. Awaited \in ReceiptType
      BY DEF Awaited, ReceiptType
    <2>4. state' \in StateType /\ state'.policy <= Len(policies)
      BY <2>1, <2>2, <2>3 DEF StateType
    <2>. QED
      BY <1>2, <2>4 DEF Initialize, Types
  <1>3. CASE Seal
    BY <1>3 DEF Seal, Types, StateType
  <1>4. CASE Tick
    BY <1>4 DEF Tick, Types
  <1>5. CASE Reboot
    BY <1>5, BarrierAssumption DEF Reboot, Types
  <1>6. ASSUME NEW i \in DOMAIN sent, Observe(i) PROVE Types'
    <2>1. state' \in StateType /\ state'.policy <= Len(policies)
      BY <1>6, ObservedState DEF Types
    <2>2. heard' \subseteq DOMAIN sent
      BY <1>6 DEF Observe, Types
    <2>. QED
      BY <1>6, <2>1, <2>2 DEF Observe, Types
  <1>7. ASSUME NEW k \in Members, MemberStep(k) PROVE Types'
    BY <1>7, MemberSteps, BecomesTypes DEF Becoming
  <1>8. ASSUME NEW k \in Members, NEW source \in Sources, NEW lifetime \in Lifetimes, Report(k, source, lifetime)
        PROVE  Types'
    <2>1. PICK e \in ReportType : sent' = Append(sent, e)
      BY <1>8, Reported
    <2>2. sent' \in Seq(ReportType) /\ DOMAIN sent \subseteq DOMAIN sent'
      BY <2>1 DEF Types
    <2>. QED
      BY <1>8, <2>2 DEF Report, Types
  <1>. QED
    BY <1>1, <1>2, <1>3, <1>4, <1>5, <1>6, <1>7, <1>8, Steps

-----------------------------------------------------------------------------
(* Clocks, Stopped and Since.                                              *)

LEMMA Stamps ==
    ASSUME Types, NEW i \in DOMAIN sent
    PROVE  /\ sent[i] \in ReportType /\ sent[i].member \in Members /\ i \in Nat
           /\ sent[i].stamp.boot \in Nat /\ sent[i].stamp.observed \in Nat
  <1>1. sent[i] \in ReportType /\ i \in Nat
    BY DEF Types
  <1>2. sent[i].stamp \in [boot : Nat, observed : Nat, expires : Nat] /\ sent[i].member \in Members
    BY <1>1 DEF ReportType
  <1>. QED
    BY <1>1, <1>2

LEMMA ClocksStep == ASSUME Types, Clocks, Next PROVE Clocks'
  <1>1. CASE Authorize \/ Initialize \/ Seal
    BY <1>1 DEF Authorize, Initialize, Seal, Clocks
  <1>2. CASE Tick
    <2>1. boot' = boot /\ now' = now + 1 /\ sent' = sent /\ now \in Nat
      BY <1>2 DEF Tick, Types
    <2>. QED
      BY <2>1, Stamps DEF Clocks
  <1>3. CASE Reboot
    <2>1. boot' = boot + 1 /\ sent' = sent /\ boot \in Nat
      BY <1>3 DEF Reboot, Types
    <2>. QED
      BY <2>1, Stamps DEF Clocks
  <1>4. ASSUME NEW i \in DOMAIN sent, Observe(i) PROVE Clocks'
    BY <1>4 DEF Observe, Clocks
  <1>5. ASSUME NEW k \in Members, MemberStep(k) PROVE Clocks'
    BY <1>5, MemberSteps DEF Becoming, Becomes, Clocks
  <1>6. ASSUME NEW k \in Members, NEW source \in Sources, NEW lifetime \in Lifetimes, Report(k, source, lifetime)
        PROVE  Clocks'
    <2>1. PICK e \in ReportType : sent' = Append(sent, e) /\ e.stamp.boot = boot /\ e.stamp.observed = now
      BY <1>6, Reported
    <2>2. boot' = boot /\ now' = now /\ boot \in Nat /\ now \in Nat
      BY <1>6 DEF Report, Types
    <2>3. DOMAIN sent' = DOMAIN sent \cup {Len(sent) + 1} /\ sent'[Len(sent) + 1] = e
      BY <2>1 DEF Types
    <2>4. \A i \in DOMAIN sent : sent'[i] = sent[i] /\ i < Len(sent) + 1
      BY <2>1 DEF Types
    <2>5. ASSUME NEW i \in DOMAIN sent'
          PROVE  sent'[i].stamp.boot <= boot /\ (sent'[i].stamp.boot = boot => sent'[i].stamp.observed <= now)
      BY <2>1, <2>2, <2>3, <2>4 DEF Clocks
    <2>6. ASSUME NEW i \in DOMAIN sent', NEW j \in DOMAIN sent', i <= j, sent'[i].stamp.boot = sent'[j].stamp.boot
          PROVE  sent'[i].stamp.observed <= sent'[j].stamp.observed
      <3>1. CASE j = Len(sent) + 1
        BY <2>1, <2>3, <2>5, <2>6, <3>1
      <3>2. CASE j \in DOMAIN sent
        <4>1. i \in DOMAIN sent
          BY <2>3, <2>4, <2>6, <3>2, Stamps DEF Types
        <4>. QED
          BY <2>4, <2>6, <3>2, <4>1 DEF Clocks
      <3>. QED
        BY <2>3, <3>1, <3>2
    <2>. QED
      BY <2>2, <2>5, <2>6 DEF Clocks
  <1>. QED
    BY <1>1, <1>2, <1>3, <1>4, <1>5, <1>6, Steps

LEMMA StoppedStep == ASSUME Types, Stopped, Next PROVE Stopped'
  <1>1. CASE Authorize \/ Initialize \/ Seal \/ Tick \/ Reboot
    BY <1>1 DEF Authorize, Initialize, Seal, Tick, Reboot, Stopped
  <1>2. ASSUME NEW i \in DOMAIN sent, Observe(i) PROVE Stopped'
    BY <1>2 DEF Observe, Stopped
  <1>3. ASSUME NEW k \in Members, MemberStep(k) PROVE Stopped'
    <2>1. PICK m : Becoming(k, m)
      BY <1>3, MemberSteps
    <2>2. SUFFICES ASSUME NEW i \in DOMAIN sent, sent[i].clean, sent[i].member \notin reopened'
                   PROVE  Said(sent[i], member'[sent[i].member])
      BY <2>1 DEF Stopped, Becoming, Becomes
    <2>3. Said(sent[i], member[sent[i].member])
      BY <2>1, <2>2 DEF Stopped, Becoming
    <2>4. CASE sent[i].member = k
      <3>1. member'[k] = m
        BY <2>1 DEF Becoming, Becomes, Types
      <3>2. reopened' = reopened /\ (Drained(member[k]) => Drained(m)) /\ (Fenced(member[k]) => Fenced(m))
        BY <2>1, <2>2, <2>4 DEF Becoming
      <3>. QED
        BY <2>3, <2>4, <3>1, <3>2 DEF Said
    <2>5. CASE sent[i].member # k
      <3>1. member'[sent[i].member] = member[sent[i].member]
        BY <2>1, <2>5 DEF Becoming, Becomes, Types, ReportType
      <3>. QED
        BY <2>3, <3>1
    <2>. QED
      BY <2>4, <2>5
  <1>4. ASSUME NEW k \in Members, NEW source \in Sources, NEW lifetime \in Lifetimes, Report(k, source, lifetime)
        PROVE  Stopped'
    <2>1. PICK e \in ReportType : sent' = Append(sent, e) /\ e.member = k /\ (e.clean => Said(e, member[k]))
      BY <1>4, Reported
    <2>2. member' = member /\ reopened' = reopened
      BY <1>4 DEF Report
    <2>3. DOMAIN sent' = DOMAIN sent \cup {Len(sent) + 1} /\ sent'[Len(sent) + 1] = e
      BY <2>1 DEF Types
    <2>4. \A i \in DOMAIN sent : sent'[i] = sent[i]
      BY <2>1 DEF Types
    <2>. QED
      BY <2>1, <2>2, <2>3, <2>4 DEF Stopped
  <1>. QED
    BY <1>1, <1>2, <1>3, <1>4, Steps

\* Of a member that is quiet, what a clean report says has to follow.
LEMMA SaidMeansQuiet ==
    ASSUME NEW e \in ReportType, NEW m \in MemberType, Said(e, m)
    PROVE  Quiet(m)
  BY DEF Said, Drained, Fenced, Quiet

LEMMA SinceStep == ASSUME Types, Types', Clocks, Since, Next PROVE Since'
  <1>. \A k \in Members : lastQuiet[k] \in Nat \X Nat
    BY DEF Types
  <1>. boot \in Nat /\ now \in Nat
    BY DEF Types
  <1>1. CASE Authorize \/ Initialize \/ Seal
    BY <1>1 DEF Authorize, Initialize, Seal, Since, Quiet
  <1>2. CASE Tick
    <2>1. /\ boot' = boot /\ now' = now + 1 /\ sent' = sent /\ member' = member
          /\ lastQuiet' = [k \in Members |-> IF Quiet(member[k]) THEN <<boot, now + 1>> ELSE lastQuiet[k]]
      BY <1>2 DEF Tick
    <2>2. ASSUME NEW k \in Members, Quiet(member'[k]) PROVE lastQuiet'[k] = <<boot', now'>>
      BY <2>1, <2>2
    <2>3. ASSUME NEW i \in DOMAIN sent', sent'[i].clean, sent'[i].stamp.boot = boot'
          PROVE  lastQuiet'[sent'[i].member][1] = boot' /\ lastQuiet'[sent'[i].member][2] >= sent'[i].stamp.observed
      <3>1. sent[i].stamp.observed <= now /\ sent[i].member \in Members /\ sent[i].stamp.observed \in Nat
        BY <2>1, <2>3, Stamps DEF Clocks
      <3>2. CASE Quiet(member[sent[i].member])
        BY <2>1, <3>1, <3>2
      <3>3. CASE ~Quiet(member[sent[i].member])
        BY <2>1, <2>3, <3>1, <3>3 DEF Since
      <3>. QED
        BY <3>2, <3>3
    <2>. QED
      BY <2>2, <2>3 DEF Since, Quiet
  <1>3. CASE Reboot
    <2>1. /\ boot' = boot + 1 /\ sent' = sent /\ member' = member
          /\ lastQuiet' = [k \in Members |-> IF Quiet(member[k]) THEN <<boot', now'>> ELSE lastQuiet[k]]
      BY <1>3 DEF Reboot
    <2>2. \A i \in DOMAIN sent : sent[i].stamp.boot # boot'
      BY <2>1, Stamps DEF Clocks
    <2>3. ASSUME NEW k \in Members, Quiet(member'[k]) PROVE lastQuiet'[k] = <<boot', now'>>
      BY <2>1, <2>3
    <2>. QED
      BY <2>1, <2>2, <2>3 DEF Since, Quiet
  <1>4. ASSUME NEW i \in DOMAIN sent, Observe(i) PROVE Since'
    BY <1>4 DEF Observe, Since, Quiet
  <1>5. ASSUME NEW k \in Members, MemberStep(k) PROVE Since'
    <2>1. PICK m : m \in MemberType /\ Becomes(k, m)
      BY <1>5, MemberSteps DEF Becoming
    <2>2. /\ boot' = boot /\ now' = now /\ sent' = sent /\ member' = [member EXCEPT ![k] = m]
          /\ lastQuiet' = IF Quiet(m) THEN [lastQuiet EXCEPT ![k] = <<boot, now>>] ELSE lastQuiet
      BY <2>1 DEF Becomes
    <2>3. ASSUME NEW l \in Members, Quiet(member'[l]) PROVE lastQuiet'[l] = <<boot', now'>>
      BY <2>2, <2>3 DEF Since, Types
    <2>4. ASSUME NEW i \in DOMAIN sent', sent'[i].clean, sent'[i].stamp.boot = boot'
          PROVE  lastQuiet'[sent'[i].member][1] = boot' /\ lastQuiet'[sent'[i].member][2] >= sent'[i].stamp.observed
      <3>1. sent[i].stamp.observed <= now /\ sent[i].member \in Members /\ sent[i].stamp.observed \in Nat
        BY <2>2, <2>4, Stamps DEF Clocks
      <3>2. CASE lastQuiet'[sent[i].member] = <<boot, now>>
        BY <2>2, <3>1, <3>2
      <3>3. CASE lastQuiet'[sent[i].member] = lastQuiet[sent[i].member]
        BY <2>2, <2>4, <3>3 DEF Since
      <3>. QED
        BY <2>2, <3>1, <3>2, <3>3 DEF Types
    <2>. QED
      BY <2>3, <2>4 DEF Since, Quiet
  <1>6. ASSUME NEW k \in Members, NEW source \in Sources, NEW lifetime \in Lifetimes, Report(k, source, lifetime)
        PROVE  Since'
    <2>1. PICK e \in ReportType : /\ sent' = Append(sent, e) /\ e.member = k /\ e.stamp.boot = boot
                                  /\ e.stamp.observed = now /\ (e.clean => Said(e, member[k]))
      BY <1>6, Reported
    <2>2. boot' = boot /\ now' = now /\ member' = member /\ lastQuiet' = lastQuiet
      BY <1>6 DEF Report
    <2>3. DOMAIN sent' = DOMAIN sent \cup {Len(sent) + 1} /\ sent'[Len(sent) + 1] = e
      BY <2>1 DEF Types
    <2>4. \A i \in DOMAIN sent : sent'[i] = sent[i]
      BY <2>1 DEF Types
    <2>5. e.clean => lastQuiet[k] = <<boot, now>>
      BY <2>1, SaidMeansQuiet DEF Since, Types
    <2>6. ASSUME NEW i \in DOMAIN sent', sent'[i].clean, sent'[i].stamp.boot = boot
          PROVE  lastQuiet[sent'[i].member][1] = boot /\ lastQuiet[sent'[i].member][2] >= sent'[i].stamp.observed
      <3>1. CASE i = Len(sent) + 1
        BY <2>1, <2>3, <2>5, <2>6, <3>1
      <3>2. CASE i \in DOMAIN sent
        BY <2>4, <2>6, <3>2 DEF Since
      <3>. QED
        BY <2>3, <3>1, <3>2
    <2>. QED
      BY <2>2, <2>6 DEF Since, Quiet
  <1>. QED
    BY <1>1, <1>2, <1>3, <1>4, <1>5, <1>6, Steps

-----------------------------------------------------------------------------
(* Receipts, Passed and StateValid.                                        *)

\* A step that leaves the state of the barrier alone, and takes no report away.
Aside ==
    /\ state' = state /\ heard' = heard
    /\ DOMAIN sent \subseteq DOMAIN sent' /\ \A i \in DOMAIN sent : sent'[i] = sent[i]
    /\ \A p \in DOMAIN policies : policies'[p] = policies[p]

LEMMA Asides ==
    ASSUME Types, Next
    PROVE  Initialize \/ Seal \/ (\E i \in DOMAIN sent : Observe(i)) \/ Aside
  <1>1. CASE Authorize
    <2>1. \A p \in DOMAIN policies : policies'[p] = policies[p]
      BY <1>1 DEF Authorize, Types
    <2>. QED
      BY <1>1, <2>1 DEF Authorize, Aside
  <1>2. CASE Tick \/ Reboot
    BY <1>2 DEF Tick, Reboot, Aside
  <1>3. ASSUME NEW k \in Members, MemberStep(k) PROVE Aside
    BY <1>3, MemberSteps DEF Becoming, Becomes, Aside
  <1>4. ASSUME NEW k \in Members, NEW source \in Sources, NEW lifetime \in Lifetimes, Report(k, source, lifetime)
        PROVE  Aside
    <2>1. PICK e \in ReportType : sent' = Append(sent, e)
      BY <1>4, Reported
    <2>2. DOMAIN sent \subseteq DOMAIN sent' /\ \A i \in DOMAIN sent : sent'[i] = sent[i]
      BY <2>1 DEF Types
    <2>. QED
      BY <1>4, <2>2 DEF Report, Aside
  <1>. QED
    BY <1>1, <1>2, <1>3, <1>4, Steps

LEMMA StateTyped ==
    ASSUME Types
    PROVE  /\ state.policy \in Nat /\ state.last \in Nat
           /\ state.policy > 0 => state.policy \in DOMAIN policies
           /\ \A k \in Members : state.members[k] \in ReceiptType
  BY DEF Types, StateType

LEMMA AwaitedType == Awaited \in ReceiptType /\ \A source \in Sources : Awaited[source] = 0
  BY DEF Awaited, ReceiptType, Sources

\* What Observe asks of a report first.
LEMMA Admitted ==
    ASSUME Types, NEW i \in DOMAIN sent, Observe(i)
    PROVE  /\ state.policy = Current /\ state.policy > 0 /\ Valid(state)
           /\ sent[i].stamp.boot = policies[state.policy].boot
           /\ sent[i].stamp.observed <= now /\ sent[i].stamp.expires > sent[i].stamp.observed
           /\ state.last <= now
           /\ policies' = policies /\ sent' = sent /\ heard' = heard \cup {i}
  BY DEF Observe, Admissible, InForce, Fresh

LEMMA ReceiptsStep == ASSUME Types, Types', Receipts, Next PROVE Receipts'
  <1>1. CASE Initialize
    <2>1. \A k \in Members : state'.members[k] = Awaited
      BY <1>1 DEF Initialize, NoState
    <2>. QED
      BY <2>1, AwaitedType DEF Receipts, StandsOn, Awaited
  <1>2. CASE Seal
    <2>1. /\ state'.policy = state.policy /\ state'.members = state.members /\ state.current # "blocked"
          /\ sent' = sent /\ policies' = policies
      BY <1>2 DEF Seal, Types, StateType
    <2>. QED
      BY <2>1 DEF Receipts, StandsOn
  <1>3. ASSUME NEW i \in DOMAIN sent, Observe(i) PROVE Receipts'
    <2>. DEFINE k == sent[i].member
    <2>1. sent' = sent /\ policies' = policies
      BY <1>3, Admitted
    <2>2. CASE state' = state
      <3>. SUFFICES ASSUME NEW l \in Members PROVE StandsOn(state.members[l], l)'
        BY DEF Receipts
      <3>1. StandsOn(state.members[l], l)
        BY DEF Receipts
      <3>. QED
        BY <2>1, <2>2, <3>1 DEF StandsOn
    <2>3. CASE state' # state
      <3>1. /\ state.current # "blocked" /\ state'.policy = state.policy
            /\ state'.current = IF sent[i].clean THEN state.current ELSE "blocked"
            /\ state'.members = [state.members EXCEPT ![k] = Receipt(@, i)]
        BY <1>3, <2>3, ObservedState
      <3>2. k \in Members /\ state.members[k] \in ReceiptType /\ i \in Nat
        BY Stamps, StateTyped
      <3>3. ASSUME NEW l \in Members, l # k PROVE StandsOn(state.members[l], l)'
        <4>1. StandsOn(state.members[l], l) /\ state'.members[l] = state.members[l]
          BY <3>1, <3>2, <3>3 DEF Receipts, Types, StateType
        <4>. QED
          BY <2>1, <3>1, <4>1 DEF StandsOn
      <3>4. ASSUME NEW l \in Members, l = k PROVE StandsOn(state.members[l], l)'
        <4>. DEFINE r == state.members[k]
                    q == Receipt(r, i)
        <4>1. state'.members[k] = q
          BY <3>1, <3>2 DEF Types, StateType
        <4>2. /\ q.proof = i /\ q.observed = sent[i].stamp.observed
              /\ q.current = IF sent[i].clean THEN IF sent[i].source = "node" THEN "acknowledged" ELSE "isolated"
                             ELSE "uncertain"
              /\ q[sent[i].source] = i
              /\ \A source \in Sources : source # sent[i].source => q[source] = r[source]
          <5>1. sent \in Seq(ReportType) /\ r \in ReceiptType
            BY <3>2 DEF Types
          <5>. HIDE DEF r
          <5>. QED
            BY <5>1, ReceiptFields
        <4>. HIDE DEF q
        <4>3. state.policy > 0 /\ sent[i].stamp.boot = policies[state.policy].boot
          BY <1>3, Admitted
        <4>4. q.current # "awaiting" /\ (q.current # "uncertain" => sent[i].clean)
          BY <4>2
        <4>5. ASSUME NEW source \in Sources, q[source] > 0
              PROVE  q[source] \in DOMAIN sent /\ (sent[q[source]].clean \/ state'.current = "blocked")
          <5>1. CASE source = sent[i].source
            BY <3>1, <4>2, <5>1
          <5>2. CASE source # sent[i].source
            BY <3>1, <3>2, <4>2, <4>5, <5>2 DEF Receipts, StandsOn
          <5>. QED
            BY <5>1, <5>2
        <4>. QED
          BY <2>1, <3>1, <3>4, <4>1, <4>2, <4>3, <4>4, <4>5 DEF StandsOn
      <3>. SUFFICES ASSUME NEW l \in Members PROVE StandsOn(state.members[l], l)'
        BY DEF Receipts
      <3>. QED
        BY <3>3, <3>4
    <2>. QED
      BY <2>2, <2>3
  <1>4. CASE Aside
    <2>. SUFFICES ASSUME NEW k \in Members PROVE StandsOn(state.members[k], k)'
      BY DEF Receipts
    <2>1. StandsOn(state.members[k], k) /\ state'.members[k] = state.members[k] /\ state' = state
      BY <1>4 DEF Receipts, Aside
    <2>2. /\ DOMAIN sent \subseteq DOMAIN sent' /\ \A i \in DOMAIN sent : sent'[i] = sent[i]
          /\ state.policy > 0 => policies'[state.policy] = policies[state.policy]
      BY <1>4, StateTyped DEF Aside
    <2>. QED
      BY <2>1, <2>2 DEF StandsOn
  <1>. QED
    BY <1>1, <1>2, <1>3, <1>4, Asides

LEMMA PassedStep == ASSUME Types, Receipts, Passed, Next PROVE Passed'
  <1>1. CASE Initialize
    BY <1>1 DEF Initialize, Passed
  <1>2. CASE Seal
    <2>1. /\ state'.policy = state.policy /\ state'.members = state.members /\ state.current # "blocked"
          /\ sent' = sent /\ policies' = policies /\ heard' = heard
      BY <1>2 DEF Seal, Types, StateType
    <2>. QED
      BY <2>1 DEF Passed, Overtaken
  <1>3. ASSUME NEW i \in DOMAIN sent, Observe(i) PROVE Passed'
    <2>. DEFINE k == sent[i].member
                r == state.members[k]
    <2>1. /\ sent' = sent /\ policies' = policies /\ heard' = heard \cup {i} /\ state.policy > 0
          /\ sent[i].stamp.boot = policies[state.policy].boot
      BY <1>3, Admitted
    <2>2. /\ sent[i] \in ReportType /\ k \in Members /\ r \in ReceiptType /\ i \in Nat
          /\ sent[i].stamp.observed \in Nat /\ sent[i].source \in Sources
      BY Stamps, StateTyped DEF ReportType
    <2>3. r.observed \in Nat /\ \A source \in Sources : r[source] \in Nat
      BY <2>2 DEF ReceiptType, Sources
    <2>4. CASE state' = state
      <3>1. ~(state.current # "blocked" /\ Continues(r, i)) \/ Overtaken(i) \/ sent[i].clean
        <4>1. CASE Continues(r, i) /\ state.current # "blocked"
          <5>1. state'.members = [state.members EXCEPT ![k] = Receipt(@, i)]
            BY <1>3, <4>1, ObservedState
          <5>2. r.proof = i /\ r[sent[i].source] = i
            BY <2>2, <2>4, <5>1, ReceiptFields DEF Types, StateType
          <5>. QED
            BY <2>2, <4>1, <5>2 DEF Continues
        <4>. QED
          BY <4>1
      <3>2. sent[i].clean \/ state.current = "blocked" \/ Overtaken(i)
        <4>. SUFFICES ASSUME ~sent[i].clean, state.current # "blocked", ~Overtaken(i) PROVE FALSE
          OBVIOUS
        <4>1. ~(sent[i].stamp.observed >= r.observed /\ i > r[sent[i].source])
          BY <3>1 DEF Continues
        <4>2. sent[i].stamp.observed >= r.observed /\ i = r[sent[i].source]
          BY <2>2, <2>3, <4>1 DEF Overtaken
        <4>3. r[sent[i].source] > 0
          BY <2>2, <4>2, Stamps DEF Types
        <4>. QED
          BY <2>2, <4>2, <4>3 DEF Receipts, StandsOn
      <3>. QED
        BY <2>1, <2>4, <3>2 DEF Passed, Overtaken
    <2>5. CASE state' # state
      <3>1. /\ state.current # "blocked" /\ Continues(r, i) /\ state'.policy = state.policy
            /\ state'.current = IF sent[i].clean THEN state.current ELSE "blocked"
            /\ state'.members = [state.members EXCEPT ![k] = Receipt(@, i)]
        BY <1>3, <2>5, ObservedState
      <3>2. state'.members[k] = Receipt(r, i) /\ \A l \in Members \ {k} : state'.members[l] = state.members[l]
        BY <2>2, <3>1 DEF Types, StateType
      <3>3. /\ Receipt(r, i).observed = sent[i].stamp.observed
            /\ Receipt(r, i)[sent[i].source] = i
            /\ \A source \in Sources : source # sent[i].source => Receipt(r, i)[source] = r[source]
        BY <2>2, ReceiptFields DEF Types
      <3>4. ASSUME NEW j \in heard \cup {i}
            PROVE  /\ sent[j].stamp.boot = policies[state.policy].boot
                   /\ sent[j].clean \/ state'.current = "blocked" \/ Overtaken(j)'
        <4>1. sent[j].stamp.boot = policies[state.policy].boot
          BY <2>1 DEF Passed
        <4>2. CASE ~sent[i].clean
          BY <3>1, <4>1, <4>2
        <4>3. CASE sent[i].clean /\ j # i /\ ~sent[j].clean
          <5>1. Overtaken(j) /\ j \in DOMAIN sent
            BY <3>1, <4>3 DEF Passed, Types
          <5>2. /\ sent[j] \in ReportType /\ sent[j].member \in Members /\ j \in Nat
                /\ sent[j].stamp.observed \in Nat /\ sent[j].source \in Sources
            BY <5>1, Stamps DEF ReportType
          <5>3. CASE sent[j].member = k
            <6>1. CASE sent[j].stamp.observed < r.observed
              <7>1. sent[j].stamp.observed < sent[i].stamp.observed
                BY <2>2, <2>3, <3>1, <5>2, <6>1 DEF Continues
              <7>. QED
                BY <2>1, <3>2, <3>3, <4>1, <5>3, <7>1 DEF Overtaken
            <6>2. CASE j < r[sent[j].source]
              <7>1. j < Receipt(r, i)[sent[j].source]
                BY <2>2, <2>3, <3>1, <3>3, <5>2, <6>2 DEF Continues
              <7>. QED
                BY <2>1, <3>2, <4>1, <5>3, <7>1 DEF Overtaken
            <6>. QED
              BY <5>1, <5>3, <6>1, <6>2 DEF Overtaken
          <5>4. CASE sent[j].member # k
            BY <2>1, <3>2, <4>1, <5>1, <5>2, <5>4 DEF Overtaken
          <5>. QED
            BY <5>3, <5>4
        <4>. QED
          BY <4>1, <4>2, <4>3
      <3>. QED
        BY <2>1, <3>1, <3>4 DEF Passed
    <2>. QED
      BY <2>4, <2>5
  <1>4. CASE Aside
    <2>1. /\ state' = state /\ heard' = heard /\ \A i \in heard : sent'[i] = sent[i]
          /\ state.policy > 0 => policies'[state.policy] = policies[state.policy]
      BY <1>4, StateTyped DEF Aside, Types
    <2>. QED
      BY <2>1 DEF Passed, Overtaken
  <1>. QED
    BY <1>1, <1>2, <1>3, <1>4, Asides

-----------------------------------------------------------------------------
(* The state of the barrier, and the invariant.                            *)

LEMMA ValidStep == ASSUME Types, StateValid, Next PROVE StateValid'
  <1>1. CASE Initialize
    <2>1. /\ state'.policy = Current /\ state'.current = "collecting"
          /\ \A k \in Members : state'.members[k] = Awaited
      BY <1>1 DEF Initialize, NoState
    <2>2. Current > 0
      BY <1>1 DEF Initialize, InForce
    <2>. QED
      BY <2>1, <2>2 DEF StateValid, Valid, ValidReceipt, Awaited
  <1>2. CASE Seal
    <2>1. /\ state'.policy = state.policy /\ state'.members = state.members
          /\ state'.current = "sealed" /\ state'.last = now
      BY <1>2 DEF Seal, Types, StateType
    <2>2. Valid(state) /\ now >= state.last /\ \A k \in Members : Stands(state.members[k], now)
      BY <1>2 DEF Seal, Ready
    <2>3. state.policy > 0
      BY <2>2 DEF Valid
    <2>4. ASSUME NEW k \in Members PROVE ValidReceipt(state.members[k], "sealed", now)
      <3>1. ValidReceipt(state.members[k], state.current, state.last) /\ Stands(state.members[k], now)
        BY <2>2 DEF Valid
      <3>. QED
        BY <3>1 DEF ValidReceipt, Stands
    <2>. QED
      BY <2>1, <2>3, <2>4 DEF StateValid, Valid
  <1>3. ASSUME NEW i \in DOMAIN sent, Observe(i) PROVE StateValid'
    <2>1. Valid(state) /\ state.policy > 0 /\ state.last <= now
      BY <1>3, Admitted
    <2>2. CASE state' = state
      BY <2>1, <2>2 DEF StateValid, Valid, ValidReceipt
    <2>3. CASE state' # state
      <3>. DEFINE k == sent[i].member
      <3>1. /\ state.current # "blocked" /\ state'.policy = state.policy /\ state'.last = now
            /\ state'.current = IF sent[i].clean THEN state.current ELSE "blocked"
            /\ state'.members = [state.members EXCEPT ![k] = Receipt(@, i)]
        BY <1>3, <2>3, ObservedState
      <3>2. k \in Members /\ state.members[k] \in ReceiptType /\ i \in Nat \ {0} /\ sent \in Seq(ReportType)
        BY Stamps, StateTyped DEF Types
      <3>3. ASSUME NEW l \in Members, l # k
            PROVE  ValidReceipt(state'.members[l], state'.current, now)
        <4>1. ValidReceipt(state.members[l], state.current, state.last) /\ state'.members[l] = state.members[l]
          BY <2>1, <3>1, <3>3 DEF Valid, Types, StateType
        <4>2. state.members[l].observed \in Nat /\ state.last \in Nat /\ now \in Nat
          BY StateTyped DEF ReceiptType, Types
        <4>3. state'.current = "sealed" => state.current = "sealed"
          BY <3>1
        <4>4. state.members[l].current # "uncertain"
          BY <3>1, <4>1 DEF ValidReceipt
        <4>. QED
          BY <2>1, <4>1, <4>2, <4>3, <4>4 DEF ValidReceipt
      <3>4. ASSUME NEW l \in Members, l = k
            PROVE  ValidReceipt(state'.members[l], state'.current, now)
        <4>. DEFINE r == state.members[k]
                    q == Receipt(r, i)
        <4>1. state'.members[l] = q
          BY <3>1, <3>2, <3>4 DEF Types, StateType
        <4>2. /\ q.proof = i /\ q.observed = sent[i].stamp.observed /\ q.expires = sent[i].stamp.expires
              /\ q.current = IF sent[i].clean THEN IF sent[i].source = "node" THEN "acknowledged" ELSE "isolated"
                             ELSE "uncertain"
              /\ q[sent[i].source] = i
          <5>1. sent \in Seq(ReportType) /\ r \in ReceiptType
            BY <3>2
          <5>. HIDE DEF r
          <5>. QED
            BY <5>1, ReceiptFields
        <4>. HIDE DEF q
        <4>3. sent[i].stamp.observed <= now /\ sent[i].stamp.expires > sent[i].stamp.observed
          BY <1>3, Admitted
        <4>4. sent[i].source \in Sources
          BY Stamps DEF ReportType
        <4>5. q.node = i \/ q.fence = i
          BY <4>2, <4>4 DEF Sources
        <4>6. q.current = "acknowledged" => q.node = i
          BY <4>2
        <4>7. q.current = "isolated" => q.fence = i
          BY <4>2, <4>4 DEF Sources
        <4>8. q.current = "uncertain" <=> ~sent[i].clean
          BY <4>2
        <4>9. q.current \in {"acknowledged", "isolated", "uncertain"}
          BY <4>2
        <4>. QED
          BY <3>1, <3>2, <4>1, <4>2, <4>3, <4>5, <4>6, <4>7, <4>8, <4>9 DEF ValidReceipt
      <3>5. \A l \in Members : ValidReceipt(state'.members[l], state'.current, state'.last)
        BY <3>1, <3>3, <3>4
      <3>. QED
        BY <2>1, <3>1, <3>5 DEF StateValid, Valid
    <2>. QED
      BY <2>2, <2>3
  <1>4. CASE Aside
    BY <1>4 DEF Aside, StateValid, Valid, ValidReceipt
  <1>. QED
    BY <1>1, <1>2, <1>3, <1>4, Asides

LEMMA InitInv == Init => IInv
  <1>. SUFFICES ASSUME Init PROVE IInv
    OBVIOUS
  <1>1. Types
    <2>1. NoState \in StateType
      BY AwaitedType DEF NoState, StateType
    <2>2. [boot |-> 1, closed |-> FALSE, latch |-> FALSE, busy |-> FALSE, isolated |-> {}, retired |-> FALSE]
            \in MemberType
      BY DEF MemberType
    <2>3. member \in [Members -> MemberType] /\ lastQuiet \in [Members -> Nat \X Nat]
      BY <2>2 DEF Init
    <2>. QED
      BY <2>1, <2>3 DEF Init, Types, NoState
  <1>2. DOMAIN sent = {} /\ heard = {} /\ state = NoState
    BY DEF Init
  <1>3. Clocks /\ Stopped /\ Passed
    BY <1>2 DEF Clocks, Stopped, Passed
  <1>4. Since
    <2>1. \A k \in Members : ~Quiet(member[k])
      BY BarrierAssumption DEF Init, Quiet
    <2>. QED
      BY <1>2, <2>1 DEF Since
  <1>5. Receipts
    BY <1>2, AwaitedType DEF Receipts, StandsOn, NoState, Awaited
  <1>6. StateValid
    BY <1>2 DEF StateValid, NoState
  <1>. QED
    BY <1>1, <1>3, <1>4, <1>5, <1>6 DEF IInv

\* The invariant of the barrier holds of every inventory: of what members, receiver
\* and reports are, and of all that Observe, Initialize and Seal make of the state.
THEOREM InductiveInvariant == Spec => []IInv
  <1>1. IInv /\ [Next]_vars => IInv'
    <2>. SUFFICES ASSUME IInv, [Next]_vars PROVE IInv'
      OBVIOUS
    <2>1. CASE Next
      <3>1. Types'
        BY <2>1, TypesStep DEF IInv
      <3>. QED
        BY <2>1, <3>1, ClocksStep, StoppedStep, SinceStep, ReceiptsStep, PassedStep, ValidStep DEF IInv
    <2>2. CASE UNCHANGED vars
      <3>1. Types' /\ Clocks' /\ Stopped'
        BY <2>2 DEF IInv, vars, Types, Clocks, Stopped
      <3>2. Since' /\ Passed'
        BY <2>2 DEF IInv, vars, Since, Quiet, Passed, Overtaken
      <3>3. Receipts'
        <4>. SUFFICES ASSUME NEW k \in Members PROVE StandsOn(state.members[k], k)'
          BY DEF Receipts
        <4>1. StandsOn(state.members[k], k)
          BY DEF IInv, Receipts
        <4>. QED
          BY <2>2, <4>1 DEF vars, StandsOn
      <3>4. StateValid'
        BY <2>2 DEF IInv, vars, StateValid, Valid, ValidReceipt
      <3>. QED
        BY <3>1, <3>2, <3>3, <3>4 DEF IInv
    <2>. QED
      BY <2>1, <2>2
  <1>. QED
    BY <1>1, InitInv, PTL DEF Spec

\* The state of a barrier that was initialized is Valid, whatever reports are
\* observed and in whatever order: Observe and Seal return what their own checks,
\* and every later Observe, accept.
THEOREM BarrierStateValid == Spec => []StateValid
  <1>1. IInv => StateValid
    BY DEF IInv
  <1>. QED
    BY <1>1, InductiveInvariant, PTL

\* What a barrier that can be used has of each member: a clean report of this boot,
\* no older than MaximumAge.
LEMMA UsableReceipts ==
    ASSUME IInv, CanUse, NEW k \in Members
    PROVE  LET r == state.members[k]
           IN  /\ state.current # "blocked"
               /\ r.proof \in DOMAIN sent /\ sent[r.proof].member = k /\ sent[r.proof].clean
               /\ sent[r.proof].stamp.boot = boot /\ sent[r.proof].stamp.observed = r.observed
               /\ policies[state.policy].boot = boot
               /\ now - r.observed < MaximumAge
  <1>. DEFINE r == state.members[k]
  <1>1. /\ state.current # "blocked" /\ state.policy = Current
        /\ Stands(r, now) /\ policies[Current].boot = boot
    BY DEF CanUse, Usable, Ready, InForce
  <1>2. StandsOn(r, k)
    BY DEF IInv, Receipts
  <1>3. r.current \in {"acknowledged", "isolated"}
    BY <1>1 DEF Stands
  <1>4. /\ r.proof \in DOMAIN sent /\ sent[r.proof].member = k /\ sent[r.proof].clean
        /\ sent[r.proof].stamp.boot = policies[state.policy].boot
        /\ r.observed = sent[r.proof].stamp.observed
    BY <1>2, <1>3 DEF StandsOn
  <1>5. r \in ReceiptType
    BY StateTyped DEF IInv
  <1>6. r.observed \in Nat /\ r.expires \in Nat /\ now \in Nat
    BY <1>5 DEF ReceiptType, IInv, Types
  <1>7. r.expires > now /\ r.expires - r.observed <= MaximumAge
    BY <1>1 DEF Stands
  <1>8. now - r.observed < MaximumAge
    BY <1>6, <1>7, BarrierAssumption
  <1>. QED
    BY <1>1, <1>4, <1>8

\* A barrier that can be used stands on members that have no effect any more, unless
\* somebody opened them again: neither restarts nor reboots, new policies or any order
\* of reports lead the receiver to believe a member stopped that is not.
THEOREM BarrierMeansQuiet == Spec => []UsableMeansQuiet
  <1>1. IInv => UsableMeansQuiet
    <2>. SUFFICES ASSUME IInv, CanUse, NEW k \in Members, k \notin reopened
                  PROVE  Quiet(member[k])
      BY DEF UsableMeansQuiet
    <2>. DEFINE i == state.members[k].proof
    <2>1. i \in DOMAIN sent /\ sent[i].member = k /\ sent[i].clean
      BY UsableReceipts
    <2>. HIDE DEF i
    <2>2. Said(sent[i], member[k])
      BY <2>1 DEF IInv, Stopped
    <2>3. sent[i] \in ReportType /\ member[k] \in MemberType
      BY <2>1, Stamps DEF IInv, Types
    <2>. QED
      BY <2>2, <2>3, SaidMeansQuiet
  <1>. QED
    BY <1>1, InductiveInvariant, PTL

\* Every member was quiet less than MaximumAge before the barrier is used, on the
\* clock of the boot that uses it: Fresh compares boots, and a receipt keeps the dates
\* of the report it stands on.
THEOREM BarrierWasQuiet == Spec => []UsableWasQuiet
  <1>1. IInv => UsableWasQuiet
    <2>. SUFFICES ASSUME IInv, CanUse, NEW k \in Members
                  PROVE  lastQuiet[k][1] = boot /\ now - lastQuiet[k][2] < MaximumAge
      BY DEF UsableWasQuiet
    <2>. DEFINE i == state.members[k].proof
    <2>1. /\ i \in DOMAIN sent /\ sent[i].member = k /\ sent[i].clean /\ sent[i].stamp.boot = boot
          /\ now - sent[i].stamp.observed < MaximumAge
      BY UsableReceipts
    <2>. HIDE DEF i
    <2>2. lastQuiet[k][1] = boot /\ lastQuiet[k][2] >= sent[i].stamp.observed
      BY <2>1 DEF IInv, Since
    <2>3. sent[i].stamp.observed \in Nat
      BY <2>1, Stamps DEF IInv
    <2>4. lastQuiet[k] \in Nat \X Nat /\ now \in Nat
      BY DEF IInv, Types
    <2>5. lastQuiet[k][2] \in Nat
      BY <2>4
    <2>. QED
      BY <2>1, <2>2, <2>3, <2>4, <2>5, BarrierAssumption
  <1>. QED
    BY <1>1, InductiveInvariant, PTL

\* No report to the contrary that arrived fresh is passed over by a barrier that can
\* still be used, unless its member's receipt stands on a later report, or a later one
\* from the same source counted: the reverse of a stop is never lost by reordering.
THEOREM BarrierRevoked == Spec => []NegativeRevokes
  <1>1. IInv => NegativeRevokes
    <2>. SUFFICES ASSUME IInv, CanUse, NEW i \in heard, ~sent[i].clean,
                         ~(i < state.members[sent[i].member][sent[i].source])
                  PROVE  i < state.members[sent[i].member].proof
      BY DEF NegativeRevokes
    <2>. DEFINE j == state.members[sent[i].member].proof
    <2>1. i \in DOMAIN sent /\ sent[i].member \in Members /\ i \in Nat /\ sent[i].stamp.observed \in Nat
      BY Stamps DEF IInv, Types
    <2>2. /\ state.current # "blocked" /\ j \in DOMAIN sent /\ sent[j].stamp.boot = boot
          /\ sent[j].stamp.observed = state.members[sent[i].member].observed
          /\ policies[state.policy].boot = boot
      BY <2>1, UsableReceipts
    <2>3. sent[i].stamp.boot = boot /\ sent[i].stamp.observed < sent[j].stamp.observed
      BY <2>2 DEF IInv, Passed, Overtaken
    <2>. HIDE DEF j
    <2>4. j \in Nat /\ sent[j].stamp.observed \in Nat
      BY <2>2, Stamps DEF IInv
    <2>5. ~(j <= i)
      BY <2>1, <2>2, <2>3, <2>4 DEF IInv, Clocks
    <2>. QED
      BY <2>1, <2>4, <2>5 DEF j
  <1>. QED
    BY <1>1, InductiveInvariant, PTL
=============================================================================
