------------------------- MODULE CohortTrustProofs -------------------------
(***************************************************************************)
(* Whose word is taken for a cohort, and where a cohort comes from.        *)
(*                                                                         *)
(* CohortTrust: the type invariant; that authenticate accepts only what a  *)
(* quorum of separate holders signed; and that it and find_manifest turn   *)
(* nothing good away: for every list of keys, signatures and copies.       *)
(*                                                                         *)
(* CohortSource: that export and inspect_original list nothing in a state  *)
(* it never had, whatever a writer does meanwhile, and that what they say  *)
(* of a source left alone is so: for every tree and every manifest.        *)
(***************************************************************************)
EXTENDS CohortTrust, CohortSource, Functions, FiniteSetTheorems, SequenceTheorems, WellFoundedInduction, TLAPS

\* The registry entries whose signature was counted.
Counted == {i \in DOMAIN trust.keys : trust.keys[i].id \in seen}

\* Before the loop nothing is counted; from there on the checks in front of it
\* have been passed.
Stages ==
    /\ request \in Requests
    /\ pc \in {"find", "admit", "count", "end"}
    /\ at \in Nat
    /\ pc \in {"find", "admit"} => seen = {} /\ domains = {} /\ roles = {} /\ verdict = "none"
    /\ pc = "count" => Admissible(manifest) /\ at >= 1 /\ verdict = "none"
    /\ verdict = "accepted" => Admissible(manifest) /\ roles = {"recovery", "witness"}

\* Each counted entry is good by itself, and no two share a domain.
Separate ==
    /\ \A i \in Counted :
         /\ ~trust.keys[i].revoked
         /\ trust.keys[i].domain \in domains
         /\ \E n \in DOMAIN signatures : Verifies(trust.keys[i], signatures[n])
    /\ \A i, j \in Counted : i # j => trust.keys[i].domain # trust.keys[j].domain
    /\ roles = {trust.keys[i].role : i \in Counted}

\* One entry was counted for each signature passed.
Tally ==
    /\ IsFiniteSet(Counted)
    /\ pc = "count" => Cardinality(Counted) = at - 1
    /\ verdict = "accepted" => Cardinality(Counted) >= trust.threshold

QuorumInv == Stages /\ Separate /\ Tally

-----------------------------------------------------------------------------

\* What TypeOK says holds in the first state and is kept by every step.
THEOREM TrustTypeOK == Spec => []TypeOK
<1>1. Init => TypeOK
  BY DEF Init, TypeOK, anchor, trust
<1>2. TypeOK /\ [Next]_vars => TypeOK'
  <2> SUFFICES ASSUME TypeOK, [Next]_vars PROVE TypeOK'
    OBVIOUS
  <2> USE DEF TypeOK, anchor, trust
  <2>1. CASE TakeCopy
    BY <2>1 DEF TakeCopy, Copy
  <2>2. CASE PassOver
    BY <2>2 DEF PassOver
  <2>3. CASE GiveUp
    BY <2>3 DEF GiveUp, Decide
  <2>4. CASE Admit
    BY <2>4 DEF Admit, Decide
  <2>5. CASE Count
    <3>1. CASE \A i \in Registered(signatures[at].key) : ~Countable(trust.keys[i], signatures[at])
      BY <2>5, <3>1 DEF Count, Decide
    <3>2. ASSUME NEW i \in Registered(signatures[at].key),
                 seen' = seen \cup {trust.keys[i].id},
                 domains' = domains \cup {trust.keys[i].domain},
                 roles' = roles \cup {trust.keys[i].role},
                 at' = at + 1
          PROVE  TypeOK'
      <4>1. i \in DOMAIN trust.keys
        BY <3>2 DEF Registered
      <4>2. UNCHANGED <<request, manifest, pc, verdict>>
        BY <2>5, <3>2 DEF Count, Decide
      <4> QED BY <3>2, <4>1, <4>2
    <3> QED BY <2>5, <3>1, <3>2 DEF Count
  <2>6. CASE Conclude
    BY <2>6 DEF Conclude, Decide
  <2>7. CASE UNCHANGED vars
    BY <2>7 DEF vars
  <2> QED BY <2>1, <2>2, <2>3, <2>4, <2>5, <2>6, <2>7 DEF Next
<1> QED BY <1>1, <1>2, PTL DEF Spec

-----------------------------------------------------------------------------

\* Under an admissible manifest the identity of a key tells its entry.
LEMMA OneEntry ==
  ASSUME Admissible(manifest), NEW i \in DOMAIN trust.keys, NEW j \in DOMAIN trust.keys,
         trust.keys[i].id = trust.keys[j].id
  PROVE  i = j
<1>1. ValidTrust(trust)
  BY DEF Admissible
<1>2. \A a, b \in DOMAIN trust.keys : a # b => trust.keys[a].id # trust.keys[b].id
  BY <1>1, Zenon DEF ValidTrust
<1> QED BY <1>2, Zenon

\* The sizes an admissible request has.
LEMMA Sizes ==
  ASSUME Admissible(manifest)
  PROVE  /\ trust.threshold \in Int
         /\ Len(signatures) \in Int
         /\ Len(signatures) >= trust.threshold
<1>1. ValidTrust(trust) /\ Len(signatures) \in trust.threshold .. 32
  BY DEF Admissible
<1>2. trust.threshold \in 2 .. 32
  BY <1>1 DEF ValidTrust
<1>3. \A t, n : t \in 2 .. 32 /\ n \in t .. 32 => t \in Int /\ n \in Int /\ n >= t
  OBVIOUS
<1> QED BY <1>1, <1>2, <1>3, Zenon

\* A step that leaves the counters alone leaves what they say.
LEMMA CountersKept ==
  ASSUME Separate, UNCHANGED <<request, seen, domains, roles>>
  PROVE  Separate' /\ Counted' = Counted
  BY DEF Separate, Counted, trust, signatures, Verifies, anchor

\* Nothing is counted in the first state.
LEMMA QuorumInit ==
  ASSUME Init
  PROVE  QuorumInv
<1>1. Counted = {}
  BY DEF Init, Counted
<1>2. Stages
  BY DEF Init, Stages
<1>3. Separate
  BY <1>1 DEF Init, Separate
<1>4. Tally
  BY <1>1, FS_EmptySet DEF Init, Tally
<1> QED BY <1>2, <1>3, <1>4 DEF QuorumInv

\* Counting a signature adds one entry, of a new domain, that signed.
LEMMA CountOne ==
  ASSUME QuorumInv, pc = "count", at <= Len(signatures),
         NEW i \in Registered(signatures[at].key),
         Countable(trust.keys[i], signatures[at]),
         seen' = seen \cup {trust.keys[i].id},
         domains' = domains \cup {trust.keys[i].domain},
         roles' = roles \cup {trust.keys[i].role},
         at' = at + 1,
         UNCHANGED <<request, manifest, pc, verdict>>
  PROVE  QuorumInv'
<1> USE DEF QuorumInv
<1>0. /\ Admissible(manifest) /\ at \in Nat /\ at >= 1 /\ request \in Requests /\ verdict = "none"
      /\ i \in DOMAIN trust.keys /\ trust.keys[i].id = signatures[at].key
  BY DEF Stages, Registered
<1>1. trust' = trust /\ signatures' = signatures /\ anchor' = anchor
  BY DEF trust, signatures, anchor
<1>2. Admissible(manifest)'
  BY <1>0, <1>1 DEF Admissible
<1>3. Counted' = Counted \cup {i} /\ i \notin Counted
  <2>1. i \notin Counted
    BY <1>0 DEF Counted, Countable
  <2>2. ASSUME NEW j \in DOMAIN trust.keys, trust.keys[j].id = trust.keys[i].id
        PROVE  j = i
    BY <1>0, <2>2, OneEntry
  <2> QED BY <1>0, <1>1, <2>1, <2>2 DEF Counted
<1>4. Stages'
  BY <1>0, <1>2 DEF Stages
<1>5. Separate'
  <2>1. at \in DOMAIN signatures
    BY <1>0, Sizes, RequestsAssumption DEF signatures
  <2>2. ~trust.keys[i].revoked /\ Verifies(trust.keys[i], signatures[at]) /\ trust.keys[i].domain \notin domains
    BY DEF Countable
  <2>3. \A j \in Counted' :
          /\ ~trust.keys[j].revoked
          /\ trust.keys[j].domain \in domains'
          /\ \E n \in DOMAIN signatures : Verifies(trust.keys[j], signatures[n])
    BY <1>3, <2>1, <2>2 DEF Separate
  <2>4. \A j, k \in Counted' : j # k => trust.keys[j].domain # trust.keys[k].domain
    BY <1>3, <2>2 DEF Separate
  <2>5. roles' = {trust.keys[j].role : j \in Counted'}
    BY <1>3 DEF Separate
  <2>6. \A k, s : Verifies(k, s)' <=> Verifies(k, s)
    BY <1>1 DEF Verifies
  <2> QED BY <1>1, <2>3, <2>4, <2>5, <2>6 DEF Separate, Verifies
<1>6. Tally'
  <2>1. IsFiniteSet(Counted) /\ Cardinality(Counted) = at - 1
    BY DEF Tally
  <2>2. IsFiniteSet(Counted \cup {i}) /\ Cardinality(Counted \cup {i}) = Cardinality(Counted) + 1
    BY <1>3, <2>1, FS_AddElement, Zenon
  <2>3. IsFiniteSet(Counted') /\ Cardinality(Counted') = at
    BY <1>0, <1>3, <2>1, <2>2
  <2> QED
    BY <1>0, <2>3 DEF Tally
<1> QED BY <1>4, <1>5, <1>6

\* Every step keeps the count.
LEMMA QuorumNext ==
  ASSUME QuorumInv, [Next]_vars
  PROVE  QuorumInv'
<1> USE DEF QuorumInv
<1>1. CASE TakeCopy \/ PassOver \/ GiveUp
  <2>1. UNCHANGED <<request, seen, domains, roles>> /\ pc \in {"find"} /\ verdict' # "accepted" /\ at' \in Nat
        /\ pc' \in {"find", "admit", "end"} /\ (pc' \in {"find", "admit"} => verdict' = "none")
    BY <1>1 DEF TakeCopy, PassOver, GiveUp, Decide, Stages
  <2>2. Stages'
    BY <2>1 DEF Stages
  <2>3. Separate' /\ Counted' = Counted
    BY <2>1, CountersKept
  <2>4. Tally'
    BY <2>1, <2>3 DEF Tally
  <2> QED BY <2>2, <2>3, <2>4
<1>2. CASE Admit
  <2>1. UNCHANGED <<request, manifest, seen, domains, roles>> /\ pc = "admit" /\ seen = {}
    BY <1>2 DEF Admit, Stages
  <2>2. Separate' /\ Counted' = Counted
    BY <2>1, CountersKept
  <2>3. Counted = {}
    BY <2>1 DEF Counted
  <2>4. Admissible(manifest)' <=> Admissible(manifest)
    BY <2>1 DEF Admissible, trust, anchor, signatures
  <2>5. Stages'
    BY <1>2, <2>1, <2>4 DEF Stages, Admit, Decide
  <2>6. Tally'
    BY <1>2, <2>1, <2>2, <2>3, FS_EmptySet DEF Tally, Stages, Admit, Decide
  <2> QED BY <2>2, <2>5, <2>6
<1>3. CASE Count
  <2>1. CASE \E i \in Registered(signatures[at].key) : Countable(trust.keys[i], signatures[at])
    <3>1. PICK i \in Registered(signatures[at].key) :
            /\ Countable(trust.keys[i], signatures[at])
            /\ seen' = seen \cup {trust.keys[i].id}
            /\ domains' = domains \cup {trust.keys[i].domain}
            /\ roles' = roles \cup {trust.keys[i].role}
            /\ at' = at + 1
            /\ UNCHANGED <<pc, verdict>>
      BY <1>3, <2>1 DEF Count
    <3>2. pc = "count" /\ at <= Len(signatures) /\ UNCHANGED <<request, manifest, pc, verdict>>
      BY <1>3, <3>1 DEF Count
    <3> QED BY <3>1, <3>2, CountOne
  <2>2. CASE ~ \E i \in Registered(signatures[at].key) : Countable(trust.keys[i], signatures[at])
    <3>1. /\ UNCHANGED <<request, manifest, at, seen, domains, roles>>
          /\ verdict' = "refused" /\ pc' = "end"
      BY <1>3, <2>2 DEF Count, Decide
    <3>2. Separate' /\ Counted' = Counted
      BY <3>1, CountersKept
    <3> QED BY <3>1, <3>2 DEF Stages, Tally
  <2> QED BY <2>1, <2>2
<1>4. CASE Conclude
  <2>1. /\ UNCHANGED <<request, manifest, at, seen, domains, roles>>
        /\ pc = "count" /\ pc' = "end" /\ at > Len(signatures)
        /\ verdict' = "accepted" => roles = {"recovery", "witness"}
    BY <1>4 DEF Conclude, Decide
  <2>2. Separate' /\ Counted' = Counted
    BY <2>1, CountersKept
  <2>3. Admissible(manifest) /\ (Admissible(manifest)' <=> Admissible(manifest))
    BY <2>1 DEF Stages, Admissible, trust, anchor, signatures
  <2>4. Stages'
    BY <2>1, <2>3 DEF Stages
  <2>5. Cardinality(Counted) >= trust.threshold
    BY <2>1, <2>3, Sizes DEF Stages, Tally
  <2>6. trust' = trust
    BY <2>1 DEF trust
  <2> QED BY <2>1, <2>2, <2>4, <2>5, <2>6 DEF Tally
<1>5. CASE UNCHANGED vars
  <2>1. UNCHANGED <<request, pc, at, manifest, seen, domains, roles, verdict>>
    BY <1>5 DEF vars
  <2>2. Separate' /\ Counted' = Counted
    BY <2>1, CountersKept
  <2>3. (Admissible(manifest)' <=> Admissible(manifest)) /\ trust' = trust
    BY <2>1 DEF Admissible, trust, anchor, signatures
  <2> QED BY <2>1, <2>2, <2>3 DEF Stages, Tally
<1> QED BY <1>1, <1>2, <1>3, <1>4, <1>5 DEF Next

\* What was counted at the end is the quorum.
LEMMA QuorumEnough ==
  ASSUME QuorumInv
  PROVE  AcceptedByQuorum
<1> SUFFICES ASSUME verdict = "accepted"
    PROVE  \E S \in SUBSET DOMAIN trust.keys :
             /\ Endorses(S)
             /\ Cardinality(S) >= trust.threshold
             /\ {trust.keys[i].role : i \in S} = {"recovery", "witness"}
  BY DEF AcceptedByQuorum
<1>1. Counted \in SUBSET DOMAIN trust.keys
  BY DEF Counted
<1>2. \A i, j \in Counted : i # j => trust.keys[i].public_key # trust.keys[j].public_key
  <2>1. ValidTrust(trust)
    BY DEF QuorumInv, Stages, Admissible
  <2>2. \A i, j \in DOMAIN trust.keys : i # j => trust.keys[i].public_key # trust.keys[j].public_key
    BY <2>1, Zenon DEF ValidTrust
  <2> QED BY <1>1, <2>2, Zenon
<1>3. Endorses(Counted)
  BY <1>1, <1>2 DEF QuorumInv, Separate, Endorses
<1> QED BY <1>1, <1>3 DEF QuorumInv, Stages, Separate, Tally

\* authenticate accepts only what enough separate holders of separate domains
\* signed: for every policy, every envelope and every order of signatures.
THEOREM TrustAcceptedByQuorum == Spec => []AcceptedByQuorum
<1>1. QuorumInv /\ [Next]_vars => QuorumInv'
  BY QuorumNext
<1>2. Init => QuorumInv
  BY QuorumInit
<1>3. QuorumInv => AcceptedByQuorum
  BY QuorumEnough
<1> QED BY <1>1, <1>2, <1>3, PTL DEF Spec

-----------------------------------------------------------------------------
(* Nothing good is turned away.  Of a request that ought to be accepted,   *)
(* the search has an intact copy before it until it finds one, and the     *)
(* loop has counted exactly the signatures it has passed: each under its   *)
(* own key, because there are as many of them as signers.                  *)

\* S is an acceptable set of holders who signed, each once and nobody else.
SignedBy(S) ==
    /\ S \subseteq DOMAIN trust.keys
    /\ Endorses(S)
    /\ {trust.keys[i].role : i \in S} = {"recovery", "witness"}
    /\ Cardinality(S) = Len(signatures)
    /\ \A n \in DOMAIN signatures : \E i \in S :
         trust.keys[i].id = signatures[n].key /\ Verifies(trust.keys[i], signatures[n])
    /\ \A i \in S : \E n \in DOMAIN signatures : trust.keys[i].id = signatures[n].key

GoodRequest ==
    /\ anchor.manifest \in {request.copies[i] : i \in DOMAIN request.copies} \cup {request.explicit}
    /\ Admissible(anchor.manifest)
    /\ WellSigned

\* An intact copy is still to be looked at.
Ahead ==
    \/ at = 0 /\ request.explicit = anchor.manifest
    \/ \E i \in DOMAIN request.copies : i >= at /\ request.copies[i] = anchor.manifest

OnCourse ==
    GoodRequest =>
        /\ pc = "find" => Ahead
        /\ pc = "admit" => manifest = anchor.manifest
        /\ pc = "count" =>
             /\ at \in 1 .. Len(signatures) + 1
             /\ seen = {signatures[n].key : n \in 1 .. at - 1}
             /\ domains = {trust.keys[i].domain : i \in Counted}
        /\ pc = "end" => verdict = "accepted"

\* As many signatures as signers: no two of them name the same key.
LEMMA KeysDistinct ==
  ASSUME NEW S, SignedBy(S), Admissible(manifest), request \in Requests,
         NEW a \in DOMAIN signatures, NEW b \in DOMAIN signatures,
         signatures[a].key = signatures[b].key
  PROVE  a = b
<1> DEFINE Signer(n) == CHOOSE i \in S : trust.keys[i].id = signatures[n].key
           f == [n \in DOMAIN signatures |-> Signer(n)]
<1>1. DOMAIN signatures = 1 .. Len(signatures) /\ Len(signatures) \in Nat
  <2>1. DOMAIN signatures = 1 .. Len(signatures)
    BY RequestsAssumption DEF signatures
  <2>2. Len(signatures) \in Int /\ trust.threshold \in 2 .. 32 /\ Len(signatures) >= trust.threshold
    BY Sizes DEF Admissible, ValidTrust
  <2>3. \A t, n : t \in 2 .. 32 /\ n \in Int /\ n >= t => n \in Nat
    OBVIOUS
  <2> QED BY <2>1, <2>2, <2>3, Zenon
<1>2. ASSUME NEW n \in DOMAIN signatures
      PROVE  Signer(n) \in S /\ trust.keys[Signer(n)].id = signatures[n].key
  <2>1. \E i \in S : trust.keys[i].id = signatures[n].key
    BY DEF SignedBy
  <2> QED BY <2>1
<1>3. ASSUME NEW i \in S PROVE \E n \in DOMAIN signatures : f[n] = i
  <2>1. PICK n \in DOMAIN signatures : trust.keys[i].id = signatures[n].key
    BY DEF SignedBy
  <2>2. trust.keys[Signer(n)].id = trust.keys[i].id /\ Signer(n) \in S
    BY <1>2, <2>1
  <2>3. Signer(n) = i
    <3>1. Signer(n) \in DOMAIN trust.keys /\ i \in DOMAIN trust.keys
      BY <2>2 DEF SignedBy
    <3> HIDE DEF Signer
    <3> QED BY <2>2, <3>1, OneEntry
  <2> QED BY <2>3
<1>4. f \in Surjection(DOMAIN signatures, S)
  <2>1. f \in [DOMAIN signatures -> S]
    BY <1>2
  <2> HIDE DEF f
  <2> QED BY <1>3, <2>1 DEF Surjection
<1>5. IsFiniteSet(DOMAIN signatures) /\ Cardinality(DOMAIN signatures) = Len(signatures)
  <2>1. \A n \in Nat : IsFiniteSet(1 .. n) /\ Cardinality(1 .. n) = n
    BY FS_Interval
  <2> QED BY <1>1, <2>1, Zenon
<1>6. f \in Injection(DOMAIN signatures, S)
  <2>1. Cardinality(S) = Cardinality(DOMAIN signatures)
    BY <1>5 DEF SignedBy
  <2> HIDE DEF f
  <2> QED BY <1>4, <1>5, <2>1, FS_Surjection
<1>7. f[a] = f[b]
  OBVIOUS
<1>8. \A x, y \in DOMAIN signatures : f[x] = f[y] => x = y
  <2> HIDE DEF f
  <2> QED BY <1>6 DEF Injection, IsInjective
<1> HIDE DEF f
<1> QED BY <1>7, <1>8

\* What the loop counted so far is of the signers, and the signature before it
\* counts next.
LEMMA NextCounts ==
  ASSUME NEW S, SignedBy(S), QuorumInv, OnCourse, GoodRequest,
         pc = "count", at <= Len(signatures)
  PROVE  /\ at \in DOMAIN signatures
         /\ \E i \in Registered(signatures[at].key) : Countable(trust.keys[i], signatures[at])
<1>1. /\ Admissible(manifest) /\ request \in Requests /\ at \in Nat /\ at >= 1
      /\ seen = {signatures[n].key : n \in 1 .. at - 1}
      /\ domains = {trust.keys[i].domain : i \in Counted}
  BY DEF QuorumInv, Stages, OnCourse
<1>2. at \in DOMAIN signatures /\ \A n \in 1 .. at - 1 : n \in DOMAIN signatures
  <2>1. DOMAIN signatures = 1 .. Len(signatures) /\ Len(signatures) \in Int
    BY <1>1, Sizes, RequestsAssumption DEF signatures
  <2> QED BY <1>1, <2>1
<1>3. PICK i \in S : trust.keys[i].id = signatures[at].key /\ Verifies(trust.keys[i], signatures[at])
  BY <1>2 DEF SignedBy
<1>4. i \in Registered(signatures[at].key) /\ ~trust.keys[i].revoked
  BY <1>3 DEF SignedBy, Endorses, Registered
<1>5. signatures[at].key \notin seen
  <2> SUFFICES ASSUME NEW n \in 1 .. at - 1, signatures[n].key = signatures[at].key
               PROVE  FALSE
    BY <1>1
  <2>1. n = at
    BY <1>1, <1>2, KeysDistinct
  <2> QED BY <1>1, <2>1
<1>6. trust.keys[i].domain \notin domains
  <2> SUFFICES ASSUME NEW j \in Counted, trust.keys[j].domain = trust.keys[i].domain
               PROVE  FALSE
    BY <1>1
  <2>1. PICK n \in 1 .. at - 1 : trust.keys[j].id = signatures[n].key
    BY <1>1 DEF Counted
  <2>2. PICK k \in S : trust.keys[k].id = signatures[n].key
    BY <1>2, <2>1 DEF SignedBy
  <2>3. j = k
    BY <1>1, <2>1, <2>2, OneEntry DEF Counted, SignedBy
  <2>4. j # i
    BY <1>3, <1>5 DEF Counted
  <2> QED BY <2>2, <2>3, <2>4 DEF SignedBy, Endorses
<1>7. Countable(trust.keys[i], signatures[at])
  BY <1>3, <1>4, <1>5, <1>6 DEF Countable
<1> QED BY <1>2, <1>4, <1>7

\* When the loop is through, it has counted all the signers and nobody else.
LEMMA AllCounted ==
  ASSUME NEW S, SignedBy(S), QuorumInv, OnCourse, GoodRequest,
         pc = "count", at > Len(signatures)
  PROVE  roles = {"recovery", "witness"}
<1>1. /\ Admissible(manifest) /\ request \in Requests /\ at \in Nat
      /\ at \in 1 .. Len(signatures) + 1
      /\ seen = {signatures[n].key : n \in 1 .. at - 1}
  BY DEF QuorumInv, Stages, OnCourse
<1>2. DOMAIN signatures = 1 .. at - 1
  <2>1. DOMAIN signatures = 1 .. Len(signatures) /\ Len(signatures) \in Int
    BY <1>1, Sizes, RequestsAssumption DEF signatures
  <2>2. at = Len(signatures) + 1
    BY <1>1, <2>1
  <2> QED BY <2>1, <2>2
<1>3. ASSUME NEW i \in S PROVE i \in Counted
  BY <1>1, <1>2 DEF SignedBy, Counted
<1>4. ASSUME NEW j \in Counted PROVE j \in S
  <2>1. PICK n \in DOMAIN signatures : trust.keys[j].id = signatures[n].key
    BY <1>1, <1>2 DEF Counted
  <2>2. PICK k \in S : trust.keys[k].id = signatures[n].key
    BY <2>1 DEF SignedBy
  <2>3. j = k
    BY <1>1, <2>1, <2>2, OneEntry DEF Counted, SignedBy
  <2> QED BY <2>2, <2>3
<1>5. Counted = S
  BY <1>3, <1>4
<1> QED BY <1>5 DEF QuorumInv, Separate, SignedBy

\* What a request is worth does not change under way.
LEMMA GoodStays ==
  ASSUME UNCHANGED request
  PROVE  /\ GoodRequest' <=> GoodRequest
         /\ signatures' = signatures /\ trust' = trust /\ anchor' = anchor
<1>1. signatures' = signatures /\ trust' = trust /\ anchor' = anchor
  BY DEF signatures, trust, anchor
<1>2. Admissible(anchor.manifest)' <=> Admissible(anchor.manifest)
  BY <1>1 DEF Admissible
<1>3. WellSigned' <=> WellSigned
  BY <1>1 DEF WellSigned, Endorses, Verifies
<1> QED BY <1>1, <1>2, <1>3 DEF GoodRequest

\* A good request has a set of signers.
LEMMA GoodSigners ==
  ASSUME GoodRequest
  PROVE  \E S : SignedBy(S)
BY DEF GoodRequest, WellSigned, SignedBy

\* The search starts with every copy before it.
LEMMA OnCourseInit ==
  ASSUME Init
  PROVE  OnCourse
<1> SUFFICES ASSUME GoodRequest PROVE Ahead
  BY DEF Init, OnCourse
<1>1. DOMAIN request.copies = 1 .. Len(request.copies) /\ Len(request.copies) \in Nat
  BY RequestsAssumption DEF Init
<1>2. CASE request.explicit = anchor.manifest
  BY <1>2 DEF Init, Ahead
<1>3. CASE \E i \in DOMAIN request.copies : request.copies[i] = anchor.manifest
  BY <1>1, <1>3 DEF Init, Ahead
<1> QED BY <1>2, <1>3 DEF GoodRequest

\* Every step keeps a good request on course.
LEMMA OnCourseNext ==
  ASSUME QuorumInv, OnCourse, [Next]_vars
  PROVE  OnCourse'
<1>0. /\ request \in Requests /\ at \in Nat
      /\ DOMAIN request.copies = 1 .. Len(request.copies) /\ Len(request.copies) \in Nat
  BY RequestsAssumption DEF QuorumInv, Stages
<1>1. UNCHANGED request
  BY DEF Next, TakeCopy, PassOver, GiveUp, Admit, Count, Conclude, vars
<1>2. signatures' = signatures /\ trust' = trust /\ anchor' = anchor
  BY <1>1, GoodStays
<1> SUFFICES ASSUME GoodRequest PROVE OnCourse'
  <2>1. GoodRequest' <=> GoodRequest
    BY <1>1, GoodStays
  <2>2. ~GoodRequest' => OnCourse'
    BY Zenon DEF OnCourse
  <2> QED BY <2>1, <2>2, Zenon
<1>3. CASE TakeCopy
  BY <1>2, <1>3 DEF TakeCopy, OnCourse
<1>4. CASE PassOver
  <2>1. Copy # anchor.manifest /\ at' = at + 1 /\ Ahead /\ pc' = "find"
    BY <1>4 DEF PassOver, OnCourse
  <2>2. PICK i \in DOMAIN request.copies : i >= at /\ request.copies[i] = anchor.manifest
    BY <2>1 DEF Ahead, Copy
  <2>3. i # at
    BY <1>0, <2>1, <2>2 DEF Copy
  <2>4. i >= at + 1
    BY <1>0, <2>2, <2>3
  <2>5. Ahead'
    BY <1>1, <1>2, <2>1, <2>2, <2>4 DEF Ahead
  <2> QED BY <2>1, <2>5 DEF OnCourse
<1>5. CASE GiveUp
  <2>1. at > Len(request.copies) /\ Ahead
    BY <1>5 DEF GiveUp, OnCourse
  <2> QED BY <1>0, <2>1 DEF Ahead
<1>6. CASE Admit
  <2>1. pc' = "count" /\ at' = 1 /\ seen' = {} /\ domains' = {}
    BY <1>6 DEF Admit, OnCourse, GoodRequest, QuorumInv, Stages
  <2>2. Counted' = {} /\ {signatures[n].key : n \in 1 .. 0} = {}
    BY <2>1 DEF Counted
  <2>3. Len(signatures) \in Int /\ Len(signatures) >= 0
    <3>1. Len(signatures) \in trust.threshold .. 32 /\ trust.threshold \in 2 .. 32
      BY DEF GoodRequest, Admissible, ValidTrust
    <3>2. \A t, n : t \in 2 .. 32 /\ n \in t .. 32 => n \in Int /\ n >= 0
      OBVIOUS
    <3> QED BY <3>1, <3>2, Zenon
  <2> QED BY <1>2, <2>1, <2>2, <2>3 DEF OnCourse
<1>7. CASE Count
  <2>1. pc = "count" /\ at <= Len(signatures) /\ UNCHANGED <<request, manifest>>
    BY <1>7 DEF Count
  <2>2. PICK S : SignedBy(S)
    BY GoodSigners
  <2>3. at \in DOMAIN signatures /\ at >= 1 /\ Admissible(manifest)
    BY <2>1, <2>2, NextCounts DEF QuorumInv, Stages
  <2>4. PICK i \in Registered(signatures[at].key) :
          /\ seen' = seen \cup {trust.keys[i].id}
          /\ domains' = domains \cup {trust.keys[i].domain}
          /\ at' = at + 1
          /\ UNCHANGED <<pc, verdict>>
    BY <1>7, <2>1, <2>2, NextCounts DEF Count
  <2>5. i \in DOMAIN trust.keys /\ trust.keys[i].id = signatures[at].key
    BY <2>4 DEF Registered
  <2>6. /\ seen = {signatures[n].key : n \in 1 .. at - 1}
        /\ domains = {trust.keys[j].domain : j \in Counted}
    BY <2>1 DEF OnCourse
  <2>7. 1 .. (at + 1) - 1 = (1 .. at - 1) \cup {at}
    BY <1>0, <2>3
  <2>8. seen' = {signatures[n].key : n \in 1 .. at' - 1}
    BY <2>4, <2>5, <2>6, <2>7
  <2>9. Counted' = Counted \cup {i}
    <3>1. ASSUME NEW j \in DOMAIN trust.keys, trust.keys[j].id = trust.keys[i].id
          PROVE  j = i
      BY <2>3, <2>5, <3>1, OneEntry
    <3> QED BY <1>2, <2>4, <2>5, <3>1 DEF Counted
  <2>10. domains' = {trust.keys[j].domain : j \in Counted'}
    BY <2>4, <2>6, <2>9
  <2>11. at' \in 1 .. Len(signatures) + 1
    <3>1. Len(signatures) \in Int
      BY <2>3, Sizes
    <3> QED BY <1>0, <2>1, <2>3, <2>4, <3>1
  <2>12. pc' = "count"
    BY <2>1, <2>4
  <2> QED BY <1>2, <2>8, <2>10, <2>11, <2>12 DEF OnCourse
<1>8. CASE Conclude
  <2>1. pc = "count" /\ at > Len(signatures)
    BY <1>8 DEF Conclude
  <2>2. roles = {"recovery", "witness"}
    BY <2>1, GoodSigners, AllCounted
  <2> QED BY <1>8, <2>2 DEF Conclude, Decide, OnCourse
<1>9. CASE UNCHANGED vars
  <2>1. UNCHANGED <<request, pc, at, manifest, seen, domains, roles, verdict>>
    BY <1>9 DEF vars
  <2>2. Counted' = Counted /\ Ahead' = Ahead
    BY <1>2, <2>1 DEF Counted, Ahead
  <2> QED BY <1>2, <2>1, <2>2 DEF OnCourse
<1> QED BY <1>3, <1>4, <1>5, <1>6, <1>7, <1>8, <1>9 DEF Next

\* find_manifest and authenticate turn no good request away: an intact copy
\* behind damaged ones is found, and signatures that are enough are counted in
\* whatever order they come.
THEOREM TrustGoodIsAccepted == Spec => []GoodIsAccepted
<1>1. QuorumInv /\ OnCourse /\ [Next]_vars => QuorumInv' /\ OnCourse'
  BY QuorumNext, OnCourseNext
<1>2. Init => QuorumInv /\ OnCourse
  BY QuorumInit, OnCourseInit
<1>3. OnCourse => GoodIsAccepted
  BY DEF OnCourse, GoodRequest, GoodIsAccepted
<1> QED BY <1>1, <1>2, <1>3, PTL DEF Spec
-----------------------------------------------------------------------------
(* A closed source (CohortSource)                                          *)

Paths == Seq(Nat)

Tags   == {"idle", "before", "attributes", "objects", "read", "after", "end"}
\* Attributes that are about: somebody has put them there.
Stats  == [ver : Nat, attr : Attributes]
Inodes == [data : Seq(Contents), ver : Nat, attr : Attributes]
Copies == [data : Seq(Contents), attr : Attributes]
Lists  == {None} \cup [op : {"inventory"}, files : SUBSET Paths, dirs : SUBSET Paths]
Frames == [dir : Paths, ver : Nat, names : SUBSET Paths, todo : SUBSET Paths]
Walks  == [stack : Seq(Frames), files : SUBSET Paths, dirs : SUBSET Paths]
Tools  == [pc : Tags, op : {"none", "export", "inspect"}, object : Nat \ {0}, fd : Nat, seen : Stats \cup {None},
           buf : Seq(Contents), before : Lists, after : Lists, attrs : UNION {[S -> Attributes] : S \in SUBSET Paths},
           again : SUBSET Paths, items : Seq(Copies \cup BOOLEAN)]

\* The tree: each path leads to an inode, the root is always there.
TreeOK ==
    /\ clock \in Nat
    /\ DOMAIN files \subseteq Paths \ {<<>>} /\ files \in [DOMAIN files -> DOMAIN inodes]
    /\ DOMAIN dirs \subseteq Paths /\ <<>> \in DOMAIN dirs /\ dirs \in [DOMAIN dirs -> Stats]
    /\ \E n \in Nat : inodes \in [1 .. n -> Inodes]

\* What the variables hold.
SourceTypeOK ==
    /\ TreeOK /\ tool \in Tools /\ walk \in Walks
    /\ tool.pc # "idle" => tool.op \in {"export", "inspect"}
    /\ tool.pc = "read" => tool.fd \in DOMAIN inodes /\ tool.seen \in Stats

-----------------------------------------------------------------------------
(* Types                                                                   *)

\* A sequence with one more.
LEMMA AppendIs ==
    ASSUME NEW S, NEW s \in Seq(S), NEW e \in S
    PROVE  /\ Append(s, e) \in Seq(S) /\ Len(Append(s, e)) = Len(s) + 1 /\ Append(s, e)[Len(s) + 1] = e
           /\ \A i \in 1 .. Len(s) : Append(s, e)[i] = s[i]
  OBVIOUS

\* The manifest's objects and directories are sequences, with objects in it.
LEMMA ObjectsAre ==
    /\ Len(Anchored.objects) \in Nat \ {0} /\ DOMAIN Anchored.objects = 1 .. Len(Anchored.objects)
    /\ Len(Anchored.directories) \in Nat /\ DOMAIN Anchored.directories = 1 .. Len(Anchored.directories)
<1>1. ASSUME NEW S, NEW s \in Seq(S)
      PROVE  Len(s) \in Nat /\ DOMAIN s = 1 .. Len(s) /\ (s # <<>> => Len(s) # 0)
  BY EmptySeq
<1>2. Anchored.objects # <<>>
  BY AnchoredAssumption DEF ValidManifest
<1>3. /\ Anchored.objects \in Seq({Anchored.objects[i] : i \in DOMAIN Anchored.objects})
      /\ Anchored.directories \in Seq({Anchored.directories[i] : i \in DOMAIN Anchored.directories})
  BY AnchoredAssumption
<1> QED
  BY <1>1, <1>2, <1>3

\* The inodes of the beginning are numbered, and each is used.
LEMMA NumberedAre ==
    ASSUME NEW S, IsFiniteSet(S)
    PROVE  /\ Cardinality(S) \in Nat /\ Numbered(S) \in [S -> 1 .. Cardinality(S)]
           /\ \A p, q \in S : p # q => Numbered(S)[p] # Numbered(S)[q]
           /\ \A i \in 1 .. Cardinality(S) : \E p \in S : Numbered(S)[p] = i
<1> DEFINE n == Cardinality(S)
<1>1. n \in Nat /\ ExistsBijection(1 .. n, S)
  BY FS_CardinalityType
<1>2. PICK g \in Bijection(1 .. n, S) : TRUE
  BY <1>1 DEF ExistsBijection
<1>3. ExistsBijection(S, 1 .. n)
  <2>1. IsFiniteSet(1 .. n) /\ Cardinality(1 .. n) = n
    BY <1>1, FS_Interval
  <2> QED
    BY <2>1, FS_SameCardinalityBij
<1>4. PICK h \in Bijection(S, 1 .. n) : TRUE
  BY <1>3 DEF ExistsBijection
<1>5. h \in [S -> 1 .. n] /\ \A p, q \in S : p # q => h[p] # h[q]
  BY <1>4 DEF Bijection, Injection, IsInjective
<1>6. Numbered(S) \in [S -> 1 .. n] /\ \A p, q \in S : p # q => Numbered(S)[p] # Numbered(S)[q]
  <2>1. \E f \in [S -> 1 .. n] : \A p, q \in S : p # q => f[p] # f[q]
    BY <1>5
  <2> QED
    BY <2>1, Zenon DEF Numbered
<1>7. Numbered(S) \in Injection(S, 1 .. n)
  BY <1>6 DEF Injection, IsInjective
<1>8. Numbered(S) \in Surjection(S, 1 .. n)
  <2>1. IsFiniteSet(1 .. n) /\ Cardinality(1 .. n) = n
    BY <1>1, FS_Interval
  <2> QED
    BY <1>7, <2>1, FS_Injection
<1> QED
  BY <1>1, <1>6, <1>8 DEF Surjection

\* In the first state the source is one of Trees.
LEMMA TreeAtFirst ==
    ASSUME SourceInit
    PROVE  \E t \in Trees :
             /\ DOMAIN files = DOMAIN t.files /\ DOMAIN dirs = DOMAIN t.dirs
             /\ files \in [DOMAIN t.files -> DOMAIN inodes]
             /\ dirs = [d \in DOMAIN t.dirs |-> [ver |-> 0, attr |-> t.dirs[d]]]
             /\ \E n \in Nat : inodes \in [1 .. n -> Inodes]
             /\ \A p \in DOMAIN files : inodes[files[p]] = [data |-> t.files[p].data, ver |-> 0, attr |-> t.files[p].attr]
             /\ \A i \in DOMAIN inodes : inodes[i].ver = 0
             /\ past = {<<p, t.files[p]>> : p \in DOMAIN t.files}
<1>1. PICK t \in Trees :
         /\ dirs = [d \in DOMAIN t.dirs |-> [ver |-> 0, attr |-> t.dirs[d]]]
         /\ files = Numbered(DOMAIN t.files)
         /\ inodes = [i \in 1 .. Cardinality(DOMAIN t.files) |->
                        LET p == CHOOSE q \in DOMAIN t.files : Numbered(DOMAIN t.files)[q] = i IN
                        [data |-> t.files[p].data, ver |-> 0, attr |-> t.files[p].attr]]
         /\ past = {<<p, t.files[p]>> : p \in DOMAIN t.files}
  BY Zenon DEF SourceInit
<1> DEFINE S == DOMAIN t.files
           n == Cardinality(S)
           of(i) == CHOOSE q \in S : Numbered(S)[q] = i
<1>2. IsFiniteSet(S) /\ t.files \in [S -> [data : Seq(Contents), attr : Attributes]]
  BY TreesAssumption
<1>3. /\ n \in Nat /\ files \in [S -> 1 .. n]
      /\ \A p, q \in S : p # q => files[p] # files[q]
      /\ \A i \in 1 .. n : \E p \in S : files[p] = i
  BY <1>1, <1>2, NumberedAre
<1>4. \A i \in 1 .. n : of(i) \in S /\ files[of(i)] = i
  BY <1>1, <1>3
<1>5. \A i \in 1 .. n : inodes[i] = [data |-> t.files[of(i)].data, ver |-> 0, attr |-> t.files[of(i)].attr]
  BY <1>1
<1>6. DOMAIN inodes = 1 .. n /\ inodes = [i \in 1 .. n |-> inodes[i]]
  BY <1>1
<1> HIDE DEF S, n, of
<1>7. ASSUME NEW i \in 1 .. n PROVE inodes[i] \in Inodes /\ inodes[i].ver = 0
  <2>1. PICK r \in [data : Seq(Contents), attr : Attributes] : r = t.files[of(i)]
    BY <1>2, <1>4
  <2>2. inodes[i] = [data |-> r.data, ver |-> 0, attr |-> r.attr]
    BY <1>5, <2>1
  <2> QED
    BY <2>2 DEF Inodes
<1>8. inodes \in [1 .. n -> Inodes]
  BY <1>6, <1>7
<1>9. \A p \in S : of(files[p]) = p
  BY <1>3, <1>4
<1>10. \A p \in S : inodes[files[p]] = [data |-> t.files[p].data, ver |-> 0, attr |-> t.files[p].attr]
  BY <1>3, <1>5, <1>9
<1> QED
  BY <1>1, <1>3, <1>6, <1>7, <1>8, <1>10 DEF S

\* There are attributes: the root has some.
LEMMA SomeAttributes == TreeOK => Attributes # {} /\ (CHOOSE x \in Attributes : TRUE) \in Attributes
  BY DEF TreeOK, Stats

\* The names below a directory.
LEMMA ChildrenAre ==
    ASSUME TreeOK, NEW d PROVE Children(d) \subseteq Paths
  BY DEF TreeOK, Children

\* What a change leaves of each inode: it is as it was, or dated now.
Dates ==
    \A i \in DOMAIN inodes : i \in DOMAIN inodes' /\ (inodes'[i] = inodes[i] \/ inodes'[i].ver = clock + 1)

\* A writer keeps the types, and dates what it changes.
LEMMA WriterMoves ==
    ASSUME TreeOK, Write
    PROVE  /\ TreeOK' /\ Dates /\ clock' = clock + 1 /\ past \subseteq past'
           /\ \A i \in DOMAIN inodes' : i \notin DOMAIN inodes => inodes'[i].ver = clock + 1
           /\ \A p \in DOMAIN files' :
                <<p, [data |-> inodes'[files'[p]].data, attr |-> inodes'[files'[p]].attr]>> \in past'
           /\ UNCHANGED <<tool, walk, stored, result>> /\ tool.pc \notin {"idle", "end"}
<1>0. /\ clock \in Nat /\ clock' = clock + 1 /\ UNCHANGED <<tool, walk, stored, result>> /\ tool.pc \notin {"idle", "end"}
      /\ past' = past \cup {<<p, Now'.files[p]>> : p \in DOMAIN files'}
  BY DEF Write, Changes, TreeOK
<1>01. clock' = clock + 1 /\ clock' \in Nat /\ clock + 1 \in Nat
  BY <1>0
<1>1. \A p \in DOMAIN files' :
        <<p, [data |-> inodes'[files'[p]].data, attr |-> inodes'[files'[p]].attr]>> \in past'
  BY <1>0 DEF Now, Here
<1>2. /\ DOMAIN files \subseteq Paths \ {<<>>} /\ files \in [DOMAIN files -> DOMAIN inodes]
      /\ DOMAIN dirs \subseteq Paths /\ <<>> \in DOMAIN dirs /\ dirs \in [DOMAIN dirs -> Stats]
  BY DEF TreeOK
<1>3. PICK n \in Nat : inodes \in [1 .. n -> Inodes]
  BY DEF TreeOK
<1>4. Spare \subseteq Paths \ {<<>>}
  BY SpareAssumption DEF Paths
<1>5. ASSUME NEW p \in DOMAIN files, NEW e \in Inodes, e.ver = clock + 1,
             inodes' = [inodes EXCEPT ![files[p]] = e], UNCHANGED <<files, dirs>>
      PROVE  TreeOK' /\ Dates /\ DOMAIN inodes' = DOMAIN inodes
  <2>1. inodes' \in [1 .. n -> Inodes] /\ DOMAIN inodes' = DOMAIN inodes
    BY <1>3, <1>5
  <2>2. Dates
    BY <1>2, <1>3, <1>5 DEF Dates
  <2> QED
    BY <1>0, <1>2, <1>3, <1>5, <2>1, <2>2 DEF TreeOK
<1>6. ASSUME NEW p \in DOMAIN files, NEW k \in 1 .. 2, NEW b \in Contents, Overwrite(p, k, b)
      PROVE  TreeOK' /\ Dates /\ DOMAIN inodes' = DOMAIN inodes
  <2>1. PICK r \in Inodes : r = inodes[files[p]]
    BY <1>2, <1>3
  <2>2. /\ k \in DOMAIN r.data /\ UNCHANGED <<files, dirs>>
        /\ inodes' = [inodes EXCEPT ![files[p]] = [r EXCEPT !.data[k] = b, !.ver = clock + 1]]
    BY <1>2, <1>3, <1>6, <2>1 DEF Overwrite, Here
  <2>3. r.data \in Seq(Contents) /\ [r.data EXCEPT ![k] = b] \in Seq(Contents)
    <3>1. r.data \in Seq(Contents) /\ k \in 1 .. Len(r.data) /\ b \in Contents
      BY <1>6, <2>1, <2>2 DEF Inodes
    <3> QED
      BY <3>1, ExceptSeq, Zenon
  <2>4. PICK e : e = [r EXCEPT !.data = [r.data EXCEPT ![k] = b], !.ver = clock + 1]
    OBVIOUS
  <2>5. e.ver = clock + 1
    BY <2>1, <2>4 DEF Inodes
  <2>6. e \in Inodes
    BY <1>01, <2>1, <2>3, <2>4 DEF Inodes
  <2>7. [r EXCEPT !.data[k] = b, !.ver = clock + 1] = e
    BY <2>4, Zenon
  <2> QED
    BY <1>5, <2>2, <2>5, <2>6, <2>7
<1>7. ASSUME NEW p \in DOMAIN files, NEW a \in Attributes, Chmod(p, a)
      PROVE  TreeOK' /\ Dates /\ DOMAIN inodes' = DOMAIN inodes
  <2>1. PICK r \in Inodes : r = inodes[files[p]]
    BY <1>2, <1>3
  <2>2. /\ UNCHANGED <<files, dirs>>
        /\ inodes' = [inodes EXCEPT ![files[p]] = [r EXCEPT !.attr = a, !.ver = clock + 1]]
    BY <1>2, <1>3, <1>7, <2>1 DEF Chmod, Here
  <2>3. PICK e : e = [r EXCEPT !.attr = a, !.ver = clock + 1]
    OBVIOUS
  <2>4. e.ver = clock + 1
    BY <2>1, <2>3 DEF Inodes
  <2>5. e \in Inodes
    BY <1>01, <1>7, <2>1, <2>3 DEF Inodes
  <2> QED
    BY <1>5, <2>2, <2>3, <2>4, <2>5
<1>8. ASSUME NEW d \in DOMAIN dirs, NEW a \in Attributes, ChmodDir(d, a)
      PROVE  TreeOK' /\ Dates /\ DOMAIN inodes' = DOMAIN inodes
  <2>1. [ver |-> clock + 1, attr |-> a] \in Stats
    BY <1>0 DEF Stats
  <2>2. dirs' \in [DOMAIN dirs -> Stats] /\ UNCHANGED <<files, inodes>>
    BY <1>2, <1>8, <2>1 DEF ChmodDir
  <2> QED
    BY <1>0, <1>2, <1>3, <2>2 DEF TreeOK, Dates
<1>9. ASSUME NEW d PROVE Touched(d) \in [DOMAIN dirs -> Stats]
  <2>0. d \notin DOMAIN dirs => Touched(d) = dirs
    BY <1>2 DEF Touched
  <2> SUFFICES ASSUME d \in DOMAIN dirs PROVE Touched(d) \in [DOMAIN dirs -> Stats]
    BY <1>2, <2>0
  <2>1. PICK r \in Stats : r = dirs[d]
    BY <1>2
  <2>2. Touched(d) = [dirs EXCEPT ![d] = [r EXCEPT !.ver = clock + 1]]
    BY <1>2, <2>1 DEF Touched
  <2>3. PICK e : e = [r EXCEPT !.ver = clock + 1]
    OBVIOUS
  <2>4. e \in Stats
    BY <1>0, <2>1, <2>3 DEF Stats
  <2> QED
    BY <1>2, <2>2, <2>3, <2>4
<1>10. ASSUME NEW p \in DOMAIN files \cup Spare, NEW b \in Contents, Replace(p, b)
       PROVE  TreeOK' /\ Dates /\ \A i \in DOMAIN inodes' : i \notin DOMAIN inodes => inodes'[i].ver = clock + 1
  <2>1. Cardinality(DOMAIN inodes) = n
    BY <1>3, FS_Interval
  <2>2. PICK a : a = IF p \in DOMAIN files THEN Here(p).attr ELSE CHOOSE x \in Attributes : TRUE
    OBVIOUS
  <2>3. PICK e : e = [data |-> <<b>>, ver |-> clock + 1, attr |-> a]
    OBVIOUS
  <2>4. /\ inodes' = [j \in 1 .. n + 1 |-> IF j = n + 1 THEN e ELSE inodes[j]]
        /\ files' = [q \in DOMAIN files \cup {p} |-> IF q = p THEN n + 1 ELSE files[q]]
        /\ dirs' = Touched(Parent(p)) /\ Parent(p) \in DOMAIN dirs
    BY <1>10, <2>1, <2>2, <2>3 DEF Replace
  <2>5. a \in Attributes
    <3>1. p \in DOMAIN files => inodes[files[p]] \in Inodes
      BY <1>2, <1>3
    <3> QED
      BY <2>2, <3>1, SomeAttributes DEF Here, Inodes
  <2>6. e \in Inodes /\ e.ver = clock + 1
    BY <1>0, <2>3, <2>5 DEF Inodes
  <2>7. inodes' \in [1 .. n + 1 -> Inodes] /\ n + 1 \in Nat
    BY <1>3, <2>4, <2>6
  <2>8. Dates /\ \A i \in DOMAIN inodes' : i \notin DOMAIN inodes => inodes'[i].ver = clock + 1
    BY <1>3, <2>4, <2>6 DEF Dates
  <2>9. /\ DOMAIN files' \subseteq Paths \ {<<>>} /\ files' \in [DOMAIN files' -> DOMAIN inodes']
    <3>1. DOMAIN files' = DOMAIN files \cup {p} /\ DOMAIN inodes' = 1 .. n + 1 /\ DOMAIN inodes = 1 .. n
      BY <1>3, <2>4
    <3>2. \A q \in DOMAIN files' : files'[q] \in 1 .. n + 1
      BY <1>2, <1>3, <2>4, <3>1
    <3> QED
      BY <1>2, <1>4, <2>4, <3>1, <3>2
  <2>10. DOMAIN dirs' \subseteq Paths /\ <<>> \in DOMAIN dirs' /\ dirs' \in [DOMAIN dirs' -> Stats]
    BY <1>2, <1>9, <2>4
  <2> QED
    BY <1>0, <2>7, <2>8, <2>9, <2>10 DEF TreeOK
<1>11. ASSUME NEW p \in DOMAIN files, Unlink(p)
       PROVE  TreeOK' /\ Dates /\ DOMAIN inodes' = DOMAIN inodes
  <2>1. /\ DOMAIN files' \subseteq Paths \ {<<>>} /\ files' \in [DOMAIN files' -> DOMAIN inodes'] /\ UNCHANGED inodes
    BY <1>2, <1>11 DEF Unlink
  <2>2. DOMAIN dirs' \subseteq Paths /\ <<>> \in DOMAIN dirs' /\ dirs' \in [DOMAIN dirs' -> Stats]
    BY <1>2, <1>9, <1>11 DEF Unlink
  <2> QED
    BY <1>0, <1>3, <2>1, <2>2 DEF TreeOK, Dates
<1>12. ASSUME NEW p \in Spare, NEW a \in Attributes, Mkdir(p, a)
       PROVE  TreeOK' /\ Dates /\ DOMAIN inodes' = DOMAIN inodes
  <2>1. Parent(p) \in DOMAIN dirs /\ p \in Paths /\ UNCHANGED <<files, inodes>>
        /\ dirs' = [d \in DOMAIN dirs \cup {p} |-> IF d = p THEN [ver |-> clock + 1, attr |-> a] ELSE Touched(Parent(p))[d]]
    BY <1>4, <1>12 DEF Mkdir
  <2>2. Touched(Parent(p)) \in [DOMAIN dirs -> Stats] /\ [ver |-> clock + 1, attr |-> a] \in Stats
    BY <1>0, <1>9, <2>1 DEF Stats
  <2>3. DOMAIN dirs' \subseteq Paths /\ <<>> \in DOMAIN dirs' /\ dirs' \in [DOMAIN dirs' -> Stats]
    <3>1. DOMAIN dirs' = DOMAIN dirs \cup {p}
      BY <2>1
    <3>2. \A d \in DOMAIN dirs' : dirs'[d] \in Stats
      BY <2>1, <2>2, <3>1
    <3>3. dirs' = [d \in DOMAIN dirs' |-> dirs'[d]]
      BY <2>1
    <3>4. dirs' \in [DOMAIN dirs' -> Stats]
      BY <3>2, <3>3
    <3> QED
      BY <1>2, <2>1, <3>1, <3>4
  <2>4. UNCHANGED <<files, inodes>>
    BY <2>1
  <2>5. TreeOK'
    BY <1>01, <1>2, <1>3, <2>3, <2>4 DEF TreeOK
  <2> QED
    BY <2>4, <2>5 DEF Dates
<1> QED
  BY <1>0, <1>1, <1>6, <1>7, <1>8, <1>10, <1>11, <1>12 DEF Write

\* What the tools do leaves the tree alone, ...
ToolStep ==
    \/ \E op \in {"export", "inspect"} : Start(op)
    \/ Visit \/ Leave
    \/ EndBefore \/ Open \/ Read \/ CloseFile \/ Again \/ EndAfter
    \/ ReadAttributes \/ CompareAttributes \/ Publish \/ ReportInspection

LEMMA TreeLeftAlone == ToolStep => UNCHANGED treeVars
  BY DEF ToolStep, Start, Visit, Leave, EndBefore, Open, Read, CloseFile, Again, EndAfter, ReadAttributes,
         CompareAttributes, Publish, ReportInspection, treeVars

\* Frames and walks there may be.
LEMMA FramesAre == ASSUME TreeOK, NEW d \in DOMAIN dirs PROVE Frame(d) \in Frames
  BY ChildrenAre DEF TreeOK, Frame, Frames, Stats

\* The frame on top, and those below.
LEMMA StackIs ==
    ASSUME walk \in Walks, walk.stack # <<>>
    PROVE  /\ Top \in Frames /\ Below \in Seq(Frames) /\ Len(walk.stack) \in Nat \ {0}
           /\ Len(Below) = Len(walk.stack) - 1 /\ \A i \in 1 .. Len(Below) : Below[i] = walk.stack[i]
<1>1. PICK s \in Seq(Frames) : s = walk.stack
  BY DEF Walks
<1>2. s # <<>> /\ Len(s) \in Nat \ {0}
  BY <1>1, EmptySeq
<1>3. SubSeq(s, 1, Len(s) - 1) \in Seq(Frames) /\ Len(SubSeq(s, 1, Len(s) - 1)) = Len(s) - 1
      /\ \A i \in 1 .. Len(s) - 1 : SubSeq(s, 1, Len(s) - 1)[i] = s[i]
  <2>1. PICK n \in Nat : n = Len(s) - 1
    BY <1>2
  <2>2. \A i \in 1 .. n : s[i] \in Frames
    BY <1>2, <2>1
  <2>3. SubSeq(s, 1, n) \in Seq(Frames) /\ Len(SubSeq(s, 1, n)) = n /\ \A i \in 1 .. n : SubSeq(s, 1, n)[i] = s[i]
    BY <2>2, SubSeqProperties
  <2> QED
    BY <2>1, <2>3
<1> QED
  BY <1>1, <1>2, <1>3 DEF Top, Below

\* A frame whose todo is less by one.
LEMMA DidIs ==
    ASSUME walk \in Walks, walk.stack # <<>>, NEW p
    PROVE  /\ Did(p) \in Seq(Frames) /\ Len(Did(p)) = Len(walk.stack)
           /\ \A i \in 1 .. Len(walk.stack) - 1 : Did(p)[i] = walk.stack[i]
           /\ LET f == Did(p)[Len(walk.stack)] IN
                f.dir = Top.dir /\ f.ver = Top.ver /\ f.names = Top.names /\ f.todo = Top.todo \ {p}
<1>1. PICK f : f = [Top EXCEPT !.todo = @ \ {p}]
  OBVIOUS
<1>2. f \in Frames /\ f.dir = Top.dir /\ f.ver = Top.ver /\ f.names = Top.names /\ f.todo = Top.todo \ {p}
  BY <1>1, StackIs DEF Frames
<1>3. PICK b \in Seq(Frames) : b = Below
  BY StackIs
<1>4. Append(b, f) \in Seq(Frames) /\ Len(Append(b, f)) = Len(b) + 1 /\ Append(b, f)[Len(b) + 1] = f
      /\ \A i \in 1 .. Len(b) : Append(b, f)[i] = b[i]
  BY <1>2, AppendIs
<1>5. Did(p) = Append(b, f)
  BY <1>1, <1>3 DEF Did
<1> QED
  BY <1>2, <1>3, <1>4, <1>5, StackIs

\* ... and keeps the types.
LEMMA ToolTypes == ASSUME SourceTypeOK, ToolStep PROVE SourceTypeOK'
<1>0. TreeOK /\ tool \in Tools /\ walk \in Walks
  BY DEF SourceTypeOK
<1>1. TreeOK'
  BY <1>0, TreeLeftAlone DEF TreeOK, treeVars
<1>2. [stack |-> <<>>, files |-> {}, dirs |-> {}] \in Walks
  BY DEF Walks
<1>3. NewWalk => walk' \in Walks
  <2>1. PICK f \in Frames : f = Frame(<<>>)
    BY <1>0, FramesAre DEF TreeOK
  <2>2. <<f>> \in Seq(Frames)
    OBVIOUS
  <2> QED
    BY <2>1, <2>2 DEF NewWalk, Walks
<1>4. \A c \in Tags : Goto(c) => tool' \in Tools
  BY <1>0 DEF Goto, Tools
<1>5. NoInventory => tool' \in Tools /\ walk' \in Walks
  <2>1. CASE tool.op = "export"
    BY <1>0, <1>4, <2>1 DEF NoInventory, Tags
  <2>2. ASSUME tool.op # "export", NoInventory PROVE tool' \in Tools /\ walk' \in Walks
    <3>1. PICK c \in Tags : c = IF tool.pc = "before" THEN "objects" ELSE "attributes"
      BY DEF Tags
    <3>2. tool' = [tool EXCEPT !.pc = c, !.before = None]
      BY <2>2, <3>1 DEF NoInventory
    <3>3. tool' \in Tools
      BY <1>0, <3>2 DEF Tools, Lists
    <3> QED
      BY <1>2, <2>2, <3>3 DEF NoInventory
  <2> QED
    BY <2>1, <2>2
<1>6. ASSUME NEW op \in {"export", "inspect"}, Start(op) PROVE tool' \in Tools /\ walk' \in Walks
  BY <1>0, <1>3, <1>6 DEF Start, Tools, Tags
<1>7. Visit => tool' \in Tools /\ walk' \in Walks
  <2> SUFFICES ASSUME Visit PROVE tool' \in Tools /\ walk' \in Walks
    OBVIOUS
  <2>1. walk.stack # <<>>
    BY DEF Visit, Walking
  <2>2. PICK p : p = Next1
    OBVIOUS
  <2>3. PICK s \in Seq(Frames) : s = Did(p)
    BY <1>0, <2>1, DidIs
  <2>4. CASE p \in DOMAIN files /\ walk' = [walk EXCEPT !.stack = s, !.files = @ \cup {p}] /\ UNCHANGED tool
    BY <1>0, <2>4 DEF Walks, TreeOK
  <2>5. CASE p \in DOMAIN dirs /\ walk' = [walk EXCEPT !.stack = Append(s, Frame(p)), !.dirs = @ \cup {p}] /\ UNCHANGED tool
    <3>1. PICK f \in Frames : f = Frame(p)
      BY <1>0, <2>5, FramesAre
    <3>2. Append(s, f) \in Seq(Frames)
      BY AppendIs
    <3> QED
      BY <1>0, <2>5, <3>1, <3>2 DEF Walks, TreeOK
  <2> QED
    BY <1>5, <2>2, <2>3, <2>4, <2>5 DEF Visit
<1>8. Leave => tool' \in Tools /\ walk' \in Walks
  <2> SUFFICES ASSUME Leave PROVE tool' \in Tools /\ walk' \in Walks
    OBVIOUS
  <2>1. PICK s \in Seq(Frames) : s = Below
    BY <1>0, StackIs DEF Leave, Walking
  <2>2. CASE walk' = [walk EXCEPT !.stack = s] /\ UNCHANGED tool
    BY <1>0, <2>2 DEF Walks
  <2> QED
    BY <1>5, <2>1, <2>2 DEF Leave
<1>9. Inventory \in Lists
  BY <1>0 DEF Inventory, Lists, Walks
<1>10. EndBefore => tool' \in Tools /\ walk' \in Walks
  <2> SUFFICES ASSUME EndBefore PROVE tool' \in Tools /\ walk' \in Walks
    OBVIOUS
  <2>1. PICK c \in Tags, l \in Lists : /\ c = CASE tool.op = "inspect" -> "objects" [] tool.op = "export" /\ walk.files # Files -> "end" [] OTHER -> "attributes"
                                       /\ l = Inventory
    BY <1>9 DEF Tags
  <2>2. tool' = [tool EXCEPT !.before = l, !.pc = c] /\ UNCHANGED walk
    BY <2>1 DEF EndBefore
  <2> QED
    BY <1>0, <2>2 DEF Tools
<1>11. Open => tool' \in Tools /\ walk' \in Walks
  <2> SUFFICES ASSUME Open PROVE tool' \in Tools /\ UNCHANGED walk
    BY <1>0
  <2>1. UNCHANGED walk
    BY DEF Open
  <2>2. CASE Goto("end")
    BY <1>4, <2>1, <2>2 DEF Tags
  <2>3. CASE tool' = [tool EXCEPT !.object = @ + 1, !.items = Append(@, FALSE)]
    <3>1. PICK s \in Seq(Copies \cup BOOLEAN) : s = tool.items
      BY <1>0 DEF Tools
    <3>2. Append(s, FALSE) \in Seq(Copies \cup BOOLEAN) /\ tool.object + 1 \in Nat \ {0}
      BY <1>0, AppendIs DEF Tools
    <3>3. tool' = [tool EXCEPT !.object = tool.object + 1, !.items = Append(s, FALSE)]
      BY <2>3, <3>1
    <3> QED
      BY <1>0, <2>1, <3>2, <3>3 DEF Tools
  <2>4. CASE Object.path \in DOMAIN files
             /\ tool' = [tool EXCEPT !.pc = "read", !.fd = files[Object.path],
                           !.seen = [ver |-> Here(Object.path).ver, attr |-> Here(Object.path).attr], !.buf = <<>>]
    <3>1. PICK n \in Nat : inodes \in [1 .. n -> Inodes]
      BY <1>0 DEF TreeOK
    <3>2. PICK i \in 1 .. n : i = files[Object.path]
      BY <1>0, <2>4, <3>1 DEF TreeOK
    <3>3. PICK o \in Stats : o = [ver |-> Here(Object.path).ver, attr |-> Here(Object.path).attr]
      BY <3>1, <3>2 DEF Here, Inodes, Stats
    <3>4. tool' = [tool EXCEPT !.pc = "read", !.fd = i, !.seen = o, !.buf = <<>>]
      BY <2>4, <3>2, <3>3
    <3>5. i \in Nat \ {0} /\ "read" \in Tags /\ <<>> \in Seq(Contents)
      BY <3>2 DEF Tags
    <3> QED
      BY <1>0, <2>1, <3>4, <3>5 DEF Tools
  <2> QED
    BY <2>1, <2>2, <2>3, <2>4, Zenon DEF Open
<1>12. Read => tool' \in Tools /\ walk' \in Walks
  <2> SUFFICES ASSUME Read PROVE tool' \in Tools /\ UNCHANGED walk
    BY <1>0
  <2>1. PICK s \in Seq(Contents) : s = tool.buf
    BY <1>0 DEF Tools
  <2>2. PICK d \in Seq(Contents) : d = inodes[tool.fd].data
    BY <1>0 DEF Read, SourceTypeOK, TreeOK, Inodes
  <2>3. PICK b \in Contents : b = d[Len(s) + 1]
    BY <2>1, <2>2 DEF Read
  <2>4. tool' = [tool EXCEPT !.buf = Append(s, b)] /\ UNCHANGED walk
    BY <2>1, <2>2, <2>3 DEF Read
  <2> QED
    BY <1>0, <2>4, AppendIs DEF Tools
<1>13. CloseFile => tool' \in Tools /\ walk' \in Walks
  <2> SUFFICES ASSUME CloseFile PROVE tool' \in Tools /\ UNCHANGED walk
    BY <1>0
  <2>1. PICK s \in Seq(Copies \cup BOOLEAN) : s = tool.items
    BY <1>0 DEF Tools
  <2>2. tool.buf \in Seq(Contents) /\ tool.seen.attr \in Attributes
    BY <1>0 DEF CloseFile, SourceTypeOK, Stats, Tools
  <2>3. PICK c \in Copies : c = [data |-> tool.buf, attr |-> tool.seen.attr]
    BY <2>2 DEF Copies
  <2>4. PICK b \in BOOLEAN : b = (Undisturbed /\ tool.buf = Object.sha256 /\ tool.seen.attr = Object.attributes)
    OBVIOUS
  <2>5. PICK g \in Tags : g = IF Undisturbed THEN "objects" ELSE "end"
    BY DEF Tags
  <2>6. \/ tool' = [tool EXCEPT !.pc = g, !.object = tool.object + 1, !.items = Append(s, c)]
        \/ tool' = [tool EXCEPT !.pc = "objects", !.object = tool.object + 1, !.items = Append(s, b)]
    BY <2>1, <2>3, <2>4, <2>5 DEF CloseFile
  <2>7. Append(s, c) \in Seq(Copies \cup BOOLEAN) /\ Append(s, b) \in Seq(Copies \cup BOOLEAN)
    BY AppendIs
  <2>8. tool.object + 1 \in Nat \ {0} /\ "objects" \in Tags
    BY <1>0 DEF Tools, Tags
  <2>9. ASSUME NEW e \in Seq(Copies \cup BOOLEAN), NEW h \in Tags, NEW k \in Nat \ {0},
               tool' = [tool EXCEPT !.pc = h, !.object = k, !.items = e]
        PROVE  tool' \in Tools
    BY <1>0, <2>9 DEF Tools
  <2>10. PICK e \in Seq(Copies \cup BOOLEAN), f \in Seq(Copies \cup BOOLEAN), k \in Nat \ {0} :
           e = Append(s, c) /\ f = Append(s, b) /\ k = tool.object + 1
    BY <2>7, <2>8
  <2>11. tool' = [tool EXCEPT !.pc = g, !.object = k, !.items = e]
           \/ tool' = [tool EXCEPT !.pc = "objects", !.object = k, !.items = f]
    BY <2>6, <2>10
  <2>12. tool' \in Tools
    BY <2>8, <2>9, <2>11
  <2> QED
    BY <2>12 DEF CloseFile
<1>14. Again => tool' \in Tools /\ walk' \in Walks
  BY <1>3, <1>4 DEF Again, Tags
<1>15. EndAfter => tool' \in Tools /\ walk' \in Walks
  <2> SUFFICES ASSUME EndAfter PROVE tool' \in Tools /\ walk' \in Walks
    OBVIOUS
  <2>1. PICK c \in Tags, l \in Lists : /\ c = IF tool.op = "export" /\ Inventory # tool.before THEN "end" ELSE "attributes"
                                       /\ l = Inventory
    BY <1>9 DEF Tags
  <2>2. tool' = [tool EXCEPT !.after = l, !.pc = c] /\ UNCHANGED walk
    BY <2>1 DEF EndAfter
  <2> QED
    BY <1>0, <2>2 DEF Tools
<1>16. ReadAttributes => tool' \in Tools /\ walk' \in Walks
  <2> SUFFICES ASSUME ReadAttributes PROVE tool' \in Tools /\ UNCHANGED walk
    BY <1>0
  <2>1. CASE Goto("objects") \/ Goto("end")
    BY <1>4, <2>1 DEF ReadAttributes, Tags
  <2>2. ASSUME NEW d \in DOMAIN dirs,
               tool' = [tool EXCEPT !.attrs = [e \in DOMAIN @ \cup {d} |-> IF e = d THEN dirs[d].attr ELSE @[e]]]
        PROVE  tool' \in Tools
    <3>1. PICK S \in SUBSET Paths : tool.attrs \in [S -> Attributes]
      BY <1>0 DEF Tools
    <3>2. PICK f : f = [e \in S \cup {d} |-> IF e = d THEN dirs[d].attr ELSE tool.attrs[e]]
      OBVIOUS
    <3>3. dirs[d].attr \in Attributes /\ d \in Paths
      BY <1>0 DEF TreeOK, Stats
    <3>4. f \in [S \cup {d} -> Attributes] /\ S \cup {d} \in SUBSET Paths
      BY <3>1, <3>2, <3>3
    <3>5. tool' = [tool EXCEPT !.attrs = f]
      BY <2>2, <3>1, <3>2
    <3> QED
      BY <1>0, <3>4, <3>5 DEF Tools
  <2> QED
    BY <2>1, <2>2, Zenon DEF ReadAttributes
<1>17. CompareAttributes => tool' \in Tools /\ walk' \in Walks
  <2> SUFFICES ASSUME CompareAttributes PROVE tool' \in Tools /\ UNCHANGED walk
    BY <1>0
  <2>1. CASE Goto("end")
    BY <1>4, <2>1 DEF CompareAttributes, Tags
  <2>2. ASSUME NEW d \in DOMAIN dirs, tool' = [tool EXCEPT !.again = @ \cup {d}] PROVE tool' \in Tools
    BY <1>0, <2>2 DEF Tools, TreeOK
  <2>3. tool.op = "export" \/ tool.op = "inspect"
    BY DEF CompareAttributes, SourceTypeOK
  <2> DEFINE d == First(Wanted \ tool.again)
             same == d \in DOMAIN dirs /\ dirs[d].attr = Expected(d)
  <2>4. CASE same
    <3>1. tool' = [tool EXCEPT !.again = @ \cup {d}]
      BY <2>4 DEF CompareAttributes
    <3> QED
      BY <2>2, <2>4, <3>1 DEF CompareAttributes
  <2>5. CASE ~same /\ tool.op \in {"export", "inspect"}
    <3>1. Goto("end")
      BY <2>5 DEF CompareAttributes
    <3> QED
      BY <2>1, <3>1
  <2> QED
    BY <2>3, <2>4, <2>5
<1>18. Publish \/ ReportInspection => tool' \in Tools /\ walk' \in Walks
  BY <1>0, <1>4 DEF Publish, ReportInspection, Tags
<1>19. tool' \in Tools /\ walk' \in Walks
  BY <1>6, <1>7, <1>8, <1>10, <1>11, <1>12, <1>13, <1>14, <1>15, <1>16, <1>17, <1>18 DEF ToolStep
<1>20. tool'.pc # "idle" =>
         tool'.op \in {"export", "inspect"} /\ (tool'.pc = "read" => tool'.fd \in DOMAIN inodes /\ tool'.seen \in Stats)
  <2>1. CASE Open
    <3>1. Object.path \in DOMAIN files => Here(Object.path) \in Inodes /\ files[Object.path] \in DOMAIN inodes
      BY <1>0 DEF TreeOK, Here
    <3>2. [ver |-> Here(Object.path).ver, attr |-> Here(Object.path).attr] \in Stats
            \/ Object.path \notin DOMAIN files
      BY <3>1 DEF Inodes, Stats
    <3> QED
      BY <1>0, <2>1, <3>1, <3>2 DEF Open, Goto, Tools, SourceTypeOK
  <2>2. CASE Read
    BY <1>0, <2>2 DEF Read, Tools, SourceTypeOK
  <2>3. CASE CloseFile
    BY <1>0, <2>3 DEF CloseFile, Tools, SourceTypeOK
  <2>4. ASSUME NEW op \in {"export", "inspect"}, Start(op)
        PROVE  tool'.op \in {"export", "inspect"} /\ tool'.pc # "read"
    BY <1>0, <2>4 DEF Start, Tools
  <2>5. NoInventory => tool'.op = tool.op /\ tool'.pc # "read"
    BY <1>0 DEF NoInventory, Goto, Tools
  <2>6. CASE Visit \/ Leave
    BY <1>0, <2>5, <2>6 DEF Visit, Leave, Walking, SourceTypeOK
  <2>7. CASE EndBefore \/ Again \/ EndAfter
    BY <1>0, <2>7 DEF EndBefore, Again, EndAfter, Goto, Tools, SourceTypeOK
  <2>8. CASE ReadAttributes
    BY <1>0, <2>8 DEF ReadAttributes, Goto, Tools, SourceTypeOK
  <2>9. CASE CompareAttributes
    BY <1>0, <2>9 DEF CompareAttributes, Goto, Tools, SourceTypeOK
  <2>10. CASE Publish \/ ReportInspection
    BY <1>0, <2>10 DEF Publish, ReportInspection, Goto, Tools, SourceTypeOK
  <2> QED
    BY <2>1, <2>2, <2>3, <2>4, <2>6, <2>7, <2>8, <2>9, <2>10 DEF ToolStep
<1> QED
  BY <1>1, <1>19, <1>20, TreeLeftAlone DEF SourceTypeOK, treeVars

\* A writer, who leaves the tool alone, keeps the types too.
LEMMA SourceTypesKept == ASSUME SourceTypeOK, [SourceNext]_sourceVars PROVE SourceTypeOK'
<1>1. CASE Write
  <2>1. TreeOK' /\ Dates /\ UNCHANGED <<tool, walk>>
    BY <1>1, WriterMoves DEF SourceTypeOK
  <2> QED
    BY <2>1 DEF SourceTypeOK, Dates
<1>2. CASE ToolStep
  BY <1>2, ToolTypes
<1>3. CASE UNCHANGED sourceVars
  BY <1>3 DEF sourceVars, SourceTypeOK, TreeOK
<1> QED
  BY <1>1, <1>2, <1>3 DEF SourceNext, ToolStep

\* The first state has the types.
LEMMA SourceTypesFirst == SourceInit => SourceTypeOK
<1> SUFFICES ASSUME SourceInit PROVE SourceTypeOK
  OBVIOUS
<1>1. PICK t \in Trees :
        /\ DOMAIN files = DOMAIN t.files /\ DOMAIN dirs = DOMAIN t.dirs
        /\ files \in [DOMAIN t.files -> DOMAIN inodes]
        /\ dirs = [d \in DOMAIN t.dirs |-> [ver |-> 0, attr |-> t.dirs[d]]]
        /\ \E n \in Nat : inodes \in [1 .. n -> Inodes]
  BY TreeAtFirst
<1>2. /\ t.dirs \in [DOMAIN t.dirs -> Attributes] /\ DOMAIN t.files \cup DOMAIN t.dirs \subseteq Paths
      /\ DOMAIN t.files \cap DOMAIN t.dirs = {} /\ <<>> \in DOMAIN t.dirs
  BY TreesAssumption DEF Paths
<1>3. clock = 0
  BY DEF SourceInit
<1>4. TreeOK
  <2>1. dirs \in [DOMAIN dirs -> Stats]
    BY <1>1, <1>2 DEF Stats
  <2> QED
    BY <1>1, <1>2, <1>3, <2>1 DEF TreeOK
<1>5. /\ tool = [pc |-> "idle", op |-> "none", object |-> 1, fd |-> 0, seen |-> None, buf |-> <<>>,
                 before |-> None, after |-> None, attrs |-> <<>>, again |-> {}, items |-> <<>>]
      /\ walk = [stack |-> <<>>, files |-> {}, dirs |-> {}]
  BY DEF SourceInit
<1>6. tool \in Tools
  <2>1. <<>> \in UNION {[S -> Attributes] : S \in SUBSET Paths}
    <3>1. <<>> \in [{} -> Attributes] /\ {} \in SUBSET Paths
      OBVIOUS
    <3> QED
      BY <3>1
  <2>2. <<>> \in Seq(Contents) /\ <<>> \in Seq(Copies \cup BOOLEAN) /\ None \in Lists /\ "idle" \in Tags
    BY DEF Lists, Tags
  <2>3. PICK a \in UNION {[S -> Attributes] : S \in SUBSET Paths} : a = <<>>
    BY <2>1
  <2>4. tool = [pc |-> "idle", op |-> "none", object |-> 1, fd |-> 0, seen |-> None, buf |-> <<>>,
                before |-> None, after |-> None, attrs |-> a, again |-> {}, items |-> <<>>]
    BY <1>5, <2>3
  <2> QED
    BY <2>2, <2>4 DEF Tools
<1>7. walk \in Walks
  BY <1>5 DEF Walks
<1> QED
  BY <1>4, <1>5, <1>6, <1>7 DEF SourceTypeOK

\* Whatever is done to the source while the tools read it, a path leads to one
\* inode, and inventories and items are lists of what the code puts there.
THEOREM SourceTypesOK == SourceSpec => []SourceTypeOK
  BY SourceTypesFirst, SourceTypesKept, PTL DEF SourceSpec

-----------------------------------------------------------------------------
(* What is listed has been there                                           *)

\* Nothing is dated in the future, and what is there now is in the past.
PastOK ==
    /\ \A i \in DOMAIN inodes : inodes[i].ver <= clock
    /\ \A p \in DOMAIN files : <<p, [data |-> Here(p).data, attr |-> Here(p).attr]>> \in past

\* What was read so far is how the file begins, unless it was changed since Open.
BufferOK == tool.pc = "read" =>
    /\ tool.object <= Len(Anchored.objects)
    /\ tool.seen.ver <= inodes[tool.fd].ver
    /\ inodes[tool.fd].ver = tool.seen.ver =>
         /\ tool.seen.attr = inodes[tool.fd].attr
         /\ Len(tool.buf) <= Len(inodes[tool.fd].data)
         /\ \A k \in 1 .. Len(tool.buf) : tool.buf[k] = inodes[tool.fd].data[k]
    /\ tool.op = "export" => \A k \in 1 .. Len(tool.buf) : tool.buf[k] \in stored

\* What an item says of its object.
Recorded(o, item) ==
    IF tool.op = "export"
    THEN <<o.path, item>> \in past /\ \A k \in DOMAIN item.data : item.data[k] \in stored
    ELSE item => <<o.path, [data |-> o.sha256, attr |-> o.attributes]>> \in past

ItemsOK == tool.pc # "end" =>
    /\ Len(tool.items) = tool.object - 1 /\ Len(tool.items) <= Len(Anchored.objects)
    /\ tool.pc = "idle" => tool.items = <<>>
    /\ \A i \in 1 .. Len(tool.items) : Recorded(Anchored.objects[i], tool.items[i])
    /\ result = None

OnceInv == SourceTypeOK /\ PastOK /\ BufferOK /\ ItemsOK

LEMMA OnceFirst == SourceInit => OnceInv
<1> SUFFICES ASSUME SourceInit PROVE OnceInv
  OBVIOUS
<1>1. SourceTypeOK
  BY SourceTypesFirst
<1>2. /\ tool = [pc |-> "idle", op |-> "none", object |-> 1, fd |-> 0, seen |-> None, buf |-> <<>>,
                 before |-> None, after |-> None, attrs |-> <<>>, again |-> {}, items |-> <<>>]
      /\ clock = 0 /\ result = None
  BY DEF SourceInit
<1>3. PICK t \in Trees :
        /\ DOMAIN files = DOMAIN t.files
        /\ \A p \in DOMAIN files : inodes[files[p]] = [data |-> t.files[p].data, ver |-> 0, attr |-> t.files[p].attr]
        /\ \A i \in DOMAIN inodes : inodes[i].ver = 0
        /\ past = {<<p, t.files[p]>> : p \in DOMAIN t.files}
  BY TreeAtFirst
<1>4. PastOK
  <2>1. ASSUME NEW p \in DOMAIN files PROVE <<p, [data |-> Here(p).data, attr |-> Here(p).attr]>> \in past
    <3>1. t.files[p] \in [data : Seq(Contents), attr : Attributes]
      BY <1>3, TreesAssumption
    <3>2. [data |-> Here(p).data, attr |-> Here(p).attr] = [data |-> t.files[p].data, attr |-> t.files[p].attr]
      <4>1. Here(p) = [data |-> t.files[p].data, ver |-> 0, attr |-> t.files[p].attr]
        BY <1>3 DEF Here
      <4> QED
        BY <4>1
    <3>3. [data |-> t.files[p].data, attr |-> t.files[p].attr] = t.files[p]
      BY <3>1
    <3> QED
      BY <1>3, <3>2, <3>3
  <2> QED
    BY <1>2, <1>3, <2>1 DEF PastOK
<1>5. BufferOK
  BY <1>2 DEF BufferOK
<1>6. ItemsOK
  <2>1. Len(Anchored.objects) \in Nat
    BY ObjectsAre
  <2> QED
    BY <1>2, <2>1 DEF ItemsOK
<1> QED
  BY <1>1, <1>4, <1>5, <1>6 DEF OnceInv

\* A writer takes nothing out of the past, and dates what it changes under a
\* reader.
LEMMA OnceWriter == ASSUME OnceInv, Write PROVE OnceInv'
<1>1. /\ TreeOK /\ SourceTypeOK' /\ PastOK /\ BufferOK /\ ItemsOK
  BY SourceTypesKept DEF OnceInv, SourceTypeOK, SourceNext
<1>2. /\ TreeOK' /\ Dates /\ clock' = clock + 1 /\ clock \in Nat /\ past \subseteq past'
      /\ \A i \in DOMAIN inodes' : i \notin DOMAIN inodes => inodes'[i].ver = clock + 1
      /\ \A p \in DOMAIN files' :
           <<p, [data |-> inodes'[files'[p]].data, attr |-> inodes'[files'[p]].attr]>> \in past'
      /\ UNCHANGED <<tool, walk, stored, result>>
  BY <1>1, WriterMoves DEF TreeOK
<1>3. \A i \in DOMAIN inodes : inodes[i].ver \in Nat
  BY <1>1 DEF TreeOK, Inodes
<1>4. PastOK'
  <2>1. ASSUME NEW i \in DOMAIN inodes' PROVE inodes'[i].ver <= clock'
    BY <1>1, <1>2, <1>3 DEF Dates, PastOK
  <2> QED
    BY <1>2, <2>1 DEF PastOK, Here
<1>5. BufferOK'
  <2> SUFFICES ASSUME tool.pc = "read"
               PROVE  /\ tool.seen.ver <= inodes'[tool.fd].ver
                      /\ inodes'[tool.fd].ver = tool.seen.ver => inodes'[tool.fd] = inodes[tool.fd]
    BY <1>1, <1>2 DEF BufferOK
  <2>1. tool.fd \in DOMAIN inodes /\ tool.seen.ver \in Nat /\ tool.seen.ver <= inodes[tool.fd].ver
    BY <1>1 DEF OnceInv, SourceTypeOK, BufferOK, Stats
  <2>2. inodes[tool.fd].ver <= clock /\ inodes[tool.fd].ver \in Nat
    BY <1>1, <1>3, <2>1 DEF PastOK
  <2> QED
    BY <1>2, <2>1, <2>2 DEF Dates
<1>6. ItemsOK'
  BY <1>1, <1>2 DEF ItemsOK, Recorded
<1> QED
  BY <1>1, <1>4, <1>5, <1>6 DEF OnceInv

\* Each step of a tool reads what is there, and lists what it read whole.
LEMMA OnceTool == ASSUME OnceInv, ToolStep PROVE OnceInv'
<1>1. /\ TreeOK /\ tool \in Tools /\ SourceTypeOK /\ SourceTypeOK' /\ PastOK /\ BufferOK /\ ItemsOK
  BY ToolTypes DEF OnceInv, SourceTypeOK
<1>2. UNCHANGED <<files, dirs, inodes, clock, past>>
  BY TreeLeftAlone DEF treeVars
<1>3. PastOK'
  BY <1>1, <1>2 DEF PastOK, Here
<1>4. Len(Anchored.objects) \in Nat /\ Len(tool.items) \in Nat /\ Len(tool.buf) \in Nat
  BY <1>1, ObjectsAre DEF Tools
<1>04. ASSUME NEW o, NEW item, tool'.op = tool.op, stored \subseteq stored', Recorded(o, item) PROVE Recorded(o, item)'
  BY <1>2, <1>04 DEF Recorded
\* Where nothing is read or listed.
<1>5. ASSUME tool'.pc # "read", UNCHANGED result, stored \subseteq stored',
             \/ tool'.pc = "end"
             \/ /\ tool.pc # "end" /\ tool'.op = tool.op /\ tool'.object = tool.object /\ tool'.items = tool.items
                /\ tool'.pc # "idle"
             \/ tool.pc = "idle" /\ tool'.items = tool.items /\ tool'.object = tool.object /\ tool'.pc # "idle"
      PROVE  BufferOK' /\ ItemsOK'
  <2>1. BufferOK'
    BY <1>5 DEF BufferOK
  <2>2. CASE tool'.pc = "end"
    BY <2>1, <2>2 DEF ItemsOK
  <2>3. CASE tool.pc # "end" /\ tool'.op = tool.op /\ tool'.object = tool.object /\ tool'.items = tool.items /\ tool'.pc # "idle"
    BY <1>1, <1>04, <1>5, <2>1, <2>3 DEF ItemsOK
  <2>4. CASE tool.pc = "idle" /\ tool'.items = tool.items /\ tool'.object = tool.object /\ tool'.pc # "idle"
    BY <1>1, <1>5, <2>1, <2>4 DEF ItemsOK
  <2> QED
    BY <1>5, <2>2, <2>3, <2>4
<1>6. CASE Open
  <2>1. CASE Goto("end")
    <3>1. tool'.pc = "end"
      BY <1>1, <2>1 DEF Goto, Tools
    <3> QED
      BY <1>1, <1>3, <1>5, <1>6, <3>1 DEF Open, OnceInv
  <2>2. CASE tool.op = "inspect" /\ tool' = [tool EXCEPT !.object = @ + 1, !.items = Append(@, FALSE)]
    <3>1. PICK s \in Seq(Copies \cup BOOLEAN) : s = tool.items
      BY <1>1 DEF Tools
    <3>2. PICK u : u = Append(s, FALSE)
      OBVIOUS
    <3>3. Len(u) = Len(s) + 1 /\ u[Len(s) + 1] = FALSE /\ \A i \in 1 .. Len(s) : u[i] = s[i]
      BY <3>2, AppendIs
    <3>4. tool'.pc = "objects" /\ tool'.object = tool.object + 1 /\ tool'.items = u /\ tool'.op = "inspect" /\ tool.op = "inspect"
      BY <1>1, <1>6, <2>2, <3>1, <3>2 DEF Open, Tools
    <3>5. Len(s) = tool.object - 1 /\ tool.object \in Nat /\ Len(s) \in Nat /\ tool.object <= Len(Anchored.objects)
          /\ (\A i \in 1 .. Len(s) : Recorded(Anchored.objects[i], s[i])) /\ result = None /\ UNCHANGED result
      BY <1>1, <1>6, <3>1 DEF ItemsOK, Open, Tools
    <3>6. ASSUME NEW i \in 1 .. Len(u) PROVE Recorded(Anchored.objects[i], u[i])'
      <4>1. CASE i \in 1 .. Len(s)
        BY <1>2, <3>3, <3>4, <3>5, <4>1 DEF Recorded
      <4>2. CASE i = Len(s) + 1
        BY <3>3, <3>4, <4>2 DEF Recorded
      <4> QED
        BY <3>3, <3>5, <4>1, <4>2
    <3>7. ItemsOK'
      BY <1>4, <3>3, <3>4, <3>5, <3>6 DEF ItemsOK
    <3>8. BufferOK'
      BY <3>4 DEF BufferOK
    <3> QED
      BY <1>1, <1>3, <3>7, <3>8 DEF OnceInv
  <2>3. CASE /\ Object.path \in DOMAIN files
             /\ tool' = [tool EXCEPT !.pc = "read", !.fd = files[Object.path],
                           !.seen = [ver |-> Here(Object.path).ver, attr |-> Here(Object.path).attr], !.buf = <<>>]
    <3>1. PICK e \in Inodes : e = inodes[files[Object.path]]
      BY <1>1, <2>3 DEF TreeOK
    <3>2. tool' = [tool EXCEPT !.pc = "read", !.fd = files[Object.path], !.seen = [ver |-> e.ver, attr |-> e.attr], !.buf = <<>>]
      BY <2>3, <3>1 DEF Here
    <3>3. /\ tool'.pc = "read" /\ tool'.fd = files[Object.path] /\ tool'.seen = [ver |-> e.ver, attr |-> e.attr]
          /\ tool'.buf = <<>> /\ tool'.object = tool.object /\ tool'.op = tool.op /\ tool'.items = tool.items
          /\ tool.object <= Len(Anchored.objects) /\ tool.pc = "objects" /\ UNCHANGED <<stored, result>>
      BY <1>1, <1>6, <3>2 DEF Open, Tools
    <3>4. e.ver \in Nat /\ Len(e.data) \in Nat
      BY DEF Inodes
    <3>5. BufferOK'
      BY <1>2, <3>1, <3>3, <3>4 DEF BufferOK
    <3>6. ItemsOK'
      BY <1>1, <1>2, <3>3 DEF ItemsOK, Recorded
    <3> QED
      BY <1>1, <1>3, <3>5, <3>6 DEF OnceInv
  <2>4. tool.op = "export" \/ tool.op = "inspect"
    BY <1>1, <1>6 DEF Open, SourceTypeOK
  <2> QED
    BY <1>6, <2>1, <2>2, <2>3, <2>4, Zenon DEF Open
<1>7. CASE Read
  <2>1. PICK s \in Seq(Contents), d \in Seq(Contents) : s = tool.buf /\ d = inodes[tool.fd].data
    BY <1>1, <1>7 DEF Read, SourceTypeOK, TreeOK, Inodes, Tools
  <2>2. PICK b, u : b = d[Len(s) + 1] /\ u = Append(s, b)
    OBVIOUS
  <2>3. /\ tool' = [tool EXCEPT !.buf = u] /\ UNCHANGED result /\ Len(s) < Len(d) /\ tool.pc = "read"
        /\ stored' = IF tool.op = "export" THEN stored \cup {b} ELSE stored
    BY <1>7, <2>1, <2>2 DEF Read
  <2>4. /\ tool'.buf = u /\ tool'.pc = "read" /\ tool'.op = tool.op /\ tool'.fd = tool.fd /\ tool'.seen = tool.seen
        /\ tool'.object = tool.object /\ tool'.items = tool.items
    BY <1>1, <2>3 DEF Tools
  <2>5. Len(u) = Len(s) + 1 /\ u[Len(s) + 1] = b /\ (\A i \in 1 .. Len(s) : u[i] = s[i]) /\ Len(s) \in Nat /\ Len(d) \in Nat
    <3>1. b \in Contents
      BY <2>2, <2>3
    <3> QED
      BY <2>2, <3>1, AppendIs
  <2>6. BufferOK'
    <3>1. inodes[tool.fd].ver = tool.seen.ver => \A k \in 1 .. Len(u) : u[k] = d[k]
      BY <1>1, <2>1, <2>2, <2>3, <2>5 DEF BufferOK
    <3>2. tool.op = "export" => \A k \in 1 .. Len(u) : u[k] \in stored'
      BY <1>1, <2>1, <2>3, <2>5 DEF BufferOK
    <3>3. Len(u) <= Len(d)
      BY <2>3, <2>5
    <3> QED
      BY <1>1, <1>2, <2>1, <2>3, <2>4, <3>1, <3>2, <3>3 DEF BufferOK
  <2>7. ItemsOK'
    BY <1>1, <1>04, <2>3, <2>4 DEF ItemsOK
  <2> QED
    BY <1>1, <1>3, <2>6, <2>7 DEF OnceInv
<1>8. CASE CloseFile
  <2>0. PICK s \in Seq(Copies \cup BOOLEAN) : s = tool.items
    BY <1>1 DEF Tools
  <2>1. PICK c : c = IF tool.op = "export" THEN [data |-> tool.buf, attr |-> tool.seen.attr]
                     ELSE (Undisturbed /\ tool.buf = Object.sha256 /\ tool.seen.attr = Object.attributes)
    OBVIOUS
  <2>2. c \in Copies \cup BOOLEAN
    <3>1. tool.buf \in Seq(Contents) /\ tool.seen.attr \in Attributes
      BY <1>1, <1>8 DEF CloseFile, SourceTypeOK, Stats, Tools
    <3> QED
      BY <2>1, <3>1 DEF Copies
  <2>3. PICK u : u = Append(s, c)
    OBVIOUS
  <2>4. Len(u) = Len(s) + 1 /\ u[Len(s) + 1] = c /\ (\A i \in 1 .. Len(s) : u[i] = s[i]) /\ Len(s) \in Nat
    BY <2>2, <2>3, AppendIs
  <2>5. /\ tool'.object = tool.object + 1 /\ tool'.items = u /\ tool'.op = tool.op /\ UNCHANGED <<stored, result>>
        /\ tool'.pc = IF tool.op = "export" /\ ~Undisturbed THEN "end" ELSE "objects"
    <3>1. CASE tool.op = "export"
      <4>1. tool' = [tool EXCEPT !.pc = IF Undisturbed THEN "objects" ELSE "end", !.object = tool.object + 1, !.items = u]
        BY <1>8, <2>0, <2>1, <2>3, <3>1 DEF CloseFile
      <4> QED
        BY <1>1, <1>8, <3>1, <4>1 DEF CloseFile, Tools
    <3>2. CASE tool.op # "export"
      <4>1. tool' = [tool EXCEPT !.pc = "objects", !.object = tool.object + 1, !.items = u]
        BY <1>8, <2>0, <2>1, <2>3, <3>2 DEF CloseFile
      <4> QED
        BY <1>1, <1>8, <3>2, <4>1 DEF CloseFile, Tools
    <3> QED
      BY <3>1, <3>2
  <2>6. /\ tool.pc = "read" /\ tool.object \in Nat /\ tool.object <= Len(Anchored.objects) /\ Len(s) = tool.object - 1
        /\ (\A i \in 1 .. Len(s) : Recorded(Anchored.objects[i], s[i])) /\ result = None
    BY <1>1, <1>8, <2>0 DEF CloseFile, BufferOK, ItemsOK, Tools
  \* What was read whole and undisturbed is what the file held.
  <2>7. Undisturbed => <<Object.path, [data |-> tool.buf, attr |-> tool.seen.attr]>> \in past
    <3> SUFFICES ASSUME Undisturbed PROVE <<Object.path, [data |-> tool.buf, attr |-> tool.seen.attr]>> \in past
      OBVIOUS
    <3>1. PICK a \in Seq(Contents), d \in Seq(Contents) : a = tool.buf /\ d = inodes[tool.fd].data
      BY <1>1, <2>6 DEF SourceTypeOK, TreeOK, Inodes, Tools
    <3>2. Len(a) = Len(d) /\ (\A k \in 1 .. Len(a) : a[k] = d[k]) /\ tool.seen.attr = inodes[tool.fd].attr
      BY <1>1, <1>8, <2>6, <3>1 DEF CloseFile, BufferOK, Undisturbed
    <3>3. a = d
      BY <3>1, <3>2
    <3>4. Here(Object.path) = inodes[tool.fd] /\ Object.path \in DOMAIN files
      BY DEF Undisturbed, Here
    <3> QED
      BY <1>1, <3>1, <3>2, <3>3, <3>4 DEF PastOK
  <2>08. PICK o : o = Object
    OBVIOUS
  <2>8. (tool.op = "export" => Undisturbed) => Recorded(o, c)'
    <3>1. CASE tool.op = "export"
      <4>1. c.data = tool.buf /\ c = [data |-> tool.buf, attr |-> tool.seen.attr]
        BY <2>1, <3>1
      <4>2. DOMAIN tool.buf = 1 .. Len(tool.buf)
        BY <1>1 DEF Tools
      <4>3. \A k \in DOMAIN c.data : c.data[k] \in stored
        BY <1>1, <2>6, <3>1, <4>1, <4>2 DEF BufferOK
      <4>4. ASSUME Undisturbed PROVE <<Object.path, c>> \in past
        BY <2>7, <4>1, <4>4
      <4> QED
        BY <1>2, <2>5, <2>08, <3>1, <4>3, <4>4 DEF Recorded
    <3>2. CASE tool.op # "export"
      <4>1. c => Undisturbed /\ tool.buf = Object.sha256 /\ tool.seen.attr = Object.attributes
        BY <2>1, <3>2
      <4>2. c => <<Object.path, [data |-> Object.sha256, attr |-> Object.attributes]>> \in past
        BY <2>7, <4>1
      <4> QED
        BY <1>2, <2>5, <2>08, <3>2, <4>2 DEF Recorded
    <3> QED
      BY <3>1, <3>2
  <2>9. ASSUME NEW i \in 1 .. Len(u), tool'.pc # "end" PROVE Recorded(Anchored.objects[i], u[i])'
    <3>1. CASE i \in 1 .. Len(s)
      BY <1>2, <2>4, <2>5, <2>6, <3>1 DEF Recorded
    <3>2. CASE i = Len(s) + 1
      <4>1. Recorded(o, c)'
        BY <2>5, <2>8, <2>9
      <4>2. u[i] = c /\ i = tool.object
        BY <2>4, <2>6, <3>2
      <4> QED
        BY <2>08, <4>1, <4>2 DEF Recorded, Object
    <3> QED
      BY <2>4, <3>1, <3>2
  <2>10. ItemsOK'
    BY <1>4, <2>4, <2>5, <2>6, <2>9 DEF ItemsOK
  <2>11. BufferOK'
    BY <2>5 DEF BufferOK
  <2> QED
    BY <1>1, <1>3, <2>10, <2>11 DEF OnceInv
<1>9. ASSUME NEW op \in {"export", "inspect"}, Start(op) PROVE OnceInv'
  <2>1. tool.pc = "idle" /\ tool'.pc = "before" /\ tool'.items = tool.items /\ tool'.object = tool.object /\ UNCHANGED <<stored, result>>
    BY <1>1, <1>9 DEF Start, Tools
  <2> QED
    BY <1>1, <1>3, <1>5, <2>1 DEF OnceInv
<1>10. NoInventory => /\ tool'.pc \in {"end", "objects", "attributes"} /\ tool'.op = tool.op
                      /\ tool'.items = tool.items /\ tool'.object = tool.object
  BY <1>1 DEF NoInventory, Goto, Tools
<1>11. CASE Visit \/ Leave
  <2>1. /\ tool'.pc \in {"end", "objects", "attributes", "before", "after"} /\ tool'.op = tool.op
        /\ tool'.items = tool.items /\ tool'.object = tool.object
        /\ tool.pc \in {"before", "after"} /\ UNCHANGED <<stored, result>>
    BY <1>10, <1>11 DEF Visit, Leave, Walking
  <2> QED
    BY <1>1, <1>3, <1>5, <2>1 DEF OnceInv
<1>12. CASE EndBefore \/ Again \/ EndAfter \/ ReadAttributes
  <2>1. /\ tool'.pc \in {"end", "objects", "attributes", "after"} /\ tool'.op = tool.op
        /\ tool'.items = tool.items /\ tool'.object = tool.object
        /\ tool.pc \in {"before", "objects", "after", "attributes"} /\ UNCHANGED <<stored, result>>
    BY <1>1, <1>12 DEF EndBefore, Again, EndAfter, ReadAttributes, Goto, Tools
  <2> QED
    BY <1>1, <1>3, <1>5, <2>1 DEF OnceInv
<1>13. CASE CompareAttributes
  <2> DEFINE d == First(Wanted \ tool.again)
             same == d \in DOMAIN dirs /\ dirs[d].attr = Expected(d)
  <2>1. tool.pc = "attributes" /\ UNCHANGED stored /\ (tool.op = "export" \/ tool.op = "inspect")
    BY <1>1, <1>13 DEF CompareAttributes, SourceTypeOK
  <2>2. CASE same
    <3>1. tool' = [tool EXCEPT !.again = @ \cup {d}] /\ UNCHANGED result
      BY <1>13, <2>2 DEF CompareAttributes
    <3>2. tool'.pc = "attributes" /\ tool'.op = tool.op /\ tool'.items = tool.items /\ tool'.object = tool.object
      BY <1>1, <2>1, <3>1 DEF Tools
    <3> QED
      BY <1>1, <1>3, <1>5, <2>1, <3>1, <3>2 DEF OnceInv
  <2>3. CASE ~same
    <3>1. Goto("end")
      BY <1>13, <2>1, <2>3 DEF CompareAttributes
    <3>2. tool'.pc = "end"
      BY <1>1, <3>1 DEF Goto, Tools
    <3> QED
      BY <1>1, <1>3, <3>2 DEF OnceInv, BufferOK, ItemsOK
  <2> QED
    BY <2>2, <2>3
<1>14. CASE Publish \/ ReportInspection
  <2>1. tool'.pc = "end"
    BY <1>1, <1>14 DEF Publish, ReportInspection, Goto, Tools
  <2> QED
    BY <1>1, <1>3, <2>1 DEF OnceInv, BufferOK, ItemsOK
<1> QED
  BY <1>6, <1>7, <1>8, <1>9, <1>11, <1>12, <1>13, <1>14 DEF ToolStep

LEMMA OnceKept == OnceInv /\ [SourceNext]_sourceVars => OnceInv'
<1>1. CASE Write
  BY <1>1, OnceWriter
<1>2. CASE ToolStep
  BY <1>2, OnceTool
<1>3. ASSUME UNCHANGED sourceVars, OnceInv PROVE OnceInv'
  BY <1>3 DEF sourceVars, OnceInv, SourceTypeOK, TreeOK, PastOK, BufferOK, ItemsOK, Recorded, Here
<1> QED
  BY <1>1, <1>2, <1>3 DEF SourceNext, ToolStep

\* Each object's path is its own.
LEMMA ObjectAt ==
    ASSUME NEW p \in Files
    PROVE  LET i == CHOOSE j \in DOMAIN Anchored.objects : Anchored.objects[j].path = p IN
             i \in 1 .. Len(Anchored.objects) /\ Anchored.objects[i].path = p
<1>1. DOMAIN Anchored.objects = 1 .. Len(Anchored.objects)
  BY ObjectsAre
<1>2. \E j \in DOMAIN Anchored.objects : Anchored.objects[j].path = p
  BY DEF Files, PathSet
<1> QED
  BY <1>1, <1>2

\* A result is put together from the items, and stays.
LEMMA OnceOutcome == ASSUME OnceInv, OnceAsRecorded, [SourceNext]_sourceVars PROVE OnceAsRecorded'
<1>1. /\ past \subseteq past' /\ stored \subseteq stored'
  <2>1. CASE Write
    BY <2>1, WriterMoves DEF OnceInv, SourceTypeOK
  <2>2. CASE ToolStep
    BY <2>2, TreeLeftAlone DEF treeVars, ToolStep, Start, Visit, Leave, EndBefore, Open, Read, CloseFile, Again, EndAfter,
       ReadAttributes, CompareAttributes, Publish, ReportInspection
  <2> QED
    BY <2>1, <2>2 DEF SourceNext, ToolStep, sourceVars
<1>2. CASE UNCHANGED result
  BY <1>1, <1>2 DEF OnceAsRecorded
<1>3. CASE Publish
  <2>1. PICK fs : fs = [p \in Files |-> LET i == CHOOSE j \in DOMAIN Anchored.objects : Anchored.objects[j].path = p
                                        IN  tool.items[i]]
    OBVIOUS
  <2>2. result'.op = "manifest" /\ result'.files = fs /\ tool.op = "export" /\ tool.pc = "attributes" /\ Copied /\ UNCHANGED stored
    BY <1>3, <2>1 DEF Publish
  <2>3. ASSUME NEW p \in Files PROVE <<p, fs[p]>> \in past /\ \A k \in DOMAIN fs[p].data : fs[p].data[k] \in stored
    <3>1. PICK i \in 1 .. Len(Anchored.objects) : Anchored.objects[i].path = p /\ fs[p] = tool.items[i]
      BY <2>1, ObjectAt
    <3>2. Len(tool.items) >= Len(Anchored.objects) /\ Len(tool.items) \in Nat
      BY <2>2, ObjectsAre DEF OnceInv, ItemsOK, Copied, SourceTypeOK, Tools
    <3>3. Recorded(Anchored.objects[i], tool.items[i])
      BY <2>2, <3>2, ObjectsAre DEF OnceInv, ItemsOK
    <3> QED
      BY <2>2, <3>1, <3>3 DEF Recorded
  <2> QED
    BY <1>1, <2>2, <2>3 DEF OnceAsRecorded
<1>4. CASE ReportInspection
  <2>1. /\ result'.op = "report" /\ tool.op = "inspect" /\ tool.pc = "attributes" /\ Copied
        /\ result'.complete <=> Exact /\ \A i \in DOMAIN tool.items : tool.items[i]
    BY <1>4 DEF ReportInspection
  <2>2. ASSUME NEW p \in Files, result'.complete PROVE <<p, AnchoredTree.files[p]>> \in past
    <3>1. PICK i \in 1 .. Len(Anchored.objects) :
            /\ Anchored.objects[i].path = p
            /\ AnchoredTree.files[p] = [data |-> Anchored.objects[i].sha256, attr |-> Anchored.objects[i].attributes]
      BY ObjectAt DEF AnchoredTree
    <3>2. Len(tool.items) >= Len(Anchored.objects) /\ Len(tool.items) \in Nat
      BY <2>1, ObjectsAre DEF OnceInv, ItemsOK, Copied, SourceTypeOK, Tools
    <3>3. i \in DOMAIN tool.items
      BY <3>2, ObjectsAre DEF OnceInv, SourceTypeOK, Tools
    <3>4. Recorded(Anchored.objects[i], tool.items[i])
      BY <2>1, <3>2, ObjectsAre DEF OnceInv, ItemsOK
    <3> QED
      BY <2>1, <2>2, <3>1, <3>3, <3>4 DEF Recorded
  <2> QED
    BY <1>1, <2>1, <2>2 DEF OnceAsRecorded, AnchoredTree
<1>5. CASE CompareAttributes /\ ~ UNCHANGED result
  <2>1. tool.op = "export" \/ tool.op = "inspect"
    BY <1>5 DEF CompareAttributes, OnceInv, SourceTypeOK
  <2>2. result' = [op |-> "report", complete |-> FALSE]
    BY <1>5, <2>1 DEF CompareAttributes
  <2> QED
    BY <2>2 DEF OnceAsRecorded
<1>6. Write => UNCHANGED result
  BY DEF Write, Changes
<1>7. ToolStep => UNCHANGED result \/ Publish \/ ReportInspection \/ CompareAttributes
  BY DEF ToolStep, Start, Visit, Leave, EndBefore, Open, Read, CloseFile, Again, EndAfter, ReadAttributes
<1> QED
  BY <1>2, <1>3, <1>4, <1>5, <1>6, <1>7 DEF SourceNext, ToolStep, sourceVars

\* A manifest lists no file in a state it never had, an inspection is complete
\* only if each file was as listed once, and every chunk named was written.
THEOREM SourceOnceAsRecorded == SourceSpec => []OnceAsRecorded
<1>1. SourceInit => OnceInv /\ OnceAsRecorded
  <2>1. SourceInit => result.op = "none"
    BY DEF SourceInit, None
  <2> QED
    BY <2>1, OnceFirst DEF OnceAsRecorded
<1>2. OnceInv /\ OnceAsRecorded /\ [SourceNext]_sourceVars => (OnceInv /\ OnceAsRecorded)'
  BY OnceKept, OnceOutcome
<1> QED
  BY <1>1, <1>2, PTL DEF SourceSpec

-----------------------------------------------------------------------------
(* Paths in order                                                          *)

\* Of some numbers one is the least.
LEMMA LeastOf == \A S \in SUBSET Nat : S # {} => \E x \in S : \A y \in S : x <= y
<1> SUFFICES ASSUME NEW S \in SUBSET Nat, S # {} PROVE \E x \in S : \A y \in S : x <= y
  OBVIOUS
<1> DEFINE T == {0 .. n : n \in S}
<1>1. T \subseteq FiniteSubsetsOf(Nat) /\ T # {}
  <2>1. \A n \in S : 0 .. n \subseteq Nat /\ IsFiniteSet(0 .. n)
    BY FS_Interval
  <2> QED
    BY <2>1 DEF FiniteSubsetsOf
<1>2. PICK t \in T : \A u \in T : ~(<<u, t>> \in StrictSubsetOrdering(Nat))
  <2> HIDE DEF T
  <2> QED
    BY <1>1, FS_StrictSubsetOrderingWellFounded, WFMin
<1>3. PICK x \in S : t = 0 .. x
  OBVIOUS
<1>4. ASSUME NEW y \in S, y < x PROVE FALSE
  <2>1. 0 .. y \in SUBSET Nat /\ 0 .. x \in SUBSET Nat /\ 0 .. y \subseteq 0 .. x /\ 0 .. y # 0 .. x
    BY <1>4
  <2>2. IsFiniteSet(0 .. y) /\ IsFiniteSet(0 .. x)
    BY FS_Interval
  <2>3. <<0 .. y, 0 .. x>> \in StrictSubsetOrdering(Nat)
    BY <2>1, <2>2 DEF StrictSubsetOrdering, FiniteSubsetsOf
  <2>4. 0 .. y \in T
    OBVIOUS
  <2> QED
    BY <1>2, <1>3, <2>3, <2>4
<1> QED
  BY <1>4

\* How a path begins.
LEMMA BeginningIs ==
    ASSUME NEW p \in Paths, NEW n \in Nat, n <= Len(p)
    PROVE  /\ SubSeq(p, 1, n) \in Paths /\ Len(SubSeq(p, 1, n)) = n
           /\ \A j \in 1 .. n : SubSeq(p, 1, n)[j] = p[j]
<1>1. \A j \in 1 .. n : p[j] \in Nat
  BY DEF Paths
<1> QED
  BY <1>1, SubSeqProperties DEF Paths

\* Where two paths begin to differ, the first of them in order goes on with a
\* lower name, or with none.
DiffersAt(p, q, i) ==
    /\ i \in 1 .. Len(q) /\ \A j \in 1 .. i - 1 : j <= Len(p) /\ p[j] = q[j]
    /\ i = Len(p) + 1 \/ (i <= Len(p) /\ p[i] < q[i])

LEMMA BeforeIs ==
    ASSUME NEW p \in Paths, NEW q \in Paths
    PROVE  PathBefore(p, q) <=> \E i \in Nat : DiffersAt(p, q, i)
<1>1. Len(p) \in Nat /\ Len(q) \in Nat /\ (\A j \in 1 .. Len(p) : p[j] \in Nat) /\ (\A j \in 1 .. Len(q) : q[j] \in Nat)
  BY DEF Paths
<1>2. ASSUME Len(p) < Len(q), p = SubSeq(q, 1, Len(p)) PROVE \E i \in Nat : DiffersAt(p, q, i)
  <2>1. DiffersAt(p, q, Len(p) + 1)
    BY <1>1, <1>2, BeginningIs DEF DiffersAt
  <2> QED
    BY <1>1, <2>1
<1>3. ASSUME NEW i \in 1 .. Len(p), i <= Len(q), SubSeq(p, 1, i - 1) = SubSeq(q, 1, i - 1), p[i] < q[i]
      PROVE  \E k \in Nat : DiffersAt(p, q, k)
  <2>1. PICK n \in Nat : n = i - 1 /\ n <= Len(p) /\ n <= Len(q)
    BY <1>1, <1>3
  <2>2. \A j \in 1 .. n : SubSeq(p, 1, n)[j] = p[j] /\ SubSeq(q, 1, n)[j] = q[j]
    BY <2>1, BeginningIs
  <2>3. \A j \in 1 .. n : j <= Len(p) /\ p[j] = q[j]
    BY <1>1, <1>3, <2>1, <2>2
  <2>4. DiffersAt(p, q, i)
    BY <1>1, <1>3, <2>1, <2>3 DEF DiffersAt
  <2> QED
    BY <1>1, <2>4
<1>4. ASSUME NEW i \in Nat, DiffersAt(p, q, i) PROVE PathBefore(p, q)
  <2>1. PICK n \in Nat : n = i - 1 /\ n <= Len(p) /\ n <= Len(q)
    BY <1>1, <1>4 DEF DiffersAt
  <2>2. \A j \in 1 .. n : p[j] = q[j]
    BY <1>4, <2>1 DEF DiffersAt
  <2>3. SubSeq(p, 1, n) = SubSeq(q, 1, n)
    <3>1. PICK a \in Paths, b \in Paths : a = SubSeq(p, 1, n) /\ b = SubSeq(q, 1, n)
      BY <2>1, BeginningIs
    <3>2. Len(a) = n /\ Len(b) = n /\ \A j \in 1 .. n : a[j] = b[j]
      BY <2>1, <2>2, <3>1, BeginningIs
    <3>3. a = b
      BY <3>2 DEF Paths
    <3> QED
      BY <3>1, <3>3
  <2>4. CASE i = Len(p) + 1
    <3>1. n = Len(p) /\ Len(p) < Len(q)
      BY <1>1, <1>4, <2>1, <2>4 DEF DiffersAt
    <3>2. SubSeq(p, 1, Len(p)) = p
      BY DEF Paths
    <3> QED
      BY <2>3, <3>1, <3>2 DEF PathBefore
  <2>5. CASE i <= Len(p) /\ p[i] < q[i]
    BY <1>1, <1>4, <2>1, <2>3, <2>5 DEF PathBefore, DiffersAt
  <2> QED
    BY <1>4, <2>4, <2>5 DEF DiffersAt
<1> QED
  BY <1>2, <1>3, <1>4 DEF PathBefore

\* It is a strict order of all paths.
LEMMA BeforeTransitive ==
    ASSUME NEW p \in Paths, NEW q \in Paths, NEW r \in Paths, PathBefore(p, q), PathBefore(q, r)
    PROVE  PathBefore(p, r)
<1>1. Len(p) \in Nat /\ Len(q) \in Nat /\ Len(r) \in Nat
      /\ (\A j \in 1 .. Len(p) : p[j] \in Nat) /\ (\A j \in 1 .. Len(q) : q[j] \in Nat) /\ (\A j \in 1 .. Len(r) : r[j] \in Nat)
  BY DEF Paths
<1>2. PICK i \in Nat, k \in Nat : DiffersAt(p, q, i) /\ DiffersAt(q, r, k)
  BY BeforeIs
<1>3. CASE i < k
  <2>1. DiffersAt(p, r, i)
    BY <1>1, <1>2, <1>3 DEF DiffersAt
  <2> QED
    BY <2>1, BeforeIs
<1>4. CASE i >= k
  <2>1. DiffersAt(p, r, k)
    BY <1>1, <1>2, <1>4 DEF DiffersAt
  <2> QED
    BY <2>1, BeforeIs
<1> QED
  BY <1>3, <1>4

LEMMA BeforeItself == ASSUME NEW p \in Paths PROVE ~ PathBefore(p, p)
<1>1. Len(p) \in Nat /\ \A j \in 1 .. Len(p) : p[j] \in Nat
  BY DEF Paths
<1> QED
  BY <1>1 DEF PathBefore

LEMMA BeforeTotal ==
    ASSUME NEW p \in Paths, NEW q \in Paths, p # q PROVE PathBefore(p, q) \/ PathBefore(q, p)
<1>1. Len(p) \in Nat /\ Len(q) \in Nat /\ (\A j \in 1 .. Len(p) : p[j] \in Nat) /\ (\A j \in 1 .. Len(q) : q[j] \in Nat)
  BY DEF Paths
<1> DEFINE D == {i \in Nat \ {0} : i > Len(p) \/ i > Len(q) \/ p[i] # q[i]}
<1>2. Len(p) + 1 \in D /\ D \in SUBSET Nat
  BY <1>1
<1>3. PICK i \in D : \A k \in D : i <= k
  <2> HIDE DEF D
  <2> QED
    BY <1>2, LeastOf
<1>4. \A j \in 1 .. i - 1 : j <= Len(p) /\ j <= Len(q) /\ p[j] = q[j]
  BY <1>1, <1>3
<1>5. CASE i > Len(p) /\ i > Len(q)
  <2>1. Len(p) = Len(q) /\ \A j \in 1 .. Len(p) : p[j] = q[j]
    <3>1. i = Len(p) + 1 /\ i = Len(q) + 1
      <4>1. i \in Nat \ {0} /\ (i = 1 \/ i - 1 \in 1 .. i - 1)
        BY <1>3
      <4> QED
        BY <1>1, <1>4, <1>5, <4>1
    <3>2. Len(p) = Len(q) /\ i - 1 = Len(p)
      BY <1>1, <3>1
    <3> QED
      BY <1>4, <3>2
  <2>2. ASSUME NEW a \in Seq(Nat), NEW c \in Seq(Nat), Len(a) = Len(c), \A j \in 1 .. Len(a) : a[j] = c[j] PROVE a = c
    BY <2>2
  <2>3. p = q
    BY <2>1, <2>2 DEF Paths
  <2> QED
    BY <2>3
<1>6. CASE i <= Len(q) /\ (i > Len(p) \/ p[i] < q[i])
  <2>1. DiffersAt(p, q, i)
    BY <1>1, <1>3, <1>4, <1>6 DEF DiffersAt
  <2> QED
    BY <2>1, BeforeIs
<1>7. CASE i <= Len(p) /\ (i > Len(q) \/ q[i] < p[i])
  <2>1. DiffersAt(q, p, i)
    BY <1>1, <1>3, <1>4, <1>7 DEF DiffersAt
  <2> QED
    BY <2>1, BeforeIs
<1> QED
  BY <1>1, <1>3, <1>5, <1>6, <1>7

\* Finitely many paths have a first.
LEMMA FirstIs == ASSUME NEW S \in SUBSET Paths, IsFiniteSet(S), S # {} PROVE First(S) \in S
<1> DEFINE HasFirst(R) == \E d \in R : \A e \in R \ {d} : PathBefore(d, e)
           T == {R \in SUBSET S : R # {} /\ ~ HasFirst(R)}
<1>1. SUFFICES HasFirst(S)
  BY DEF First
<1>2. SUFFICES ASSUME T # {} PROVE FALSE
  BY <1>1
<1>3. T \subseteq FiniteSubsetsOf(S)
  BY FS_Subset DEF FiniteSubsetsOf
<1>4. PICK R \in T : \A U \in T : ~(<<U, R>> \in StrictSubsetOrdering(S))
  <2> HIDE DEF T
  <2> QED
    BY <1>2, <1>3, FS_StrictSubsetOrderingWellFounded, WFMin
<1>5. PICK x \in R : TRUE
  OBVIOUS
<1>6. CASE R = {x}
  <2>1. HasFirst(R)
    BY <1>5, <1>6
  <2> QED
    BY <2>1
<1>7. CASE R # {x}
  <2> DEFINE U == R \ {x}
  <2>1. U \in SUBSET S /\ R \in SUBSET S /\ U # {} /\ U \subseteq R /\ U # R
    BY <1>5, <1>7
  <2>2. <<U, R>> \in StrictSubsetOrdering(S)
    <3>1. IsFiniteSet(U) /\ IsFiniteSet(R)
      BY <2>1, FS_Subset
    <3> HIDE DEF U
    <3> QED
      BY <2>1, <3>1 DEF StrictSubsetOrdering
  <2>3. HasFirst(U)
    BY <1>4, <2>1, <2>2
  <2>4. PICK d \in U : \A e \in U \ {d} : PathBefore(d, e)
    BY <2>3
  <2>5. d \in Paths /\ x \in Paths /\ d # x /\ d \in R
    BY <1>5, <2>1, <2>4
  <2>6. CASE PathBefore(d, x)
    <3>1. \A e \in R \ {d} : PathBefore(d, e)
      BY <2>4, <2>6
    <3> QED
      BY <2>5, <3>1
  <2>7. CASE PathBefore(x, d)
    <3>1. ASSUME NEW e \in R \ {x} PROVE PathBefore(x, e)
      BY <2>1, <2>4, <2>5, <2>7, BeforeTransitive
    <3> QED
      BY <1>5, <3>1
  <2> QED
    BY <2>5, <2>6, <2>7, BeforeTotal
<1> QED
  BY <1>6, <1>7

\* The paths of the manifest are listed once each.
LEMMA ListedOnce ==
    ASSUME NEW s \in Seq(Paths), Sorted(s), NEW i \in 1 .. Len(s), NEW k \in 1 .. Len(s), i < k
    PROVE  s[i] # s[k]
<1>1. Len(s) \in Nat /\ \A j \in 1 .. Len(s) : s[j] \in Paths
  OBVIOUS
<1> DEFINE D == {j \in 1 .. Len(s) : i < j /\ ~ PathBefore(s[i], s[j])}
<1>2. D = {}
  <2> SUFFICES ASSUME D # {} PROVE FALSE
    OBVIOUS
  <2>1. PICK j \in D : \A l \in D : j <= l
    <3>1. D \in SUBSET Nat
      OBVIOUS
    <3> HIDE DEF D
    <3> QED
      BY <3>1, LeastOf
  <2>2. j - 1 \in 1 .. Len(s) - 1 /\ j - 1 >= i
    BY <1>1, <2>1
  <2>3. PathBefore(s[j - 1], s[j])
    <3>1. PathBefore(s[j - 1], s[(j - 1) + 1])
      BY <2>2 DEF Sorted
    <3>2. (j - 1) + 1 = j
      BY <2>1
    <3> QED
      BY <3>1, <3>2
  <2>4. CASE j - 1 = i
    BY <2>1, <2>3, <2>4
  <2>5. CASE j - 1 > i
    <3>1. j - 1 \in 1 .. Len(s) /\ j - 1 \notin D
      BY <1>1, <2>1, <2>2
    <3>2. PathBefore(s[i], s[j - 1])
      BY <2>5, <3>1
    <3>3. PathBefore(s[i], s[j])
      BY <1>1, <2>1, <2>3, <3>1, <3>2, BeforeTransitive
    <3> QED
      BY <2>1, <3>3
  <2> QED
    BY <2>2, <2>4, <2>5
<1>3. PathBefore(s[i], s[k])
  BY <1>2
<1> QED
  BY <1>1, <1>3, BeforeItself

-----------------------------------------------------------------------------
(* A source left alone                                                     *)

\* The tree is closed: a file or directory is in a directory.
TreeClosed ==
    /\ DOMAIN files \cap DOMAIN dirs = {}
    /\ \A p \in (DOMAIN files \cup DOMAIN dirs) \ {<<>>} : Parent(p) \in DOMAIN dirs
    /\ \A d \in DOMAIN dirs : dirs[d].ver = 0

\* Each directory that was found has its names found, or is still on the stack;
\* a name of a directory on the stack is found or to do.
Found(w) == w.files \cup w.dirs
FrameOK(f, w) ==
    /\ f.dir \in DOMAIN dirs /\ f.ver = 0 /\ f.names = Children(f.dir) /\ f.todo \subseteq f.names
    /\ f.names \ f.todo \subseteq Found(w)
FindsAll(w) ==
    /\ w.files \subseteq DOMAIN files /\ w.dirs \subseteq DOMAIN dirs \ {<<>>}
    /\ \A i \in 1 .. Len(w.stack) : FrameOK(w.stack[i], w)
    /\ \A d \in w.dirs \cup {<<>>} : Children(d) \subseteq Found(w) \/ \E i \in 1 .. Len(w.stack) : w.stack[i].dir = d
WalkOK == tool.pc \in {"before", "after"} => FindsAll(walk)

\* An inventory is the whole tree.
WholeTree == [op |-> "inventory", files |-> DOMAIN files, dirs |-> DOMAIN dirs \ {<<>>}]
InventoriesOK ==
    /\ tool.pc \in {"attributes", "objects", "read", "after"} =>
         tool.before = WholeTree /\ (tool.op = "export" => DOMAIN files = Files)
    /\ tool.pc = "attributes" /\ Copied => tool.after = WholeTree
    /\ tool.pc = "idle" => tool.op = "none"
    /\ tool.pc \in {"idle", "before"} => tool.object = 1
    /\ tool.pc = "after" => Copied

\* Directories' attributes, as read and as compared.
AttrsOK == tool.op # "inspect" =>
    /\ DOMAIN tool.attrs \subseteq DOMAIN dirs /\ \A d \in DOMAIN tool.attrs : tool.attrs[d] = dirs[d].attr
    /\ tool.pc \in {"objects", "read", "after"} \/ (tool.pc = "attributes" /\ Copied) => DOMAIN dirs \subseteq DOMAIN tool.attrs
AgainOK == tool.op # "export" =>
    /\ tool.again \subseteq Directories
    /\ \A d \in tool.again : d \in DOMAIN dirs /\ dirs[d].attr = AnchoredAttributes(d)

\* The file being read is still where it was found; each item says what there is.
ReadOK == tool.pc = "read" => Object.path \in DOMAIN files /\ files[Object.path] = tool.fd
Listed(o, item) ==
    IF tool.op = "export"
    THEN o.path \in DOMAIN files /\ item = [data |-> Here(o.path).data, attr |-> Here(o.path).attr]
    ELSE item <=> o.path \in DOMAIN files /\ Here(o.path).data = o.sha256 /\ Here(o.path).attr = o.attributes
ListedOK == tool.pc # "end" => \A i \in 1 .. Len(tool.items) : Listed(Anchored.objects[i], tool.items[i])

QuietInv == Quiet => TreeClosed /\ WalkOK /\ InventoriesOK /\ AttrsOK /\ AgainOK /\ ReadOK /\ ListedOK

\* What is left alone of the tree leaves its parts alone.
LEMMA SameTree ==
    ASSUME UNCHANGED treeVars
    PROVE  /\ UNCHANGED <<files, dirs, inodes, clock, past, WholeTree>> /\ TreeClosed => TreeClosed'
           /\ \A w : walk' = w /\ FindsAll(w) => FindsAll(walk)'
<1>1. UNCHANGED <<files, dirs, inodes, clock, past, WholeTree>>
  BY DEF treeVars, WholeTree
<1>2. TreeClosed => TreeClosed'
  BY <1>1 DEF TreeClosed, Parent
<1>3. ASSUME NEW w, walk' = w, FindsAll(w) PROVE FindsAll(walk)'
  BY <1>1, <1>3 DEF FindsAll, FrameOK, Children, Found
<1> QED
  BY <1>1, <1>2, <1>3

\* Of the names left in a directory, the next is one.
LEMMA NextIs ==
    ASSUME TreeOK, Top \in Frames, Top.todo \subseteq Children(Top.dir), Top.todo # {} PROVE Next1 \in Top.todo
<1> DEFINE S == {p[Len(p)] : p \in Top.todo}
<1>1. \A p \in Top.todo : p[Len(p)] \in Nat
  <2> SUFFICES ASSUME NEW p \in Top.todo PROVE p[Len(p)] \in Nat
    OBVIOUS
  <2>1. Top.dir \in Paths /\ p \in Paths /\ Len(p) = Len(Top.dir) + 1
    BY ChildrenAre DEF Frames, Children
  <2>2. Len(p) \in 1 .. Len(p)
    BY <2>1 DEF Paths
  <2> QED
    BY <2>1, <2>2 DEF Paths
<1>2. PICK x \in S : \A y \in S : x <= y
  <2>1. S \in SUBSET Nat /\ S # {}
    BY <1>1
  <2> HIDE DEF S
  <2> QED
    BY <2>1, LeastOf
<1>3. \E p \in Top.todo : \A q \in Top.todo : p[Len(p)] <= q[Len(q)]
  BY <1>2
<1> QED
  BY <1>3 DEF Next1

\* A new walk has everything to do.
LEMMA NewWalkOK == ASSUME TreeOK, TreeClosed, UNCHANGED treeVars, NewWalk PROVE FindsAll(walk)'
<1>1. PICK f : f = Frame(<<>>)
  OBVIOUS
<1>2. PICK w : w = [stack |-> <<f>>, files |-> {}, dirs |-> {}]
  OBVIOUS
<1>3. w.stack = <<f>> /\ w.files = {} /\ w.dirs = {} /\ walk' = w
  BY <1>1, <1>2 DEF NewWalk
<1>4. FrameOK(f, w) /\ f.dir = <<>>
  BY <1>1 DEF FrameOK, Frame, TreeClosed, TreeOK
<1>5. Len(<<f>>) = 1 /\ <<f>>[1] = f
  OBVIOUS
<1>6. FindsAll(w)
  BY <1>3, <1>4, <1>5 DEF FindsAll
<1> QED
  BY <1>3, <1>6, SameTree

\* Looking at a name goes on with the walk.
LEMMA QuietVisit == ASSUME SourceTypeOK, TreeClosed, WalkOK, Visit PROVE UNCHANGED tool /\ FindsAll(walk)'
<1>1. /\ TreeOK /\ walk \in Walks /\ walk.stack # <<>> /\ tool.pc \in {"before", "after"} /\ Top.todo # {}
      /\ UNCHANGED treeVars
  BY DEF SourceTypeOK, Visit, Walking
<1>2. PICK n \in Nat \ {0}, t \in Frames : n = Len(walk.stack) /\ t = Top /\ t = walk.stack[n]
  BY <1>1, StackIs DEF Top
<1>3. /\ walk.files \subseteq DOMAIN files /\ walk.dirs \subseteq DOMAIN dirs \ {<<>>}
      /\ \A i \in 1 .. n : FrameOK(walk.stack[i], walk)
      /\ \A d \in walk.dirs \cup {<<>>} : Children(d) \subseteq Found(walk) \/ \E i \in 1 .. n : walk.stack[i].dir = d
  BY <1>1, <1>2 DEF WalkOK, FindsAll
<1>4. FrameOK(t, walk)
  BY <1>2, <1>3
<1>5. PICK p \in t.todo : p = Next1
  BY <1>1, <1>2, <1>4, NextIs DEF FrameOK
<1>6. p \in DOMAIN files \cup (DOMAIN dirs \ {<<>>})
  BY <1>4 DEF FrameOK, Children
<1>7. PICK s \in Seq(Frames) :
        /\ s = Did(p) /\ Len(s) = n /\ \A i \in 1 .. n - 1 : s[i] = walk.stack[i]
        /\ s[n].dir = t.dir /\ s[n].ver = t.ver /\ s[n].names = t.names /\ s[n].todo = t.todo \ {p}
  BY <1>1, <1>2, DidIs
<1>8. \A i \in 1 .. n : s[i].dir = walk.stack[i].dir
  BY <1>2, <1>7
<1>9. ASSUME NEW w, Found(w) = Found(walk) \cup {p}, NEW i \in 1 .. n PROVE FrameOK(s[i], w)
  <2>1. CASE i = n
    BY <1>4, <1>7, <1>9, <2>1 DEF FrameOK
  <2>2. CASE i # n
    <3>1. s[i] = walk.stack[i] /\ FrameOK(walk.stack[i], walk)
      BY <1>2, <1>3, <1>7, <2>2
    <3> QED
      BY <1>9, <3>1 DEF FrameOK
  <2> QED
    BY <2>1, <2>2
<1>10. CASE p \in DOMAIN files /\ walk' = [walk EXCEPT !.stack = s, !.files = @ \cup {p}] /\ UNCHANGED tool
  <2>1. PICK w : w = [walk EXCEPT !.stack = s, !.files = @ \cup {p}]
    OBVIOUS
  <2>2. w.stack = s /\ w.files = walk.files \cup {p} /\ w.dirs = walk.dirs /\ walk' = w
    BY <1>1, <1>10, <2>1 DEF Walks
  <2>3. Found(w) = Found(walk) \cup {p}
    BY <2>2 DEF Found
  <2>4. \A i \in 1 .. n : FrameOK(s[i], w)
    BY <1>9, <2>3
  <2>5. ASSUME NEW d \in walk.dirs \cup {<<>>} PROVE Children(d) \subseteq Found(w) \/ \E i \in 1 .. n : s[i].dir = d
    BY <1>3, <1>8, <2>3
  <2>6. FindsAll(w)
    BY <1>3, <1>7, <1>10, <2>2, <2>4, <2>5 DEF FindsAll
  <2> QED
    BY <1>1, <1>10, <2>2, <2>6, SameTree
<1>11. CASE p \in DOMAIN dirs /\ walk' = [walk EXCEPT !.stack = Append(s, Frame(p)), !.dirs = @ \cup {p}] /\ UNCHANGED tool
  <2>0. PICK f \in Frames : f = Frame(p)
    BY <1>1, <1>11, FramesAre
  <2>1. PICK u : f = Frame(p) /\ u = Append(s, f)
    BY <2>0
  <2>2. Len(u) = n + 1 /\ u[n + 1] = f /\ \A i \in 1 .. n : u[i] = s[i]
    <3>1. Len(Append(s, f)) = Len(s) + 1 /\ Append(s, f)[Len(s) + 1] = f /\ \A i \in 1 .. Len(s) : Append(s, f)[i] = s[i]
      BY AppendIs
    <3> QED
      BY <1>7, <2>1, <3>1
  <2>3. PICK w : w = [walk EXCEPT !.stack = u, !.dirs = @ \cup {p}]
    OBVIOUS
  <2>4. w.stack = u /\ w.dirs = walk.dirs \cup {p} /\ w.files = walk.files /\ walk' = w
    BY <1>1, <1>11, <2>1, <2>3 DEF Walks
  <2>5. Found(w) = Found(walk) \cup {p}
    BY <2>4 DEF Found
  <2>6. f.dir = p /\ FrameOK(f, w)
    BY <1>11, <2>1 DEF FrameOK, Frame, TreeClosed
  <2>7. ASSUME NEW i \in 1 .. n + 1 PROVE FrameOK(u[i], w)
    <3>1. CASE i = n + 1
      BY <2>2, <2>6, <3>1
    <3>2. CASE i # n + 1
      <4>1. i \in 1 .. n
        BY <1>2, <3>2
      <4> QED
        BY <1>9, <2>2, <2>5, <4>1
    <3> QED
      BY <3>1, <3>2
  <2>8. ASSUME NEW d \in walk.dirs \cup {p} \cup {<<>>}
        PROVE  Children(d) \subseteq Found(w) \/ \E i \in 1 .. n + 1 : u[i].dir = d
    <3>1. CASE d = p
      <4>1. u[n + 1].dir = p /\ n + 1 \in 1 .. n + 1
        BY <1>2, <2>2, <2>6
      <4> QED
        BY <3>1, <4>1
    <3>2. CASE d # p
      <4>1. Children(d) \subseteq Found(walk) \/ \E i \in 1 .. n : walk.stack[i].dir = d
        BY <1>3, <3>2
      <4>2. CASE Children(d) \subseteq Found(walk)
        BY <2>5, <4>2
      <4>3. ASSUME NEW i \in 1 .. n, walk.stack[i].dir = d PROVE i \in 1 .. n + 1 /\ u[i].dir = d
        BY <1>8, <2>2, <4>3
      <4> QED
        BY <4>1, <4>2, <4>3
    <3> QED
      BY <3>1, <3>2
  <2>9. p # <<>>
    BY <1>1, <1>6 DEF TreeOK
  <2>10. FindsAll(w)
    BY <1>3, <1>11, <2>2, <2>4, <2>7, <2>8, <2>9 DEF FindsAll
  <2> QED
    BY <1>1, <1>11, <2>4, <2>10, SameTree
<1> QED
  BY <1>5, <1>6, <1>7, <1>10, <1>11 DEF Visit

\* A directory is left when all of it was found.
LEMMA QuietLeave == ASSUME SourceTypeOK, TreeClosed, WalkOK, Leave PROVE UNCHANGED tool /\ FindsAll(walk)'
<1>1. /\ TreeOK /\ walk \in Walks /\ walk.stack # <<>> /\ tool.pc \in {"before", "after"} /\ Top.todo = {}
      /\ UNCHANGED treeVars
  BY DEF SourceTypeOK, Leave, Walking
<1>2. PICK n \in Nat \ {0}, t \in Frames : n = Len(walk.stack) /\ t = Top /\ t = walk.stack[n]
  BY <1>1, StackIs DEF Top
<1>3. /\ walk.files \subseteq DOMAIN files /\ walk.dirs \subseteq DOMAIN dirs \ {<<>>}
      /\ \A i \in 1 .. n : FrameOK(walk.stack[i], walk)
      /\ \A d \in walk.dirs \cup {<<>>} : Children(d) \subseteq Found(walk) \/ \E i \in 1 .. n : walk.stack[i].dir = d
  BY <1>1, <1>2 DEF WalkOK, FindsAll
<1>4. FrameOK(t, walk)
  BY <1>2, <1>3
<1>5. t.dir \in DOMAIN dirs /\ t.names = Children(t.dir) /\ t.ver = dirs[t.dir].ver /\ Children(t.dir) \subseteq Found(walk)
  BY <1>1, <1>2, <1>4 DEF FrameOK, TreeClosed
<1>6. PICK s \in Seq(Frames) : s = Below /\ Len(s) = n - 1 /\ \A i \in 1 .. n - 1 : s[i] = walk.stack[i]
  BY <1>1, <1>2, StackIs
<1>7. PICK w : w = [walk EXCEPT !.stack = s]
  OBVIOUS
<1>8. w.stack = s /\ w.files = walk.files /\ w.dirs = walk.dirs /\ Found(w) = Found(walk)
  BY <1>1, <1>7 DEF Walks, Found
<1>9. walk' = w /\ UNCHANGED tool
  BY <1>2, <1>5, <1>6, <1>7 DEF Leave
<1>10. ASSUME NEW i \in 1 .. n - 1 PROVE FrameOK(s[i], w)
  <2>1. s[i] = walk.stack[i] /\ FrameOK(walk.stack[i], walk)
    BY <1>2, <1>3, <1>6
  <2> QED
    BY <1>8, <2>1 DEF FrameOK
<1>11. ASSUME NEW d \in walk.dirs \cup {<<>>}
       PROVE  Children(d) \subseteq Found(w) \/ \E i \in 1 .. n - 1 : s[i].dir = d
  <2>1. ASSUME NEW i \in 1 .. n, walk.stack[i].dir = d PROVE Children(d) \subseteq Found(walk) \/ \E k \in 1 .. n - 1 : s[k].dir = d
    <3>1. CASE i = n
      BY <1>2, <1>5, <2>1, <3>1
    <3>2. CASE i # n
      BY <1>2, <1>6, <2>1, <3>2
    <3> QED
      BY <3>1, <3>2
  <2> QED
    BY <1>3, <1>8, <2>1
<1>12. FindsAll(w)
  BY <1>3, <1>6, <1>8, <1>10, <1>11 DEF FindsAll
<1> QED
  BY <1>1, <1>9, <1>12, SameTree

\* A walk that is done has found the whole tree.
LEMMA WalkDone ==
    ASSUME SourceTypeOK, TreeClosed, WalkOK, tool.pc \in {"before", "after"}, walk.stack = <<>>
    PROVE  Inventory = WholeTree
<1>1. /\ walk.files \subseteq DOMAIN files /\ walk.dirs \subseteq DOMAIN dirs \ {<<>>}
      /\ \A d \in walk.dirs \cup {<<>>} : Children(d) \subseteq Found(walk)
  BY DEF WalkOK, FindsAll
<1>2. /\ DOMAIN files \subseteq Paths \ {<<>>} /\ DOMAIN dirs \subseteq Paths
  BY DEF SourceTypeOK, TreeOK
<1> DEFINE Missed == (DOMAIN files \cup (DOMAIN dirs \ {<<>>})) \ Found(walk)
           S == {Len(p) : p \in Missed}
<1>3. SUFFICES ASSUME Missed # {} PROVE FALSE
  <2>1. DOMAIN files \cap DOMAIN dirs = {}
    BY DEF TreeClosed
  <2>2. walk.files = DOMAIN files /\ walk.dirs = DOMAIN dirs \ {<<>>}
    BY <1>1, <1>2, <1>3, <2>1 DEF Found
  <2> QED
    BY <2>2 DEF Inventory, WholeTree
<1>4. \A p \in Missed : p \in Paths /\ p # <<>> /\ Len(p) \in Nat
  BY <1>2 DEF Paths
<1>5. PICK x \in S : \A y \in S : x <= y
  <2>1. S \in SUBSET Nat /\ S # {}
    <3> HIDE DEF Missed
    <3> QED
      BY <1>3, <1>4
  <2> HIDE DEF S
  <2> QED
    BY <2>1, LeastOf
<1>6. PICK p \in Missed : \A q \in Missed : Len(p) <= Len(q)
  BY <1>5
<1>7. p \in Paths /\ p # <<>> /\ Len(p) \in Nat \ {0}
  BY <1>4, EmptySeq DEF Paths
<1>8. PICK n \in Nat : n = Len(p) - 1 /\ n <= Len(p)
  <2>1. Len(p) - 1 \in Nat /\ Len(p) - 1 <= Len(p)
    BY <1>7
  <2> QED
    BY <2>1, Zenon
<1>9. PICK d : d = SubSeq(p, 1, n)
  OBVIOUS
<1>10. d \in Paths /\ Len(d) = n /\ d = Parent(p)
  BY <1>7, <1>8, <1>9, BeginningIs DEF Parent
<1>11. d \in DOMAIN dirs
  BY <1>6, <1>7, <1>10 DEF TreeClosed
<1>12. p \in Children(d)
  BY <1>6, <1>7, <1>8, <1>9, <1>10 DEF Children
<1>13. d \notin Missed
  BY <1>6, <1>8, <1>10
<1>14. d = <<>> \/ d \in walk.dirs
  BY <1>1, <1>11, <1>13 DEF Found, TreeClosed
<1> QED
  BY <1>1, <1>6, <1>12, <1>14

LEMMA QuietFirst == SourceInit => QuietInv
<1> SUFFICES ASSUME SourceInit PROVE QuietInv
  OBVIOUS
<1>1. /\ tool = [pc |-> "idle", op |-> "none", object |-> 1, fd |-> 0, seen |-> None, buf |-> <<>>,
                 before |-> None, after |-> None, attrs |-> <<>>, again |-> {}, items |-> <<>>]
  BY DEF SourceInit
<1>2. PICK t \in Trees :
        /\ DOMAIN files = DOMAIN t.files /\ DOMAIN dirs = DOMAIN t.dirs
        /\ dirs = [d \in DOMAIN t.dirs |-> [ver |-> 0, attr |-> t.dirs[d]]]
  BY TreeAtFirst
<1>3. /\ DOMAIN files \cap DOMAIN dirs = {} /\ <<>> \in DOMAIN dirs /\ DOMAIN files \cup DOMAIN dirs \subseteq Paths
      /\ \A p \in DOMAIN files \cup DOMAIN dirs : Ancestors(p) \subseteq DOMAIN dirs
  BY <1>2, TreesAssumption DEF Paths
<1>4. ASSUME NEW p \in (DOMAIN files \cup DOMAIN dirs) \ {<<>>} PROVE Parent(p) \in DOMAIN dirs
  <2>1. p \in Paths /\ Len(p) \in Nat /\ Len(p) # 0
    BY <1>3, EmptySeq DEF Paths
  <2>2. CASE Len(p) = 1
    <3>1. Parent(p) = SubSeq(p, 1, 0)
      BY <2>2 DEF Parent
    <3>2. SubSeq(p, 1, 0) = <<>>
      BY <2>1, BeginningIs, EmptySeq DEF Paths
    <3> QED
      BY <1>3, <3>1, <3>2
  <2>3. CASE Len(p) # 1
    <3>0. PICK n : n = Len(p)
      OBVIOUS
    <3>01. n \in Nat /\ n # 0 /\ n # 1
      BY <2>1, <2>3, <3>0, Zenon
    <3>02. n - 1 \in 1 .. n - 1
      BY <3>01
    <3>1. Len(p) - 1 \in 1 .. Len(p) - 1
      BY <3>0, <3>02
    <3>2. Parent(p) \in Ancestors(p)
      BY <3>1 DEF Parent, Ancestors
    <3> QED
      BY <1>3, <3>2
  <2> QED
    BY <2>2, <2>3
<1>5. TreeClosed
  BY <1>2, <1>3, <1>4 DEF TreeClosed
<1>6. DOMAIN tool.attrs = {} /\ tool.again = {} /\ Len(tool.items) = 0 /\ tool.pc = "idle" /\ tool.object = 1 /\ tool.op = "none"
  BY <1>1
<1> QED
  BY <1>5, <1>6 DEF QuietInv, WalkOK, InventoriesOK, AttrsOK, AgainOK, ReadOK, ListedOK

\* The directories are finitely many, and there is one to compare until all are.
LEMMA DirectoriesAre == Directories \in SUBSET Paths /\ IsFiniteSet(Directories)
<1>1. IsFiniteSet(1 .. Len(Anchored.directories))
  BY ObjectsAre, FS_Interval
<1>2. PathSet(Anchored.directories) = {Anchored.directories[i].path : i \in 1 .. Len(Anchored.directories)}
  BY ObjectsAre DEF PathSet
<1>3. IsFiniteSet(PathSet(Anchored.directories))
  <2>1. PICK f : f = [i \in 1 .. Len(Anchored.directories) |-> Anchored.directories[i].path]
    OBVIOUS
  <2>2. f \in Surjection(1 .. Len(Anchored.directories), PathSet(Anchored.directories))
    BY <1>2, <2>1 DEF Surjection
  <2> QED
    BY <1>1, <2>2, FS_Surjection
<1>4. IsFiniteSet(PathSet(Anchored.directories) \cup {<<>>})
  BY <1>3, FS_AddElement
<1> QED
  BY <1>4, AnchoredAssumption DEF Directories, Paths

\* In a source left alone each step of a tool sees what there is.
LEMMA QuietTool == ASSUME OnceInv, QuietInv, Quiet, ToolStep PROVE QuietInv'
<1>1. /\ SourceTypeOK /\ SourceTypeOK' /\ TreeOK /\ tool \in Tools /\ walk \in Walks /\ PastOK /\ BufferOK /\ ItemsOK
      /\ TreeClosed /\ WalkOK /\ InventoriesOK /\ AttrsOK /\ AgainOK /\ ReadOK /\ ListedOK
  BY ToolTypes DEF OnceInv, SourceTypeOK, QuietInv
<1>02. UNCHANGED treeVars
  BY TreeLeftAlone
<1>2. UNCHANGED treeVars /\ UNCHANGED <<files, dirs, inodes, clock, past, WholeTree>> /\ TreeClosed'
  BY <1>1, <1>02 DEF treeVars, WholeTree, TreeClosed, Parent
<1>3. Len(Anchored.objects) \in Nat \ {0} /\ Len(tool.items) \in Nat /\ tool.object \in Nat
  BY <1>1, ObjectsAre DEF Tools
<1>4. SUFFICES WalkOK' /\ InventoriesOK' /\ AttrsOK' /\ AgainOK' /\ ReadOK' /\ ListedOK'
  BY <1>2 DEF QuietInv
<1>5. ASSUME NEW o, NEW item, tool'.op = tool.op, Listed(o, item) PROVE Listed(o, item)'
  BY <1>2, <1>5 DEF Listed, Here
\* Where the tool stops.
<1>6. ASSUME tool'.pc = "end", tool'.op = tool.op, tool'.attrs = tool.attrs, tool'.again = tool.again
      PROVE  WalkOK' /\ InventoriesOK' /\ AttrsOK' /\ AgainOK' /\ ReadOK' /\ ListedOK'
  <2>1. WalkOK' /\ InventoriesOK' /\ ReadOK' /\ ListedOK'
    BY <1>6 DEF WalkOK, InventoriesOK, ReadOK, ListedOK
  <2>2. AttrsOK'
    BY <1>1, <1>2, <1>6 DEF AttrsOK
  <2>3. AgainOK'
    BY <1>1, <1>2, <1>6 DEF AgainOK, AnchoredAttributes
  <2> QED
    BY <2>1, <2>2, <2>3
\* Where nothing is listed, and no attributes are read.
<1>7. ASSUME tool'.op = tool.op \/ tool.pc = "idle", tool'.items = tool.items, tool.pc # "end", tool'.pc # "read"
      PROVE  ReadOK' /\ ListedOK'
  <2>1. ReadOK'
    BY <1>7 DEF ReadOK
  <2>2. CASE tool'.op = tool.op
    BY <1>1, <1>5, <1>7, <2>1, <2>2 DEF ListedOK
  <2>3. CASE tool.pc = "idle"
    BY <1>1, <1>7, <2>1, <2>3 DEF ListedOK, ItemsOK
  <2> QED
    BY <1>7, <2>2, <2>3
<1>8. ASSUME tool'.op = tool.op \/ tool.pc = "idle", tool'.attrs = tool.attrs, tool'.again = tool.again,
             \/ tool'.pc \in {"before", "end"}
             \/ tool'.pc = "attributes" /\ tool'.object <= Len(Anchored.objects)
             \/ (tool.pc \in {"objects", "read", "after"} \/ (tool.pc = "attributes" /\ Copied)) /\ tool'.pc # "idle"
             \/ tool'.op = "inspect"
      PROVE  AttrsOK' /\ AgainOK'
  <2>1. AgainOK'
    <3>1. tool'.op # "export" => tool.op # "export"
      BY <1>1, <1>8 DEF InventoriesOK
    <3>2. tool'.again = tool.again /\ dirs' = dirs
      BY <1>2, <1>8
    <3> QED
      BY <1>1, <3>1, <3>2 DEF AgainOK, AnchoredAttributes
  <2>2. AttrsOK'
    <3> SUFFICES ASSUME tool'.op # "inspect" PROVE AttrsOK'
      BY DEF AttrsOK
    <3>1. tool.op # "inspect"
      BY <1>1, <1>8 DEF InventoriesOK
    <3>2. tool'.object <= Len(Anchored.objects) => ~ Copied'
      <4>1. tool'.object \in Nat
        BY <1>1 DEF SourceTypeOK, Tools
      <4> QED
        BY <1>3, <4>1 DEF Copied
    <3>3. tool'.pc \in {"objects", "read", "after"} \/ (tool'.pc = "attributes" /\ Copied') =>
            tool.pc \in {"objects", "read", "after"} \/ (tool.pc = "attributes" /\ Copied)
      BY <1>8, <3>2
    <3>4. /\ DOMAIN tool.attrs \subseteq DOMAIN dirs /\ \A d \in DOMAIN tool.attrs : tool.attrs[d] = dirs[d].attr
          /\ tool.pc \in {"objects", "read", "after"} \/ (tool.pc = "attributes" /\ Copied) =>
               DOMAIN dirs \subseteq DOMAIN tool.attrs
      BY <1>1, <3>1 DEF AttrsOK
    <3>5. tool'.attrs = tool.attrs /\ dirs' = dirs
      BY <1>2, <1>8
    <3> QED
      BY <3>3, <3>4, <3>5 DEF AttrsOK
  <2> QED
    BY <2>1, <2>2
<1>9. ASSUME NEW op \in {"export", "inspect"}, Start(op)
      PROVE  WalkOK' /\ InventoriesOK' /\ AttrsOK' /\ AgainOK' /\ ReadOK' /\ ListedOK'
  <2>1. /\ tool.pc = "idle" /\ tool'.pc = "before" /\ tool'.op = op /\ tool'.items = tool.items /\ tool'.object = tool.object
        /\ tool'.attrs = tool.attrs /\ tool'.again = tool.again
    BY <1>1, <1>9 DEF Start, Tools
  <2>2. WalkOK'
    BY <1>1, <1>2, <1>9, NewWalkOK DEF Start, WalkOK
  <2>3. InventoriesOK'
    BY <1>1, <2>1 DEF InventoriesOK
  <2> QED
    BY <1>7, <1>8, <2>1, <2>2, <2>3
<1>10. CASE Visit \/ Leave
  <2>1. UNCHANGED tool /\ FindsAll(walk)' /\ tool.pc \in {"before", "after"}
    BY <1>1, <1>10, QuietVisit, QuietLeave DEF Visit, Leave, Walking
  <2>2. WalkOK'
    BY <2>1 DEF WalkOK
  <2>3. InventoriesOK'
    BY <1>1, <1>2, <2>1 DEF InventoriesOK, Copied
  <2> QED
    BY <1>7, <1>8, <2>1, <2>2, <2>3
<1>11. CASE EndBefore
  <2>1. Inventory = WholeTree /\ tool.pc = "before" /\ tool.object = 1 /\ (tool.op = "export" \/ tool.op = "inspect")
    BY <1>1, <1>11, WalkDone DEF EndBefore, InventoriesOK, SourceTypeOK
  <2>2. PICK c : c = CASE tool.op = "inspect" -> "objects" [] tool.op = "export" /\ walk.files # Files -> "end" [] OTHER -> "attributes"
    OBVIOUS
  <2>3. tool' = [tool EXCEPT !.before = Inventory, !.pc = c]
    BY <1>11, <2>2 DEF EndBefore
  <2>4. /\ tool'.pc = c /\ tool'.before = WholeTree /\ tool'.op = tool.op /\ tool'.items = tool.items
        /\ tool'.object = 1 /\ tool'.attrs = tool.attrs /\ tool'.again = tool.again
    BY <1>1, <2>1, <2>3 DEF Tools
  <2>5. \/ tool.op = "inspect" /\ c = "objects"
        \/ tool.op = "export" /\ c = "end"
        \/ tool.op = "export" /\ c = "attributes" /\ DOMAIN files = Files
    <3>1. walk.files = DOMAIN files
      BY <2>1 DEF Inventory, WholeTree
    <3>2. CASE tool.op = "inspect"
      BY <2>2, <3>2
    <3>3. CASE tool.op = "export" /\ walk.files # Files
      BY <2>2, <3>3
    <3>4. CASE tool.op = "export" /\ walk.files = Files
      BY <2>2, <3>1, <3>4
    <3> QED
      BY <2>1, <3>2, <3>3, <3>4
  <2>6. CASE c = "end"
    BY <1>6, <2>4, <2>6
  <2>7. CASE c # "end"
    <3>1. InventoriesOK' /\ WalkOK'
      BY <1>2, <1>3, <2>4, <2>5, <2>7 DEF InventoriesOK, WalkOK, Copied
    <3>2. AttrsOK' /\ AgainOK'
      BY <1>3, <1>8, <2>4, <2>5, <2>7
    <3>3. ReadOK' /\ ListedOK'
      BY <1>7, <2>1, <2>4, <2>5, <2>7
    <3> QED
      BY <3>1, <3>2, <3>3
  <2> QED
    BY <2>6, <2>7
<1>12. CASE Open
  <2>0. tool.pc = "objects" /\ (tool.op = "export" \/ tool.op = "inspect") /\ tool.object <= Len(Anchored.objects)
    BY <1>1, <1>12 DEF Open, SourceTypeOK
  <2>1. CASE Goto("end")
    <3>1. tool'.pc = "end" /\ tool'.op = tool.op /\ tool'.attrs = tool.attrs /\ tool'.again = tool.again
      BY <1>1, <2>1 DEF Goto, Tools
    <3> QED
      BY <1>6, <3>1
  <2>2. CASE /\ tool.op = "inspect" /\ tool' = [tool EXCEPT !.object = @ + 1, !.items = Append(@, FALSE)]
             /\ ~(Object.path \in DOMAIN files /\ Len(Here(Object.path).data) <= Len(Object.chunks))
    <3>1. PICK s \in Seq(Copies \cup BOOLEAN) : s = tool.items
      BY <1>1 DEF Tools
    <3>02. PICK c : c = FALSE
      OBVIOUS
    <3>03. c \in Copies \cup BOOLEAN
      BY <3>02
    <3>2. PICK u, o : u = Append(s, c) /\ o = Object
      OBVIOUS
    <3>3. Len(u) = Len(s) + 1 /\ u[Len(s) + 1] = c /\ \A i \in 1 .. Len(s) : u[i] = s[i]
      BY <3>03, <3>2, AppendIs
    <3>4. /\ tool'.pc = "objects" /\ tool'.items = u /\ tool'.op = "inspect" /\ tool'.attrs = tool.attrs
          /\ tool'.again = tool.again /\ tool'.before = tool.before
      BY <1>1, <2>0, <2>2, <3>1, <3>02, <3>2 DEF Tools
    <3>5. Len(s) = tool.object - 1 /\ \A i \in 1 .. Len(s) : Listed(Anchored.objects[i], s[i])
      BY <1>1, <2>0, <3>1 DEF ItemsOK, ListedOK
    <3>6. Listed(o, c)'
      <4>1. Len(o.sha256) <= Len(o.chunks)
        <5>1. tool.object \in DOMAIN Anchored.objects
          BY <1>1, <2>0, ObjectsAre DEF Tools
        <5> QED
          BY <3>2, <5>1, AnchoredAssumption DEF Object
      <4>2. ~(o.path \in DOMAIN files /\ Here(o.path).data = o.sha256)
        BY <2>2, <3>2, <4>1
      <4> QED
        BY <1>2, <3>02, <3>4, <4>2 DEF Listed, Here
    <3>7. ASSUME NEW i \in 1 .. Len(u) PROVE Listed(Anchored.objects[i], u[i])'
      <4>1. CASE i \in 1 .. Len(s)
        BY <1>5, <2>2, <3>3, <3>4, <3>5, <4>1
      <4>2. CASE i = Len(s) + 1
        <5>1. u[i] = c /\ i = tool.object /\ Anchored.objects[i] = o
          BY <1>3, <3>2, <3>3, <3>5, <4>2 DEF Object
        <5> QED
          BY <3>6, <5>1
      <4> QED
        BY <3>3, <4>1, <4>2
    <3>8. ListedOK' /\ ReadOK' /\ WalkOK' /\ InventoriesOK'
      BY <1>1, <1>2, <2>0, <2>2, <3>4, <3>7 DEF ListedOK, ReadOK, WalkOK, InventoriesOK
    <3> QED
      BY <1>8, <2>2, <3>4, <3>8
  <2>3. CASE /\ Object.path \in DOMAIN files
             /\ tool' = [tool EXCEPT !.pc = "read", !.fd = files[Object.path],
                           !.seen = [ver |-> Here(Object.path).ver, attr |-> Here(Object.path).attr], !.buf = <<>>]
    <3>1. /\ tool'.pc = "read" /\ tool'.fd = files[Object.path] /\ tool'.object = tool.object /\ tool'.op = tool.op
          /\ tool'.items = tool.items /\ tool'.attrs = tool.attrs /\ tool'.again = tool.again /\ tool'.before = tool.before
      BY <1>1, <2>3 DEF Tools
    <3>2. ReadOK' /\ WalkOK' /\ InventoriesOK'
      BY <1>1, <1>2, <2>0, <2>3, <3>1 DEF ReadOK, WalkOK, InventoriesOK, Object
    <3>3. ListedOK'
      BY <1>1, <1>5, <2>0, <3>1 DEF ListedOK
    <3> QED
      BY <1>8, <2>0, <3>1, <3>2, <3>3
  <2> QED
    BY <1>12, <2>0, <2>1, <2>2, <2>3 DEF Open
<1>13. CASE Read
  <2>1. PICK u : tool' = [tool EXCEPT !.buf = u] /\ tool.pc = "read"
    BY <1>13 DEF Read
  <2>2. /\ tool'.pc = "read" /\ tool'.fd = tool.fd /\ tool'.object = tool.object /\ tool'.op = tool.op
        /\ tool'.items = tool.items /\ tool'.attrs = tool.attrs /\ tool'.again = tool.again /\ tool'.before = tool.before
    BY <1>1, <2>1 DEF Tools
  <2>3. ReadOK' /\ WalkOK' /\ InventoriesOK'
    BY <1>1, <1>2, <2>1, <2>2 DEF ReadOK, WalkOK, InventoriesOK, Object
  <2>4. ListedOK'
    BY <1>1, <1>5, <2>1, <2>2 DEF ListedOK
  <2> QED
    BY <1>8, <2>1, <2>2, <2>3, <2>4
<1>14. CASE CloseFile
  <2>0. tool.pc = "read" /\ (tool.op = "export" \/ tool.op = "inspect") /\ tool.object <= Len(Anchored.objects)
    BY <1>1, <1>14 DEF CloseFile, SourceTypeOK, BufferOK
  <2>01. PICK s \in Seq(Copies \cup BOOLEAN) : s = tool.items
    BY <1>1 DEF Tools
  <2>1. PICK o : s = tool.items /\ o = Object
    BY <2>01
  <2>2. PICK r \in Inodes : r = inodes[tool.fd] /\ r.ver <= clock
    BY <1>1, <2>0 DEF SourceTypeOK, TreeOK, PastOK
  \* Nothing was disturbed, and the file was read whole.
  <2>3. Undisturbed /\ r = Here(o.path) /\ o.path \in DOMAIN files /\ tool.buf = r.data /\ tool.seen.attr = r.attr
    <3>1. tool.seen.ver <= r.ver /\ tool.seen.ver \in Nat /\ r.ver \in Nat /\ clock = 0
      BY <1>1, <2>0, <2>2 DEF BufferOK, SourceTypeOK, Stats, Inodes, Quiet
    <3>2. r.ver = tool.seen.ver
      BY <2>2, <3>1
    <3>3. PICK a \in Seq(Contents), d \in Seq(Contents) : a = tool.buf /\ d = r.data
      BY <1>1 DEF Inodes, Tools
    <3>4. Len(a) = Len(d) /\ (\A k \in 1 .. Len(a) : a[k] = d[k]) /\ tool.seen.attr = r.attr
      BY <1>1, <1>14, <2>0, <2>2, <3>2, <3>3 DEF CloseFile, BufferOK
    <3>5. a = d
      BY <3>3, <3>4
    <3> QED
      BY <1>1, <2>0, <2>1, <2>2, <3>2, <3>3, <3>4, <3>5 DEF ReadOK, Undisturbed, Here
  <2>4. PICK c : c = IF tool.op = "export" THEN [data |-> r.data, attr |-> r.attr]
                     ELSE (r.data = o.sha256 /\ r.attr = o.attributes)
    OBVIOUS
  <2>5. c \in Copies \cup BOOLEAN
    BY <2>4 DEF Copies, Inodes
  <2>6. PICK u : u = Append(s, c)
    OBVIOUS
  <2>7. Len(u) = Len(s) + 1 /\ u[Len(s) + 1] = c /\ (\A i \in 1 .. Len(s) : u[i] = s[i]) /\ Len(s) \in Nat
    BY <2>5, <2>6, AppendIs
  <2>8. /\ tool'.object = tool.object + 1 /\ tool'.items = u /\ tool'.op = tool.op /\ tool'.pc = "objects"
        /\ tool'.attrs = tool.attrs /\ tool'.again = tool.again /\ tool'.before = tool.before
    <3>1. CASE tool.op = "export"
      <4>1. c = [data |-> tool.buf, attr |-> tool.seen.attr]
        BY <2>3, <2>4, <3>1
      <4>2. tool' = [tool EXCEPT !.pc = "objects", !.object = tool.object + 1, !.items = u]
        BY <1>14, <2>1, <2>3, <2>6, <3>1, <4>1 DEF CloseFile
      <4> QED
        BY <1>1, <3>1, <4>2 DEF Tools
    <3>2. CASE tool.op # "export"
      <4>1. c = (Undisturbed /\ tool.buf = Object.sha256 /\ tool.seen.attr = Object.attributes)
        BY <2>1, <2>3, <2>4, <3>2
      <4>2. tool' = [tool EXCEPT !.pc = "objects", !.object = tool.object + 1, !.items = u]
        BY <1>14, <2>1, <2>6, <3>2, <4>1 DEF CloseFile
      <4> QED
        BY <1>1, <3>2, <4>2 DEF Tools
    <3> QED
      BY <3>1, <3>2
  <2>9. Len(s) = tool.object - 1 /\ \A i \in 1 .. Len(s) : Listed(Anchored.objects[i], s[i])
    BY <1>1, <2>0, <2>1 DEF ItemsOK, ListedOK
  <2>10. Listed(o, c)'
    <3>1. Here(o.path)' = Here(o.path) /\ files' = files
      BY <1>2 DEF Here
    <3>2. CASE tool.op = "export"
      BY <2>3, <2>4, <2>8, <3>1, <3>2 DEF Listed
    <3>3. CASE tool.op # "export"
      BY <2>3, <2>4, <2>8, <3>1, <3>3 DEF Listed
    <3> QED
      BY <3>2, <3>3
  <2>11. ASSUME NEW i \in 1 .. Len(u) PROVE Listed(Anchored.objects[i], u[i])'
    <3>1. CASE i \in 1 .. Len(s)
      BY <1>5, <2>7, <2>8, <2>9, <3>1
    <3>2. CASE i = Len(s) + 1
      BY <1>3, <2>1, <2>7, <2>9, <2>10, <3>2 DEF Object
    <3> QED
      BY <2>7, <3>1, <3>2
  <2>12. ListedOK' /\ ReadOK' /\ WalkOK' /\ InventoriesOK'
    BY <1>1, <1>2, <2>0, <2>8, <2>11 DEF ListedOK, ReadOK, WalkOK, InventoriesOK
  <2> QED
    BY <1>8, <2>0, <2>8, <2>12
<1>15. CASE Again
  <2>1. /\ tool.pc = "objects" /\ Copied /\ tool'.pc = "after" /\ tool'.op = tool.op /\ tool'.items = tool.items /\ tool'.object = tool.object
        /\ tool'.attrs = tool.attrs /\ tool'.again = tool.again /\ tool'.before = tool.before
    BY <1>1, <1>15 DEF Again, Goto, Tools, Copied
  <2>2. WalkOK'
    BY <1>1, <1>2, <1>15, NewWalkOK DEF Again, WalkOK
  <2>3. InventoriesOK'
    BY <1>1, <1>2, <2>1 DEF InventoriesOK, Copied
  <2> QED
    BY <1>7, <1>8, <2>1, <2>2, <2>3
<1>16. CASE EndAfter
  <2>1. Inventory = WholeTree /\ tool.pc = "after" /\ tool.before = WholeTree /\ Copied
    BY <1>1, <1>16, WalkDone DEF EndAfter, InventoriesOK
  <2>2. tool' = [tool EXCEPT !.after = Inventory, !.pc = "attributes"]
    BY <1>16, <2>1 DEF EndAfter
  <2>3. /\ tool'.pc = "attributes" /\ tool'.after = WholeTree /\ tool'.op = tool.op /\ tool'.items = tool.items
        /\ tool'.object = tool.object /\ tool'.attrs = tool.attrs /\ tool'.again = tool.again /\ tool'.before = tool.before
    BY <1>1, <2>1, <2>2 DEF Tools
  <2>4. WalkOK' /\ InventoriesOK'
    BY <1>1, <1>2, <2>1, <2>3 DEF WalkOK, InventoriesOK, Copied
  <2> QED
    BY <1>7, <1>8, <2>1, <2>3, <2>4
<1>17. CASE ReadAttributes
  <2>0. tool.pc = "attributes" /\ ~Copied /\ tool.before = WholeTree
    BY <1>1, <1>17 DEF ReadAttributes, InventoriesOK
  <2>1. CASE Goto("end")
    <3>1. tool'.pc = "end" /\ tool'.op = tool.op /\ tool'.attrs = tool.attrs /\ tool'.again = tool.again
      BY <1>1, <2>1 DEF Goto, Tools
    <3> QED
      BY <1>6, <3>1
  <2>2. CASE Wanted \ DOMAIN tool.attrs = {} /\ Goto("objects")
    <3>1. /\ tool'.pc = "objects" /\ tool'.op = tool.op /\ tool'.items = tool.items /\ tool'.object = tool.object
          /\ tool'.attrs = tool.attrs /\ tool'.again = tool.again /\ tool'.before = tool.before
      BY <1>1, <2>2 DEF Goto, Tools
    <3>2. WalkOK' /\ InventoriesOK'
      BY <1>1, <1>2, <2>0, <3>1 DEF WalkOK, InventoriesOK
    <3>3. AttrsOK'
      <4>1. tool.op # "inspect" => tool.op = "export"
        BY <1>1, <2>0 DEF SourceTypeOK
      <4>2. tool.op = "export" => DOMAIN dirs \subseteq DOMAIN tool.attrs
        BY <2>0, <2>2 DEF Wanted, WholeTree
      <4> QED
        BY <1>1, <1>2, <3>1, <4>1, <4>2 DEF AttrsOK
    <3>4. AgainOK'
      BY <1>1, <1>2, <3>1 DEF AgainOK, AnchoredAttributes
    <3> QED
      BY <1>7, <2>0, <3>1, <3>2, <3>3, <3>4
  <2>3. ASSUME NEW d \in DOMAIN dirs,
               tool' = [tool EXCEPT !.attrs = [e \in DOMAIN @ \cup {d} |-> IF e = d THEN dirs[d].attr ELSE @[e]]]
        PROVE  WalkOK' /\ InventoriesOK' /\ AttrsOK' /\ AgainOK' /\ ReadOK' /\ ListedOK'
    <3>1. PICK f : f = [e \in DOMAIN tool.attrs \cup {d} |-> IF e = d THEN dirs[d].attr ELSE tool.attrs[e]]
      OBVIOUS
    <3>2. /\ tool'.attrs = f /\ tool'.pc = "attributes" /\ tool'.op = tool.op /\ tool'.items = tool.items
          /\ tool'.object = tool.object /\ tool'.again = tool.again /\ tool'.before = tool.before
      BY <1>1, <2>0, <2>3, <3>1 DEF Tools
    <3>3. WalkOK' /\ InventoriesOK'
      BY <1>1, <1>2, <2>0, <3>2 DEF WalkOK, InventoriesOK, Copied
    <3>4. AttrsOK'
      BY <1>1, <1>2, <2>0, <3>1, <3>2 DEF AttrsOK, Copied
    <3>5. AgainOK'
      BY <1>1, <1>2, <3>2 DEF AgainOK, AnchoredAttributes
    <3> QED
      BY <1>7, <2>0, <3>2, <3>3, <3>4, <3>5
  <2> QED
    BY <1>17, <2>1, <2>2, <2>3, Zenon DEF ReadAttributes
<1>18. CASE CompareAttributes
  <2> DEFINE d == First(Wanted \ tool.again)
             same == d \in DOMAIN dirs /\ dirs[d].attr = Expected(d)
  <2>0. tool.pc = "attributes" /\ Copied /\ (tool.op = "export" \/ tool.op = "inspect") /\ Wanted # tool.again
    BY <1>1, <1>18 DEF CompareAttributes, SourceTypeOK
  <2>1. CASE same
    <3>1. tool' = [tool EXCEPT !.again = @ \cup {d}]
      BY <1>18, <2>1 DEF CompareAttributes
    <3>2. /\ tool'.attrs = tool.attrs /\ tool'.pc = "attributes" /\ tool'.op = tool.op /\ tool'.items = tool.items
          /\ tool'.object = tool.object /\ tool'.again = tool.again \cup {d} /\ tool'.before = tool.before /\ tool'.after = tool.after
      BY <1>1, <2>0, <3>1 DEF Tools
    <3>3. WalkOK' /\ InventoriesOK'
      BY <1>1, <1>2, <2>0, <3>2 DEF WalkOK, InventoriesOK, Copied
    <3>4. AttrsOK'
      BY <1>1, <1>2, <2>0, <3>2 DEF AttrsOK, Copied
    <3>5. AgainOK'
      <4> SUFFICES ASSUME tool.op = "inspect" PROVE AgainOK'
        BY <2>0, <3>2 DEF AgainOK
      <4>1. tool.again \subseteq Directories /\ Wanted = Directories
        BY <1>1 DEF AgainOK, Wanted
      <4>2. d \in Directories
        <5>1. Wanted \ tool.again \in SUBSET Paths /\ Wanted \ tool.again # {} /\ IsFiniteSet(Wanted \ tool.again)
          BY <2>0, <4>1, DirectoriesAre, FS_Subset
        <5> QED
          BY <4>1, <5>1, FirstIs
      <4>3. dirs[d].attr = AnchoredAttributes(d) /\ d \in DOMAIN dirs
        BY <2>1 DEF Expected
      <4>4. PICK e : e = d
        OBVIOUS
      <4>5. /\ tool'.again = tool.again \cup {e} /\ e \in Directories /\ dirs[e].attr = AnchoredAttributes(e) /\ e \in DOMAIN dirs
        BY <3>2, <4>2, <4>3, <4>4
      <4> HIDE DEF d
      <4>6. \A x \in tool'.again : x \in Directories /\ x \in DOMAIN dirs /\ dirs[x].attr = AnchoredAttributes(x)
        BY <1>1, <4>1, <4>5 DEF AgainOK
      <4> QED
        BY <1>2, <4>6 DEF AgainOK, AnchoredAttributes
    <3> QED
      BY <1>7, <2>0, <3>2, <3>3, <3>4, <3>5
  <2>2. CASE ~same
    <3>1. Goto("end")
      BY <1>18, <2>0, <2>2 DEF CompareAttributes
    <3>2. tool'.pc = "end" /\ tool'.op = tool.op /\ tool'.attrs = tool.attrs /\ tool'.again = tool.again
      BY <1>1, <3>1 DEF Goto, Tools
    <3> QED
      BY <1>6, <3>2
  <2> QED
    BY <2>1, <2>2
<1>19. CASE Publish \/ ReportInspection
  <2>1. tool'.pc = "end" /\ tool'.op = tool.op /\ tool'.attrs = tool.attrs /\ tool'.again = tool.again
    BY <1>1, <1>19 DEF Publish, ReportInspection, Goto, Tools
  <2> QED
    BY <1>6, <2>1
<1> QED
  BY <1>9, <1>10, <1>11, <1>12, <1>13, <1>14, <1>15, <1>16, <1>17, <1>18, <1>19 DEF ToolStep

\* No two objects of the manifest have one path.
LEMMA ObjectOnce ==
    ASSUME NEW i \in 1 .. Len(Anchored.objects), NEW k \in 1 .. Len(Anchored.objects),
           Anchored.objects[i].path = Anchored.objects[k].path
    PROVE  i = k
<1>1. PICK s : s = PathsOf(Anchored.objects)
  OBVIOUS
<1>2. s = [j \in 1 .. Len(Anchored.objects) |-> Anchored.objects[j].path]
  BY <1>1, ObjectsAre DEF PathsOf
<1>3. \A j \in 1 .. Len(Anchored.objects) : Anchored.objects[j].path \in Paths
  BY AnchoredAssumption, ObjectsAre DEF Files, PathSet, Paths
<1>4. s \in Seq(Paths) /\ Len(s) = Len(Anchored.objects)
  <2>1. PICK n \in Nat : n = Len(Anchored.objects)
    BY ObjectsAre
  <2>2. s \in [1 .. n -> Paths]
    BY <1>2, <1>3, <2>1
  <2> QED
    BY <2>1, <2>2
<1>5. Sorted(s)
  BY <1>1, AnchoredAssumption DEF ValidManifest
<1>6. s[i] = s[k] /\ i \in 1 .. Len(s) /\ k \in 1 .. Len(s)
  BY <1>2, <1>4
<1>7. ~(i < k) /\ ~(k < i)
  BY <1>4, <1>5, <1>6, ListedOnce
<1> QED
  BY <1>7, ObjectsAre

\* What an export publishes is the tree.
LEMMA QuietPublish == ASSUME OnceInv, QuietInv, Quiet, Publish PROVE QuietExact'
<1>1. /\ TreeOK /\ tool \in Tools /\ ItemsOK /\ InventoriesOK /\ AttrsOK /\ ListedOK
  BY DEF OnceInv, SourceTypeOK, QuietInv
<1>2. tool.op = "export" /\ tool.pc = "attributes" /\ Copied /\ UNCHANGED treeVars
  BY DEF Publish
<1>3. PICK fs : fs = [p \in Files |-> LET i == CHOOSE j \in DOMAIN Anchored.objects : Anchored.objects[j].path = p
                                      IN  tool.items[i]]
  OBVIOUS
<1>4. result'.op = "manifest" /\ result'.files = fs /\ result'.dirs = tool.attrs
  BY <1>3 DEF Publish
<1>5. DOMAIN files = Files
  BY <1>1, <1>2 DEF InventoriesOK
<1>6. ASSUME NEW p \in Files PROVE fs[p] = [data |-> Here(p).data, attr |-> Here(p).attr]
  <2>1. PICK i \in 1 .. Len(Anchored.objects) : Anchored.objects[i].path = p /\ fs[p] = tool.items[i]
    BY <1>3, ObjectAt
  <2>2. Len(tool.items) >= Len(Anchored.objects) /\ Len(tool.items) \in Nat
    BY <1>1, <1>2, ObjectsAre DEF ItemsOK, Copied, Tools
  <2>3. Listed(Anchored.objects[i], tool.items[i])
    BY <1>1, <1>2, <2>2, ObjectsAre DEF ListedOK
  <2> QED
    BY <1>2, <2>1, <2>3 DEF Listed
<1>7. fs = Now.files
  BY <1>3, <1>5, <1>6 DEF Now
<1>8. tool.attrs = Now.dirs
  <2>1. PICK S : tool.attrs \in [S -> Attributes]
    BY <1>1 DEF Tools
  <2>2. DOMAIN tool.attrs = DOMAIN dirs /\ \A d \in DOMAIN dirs : tool.attrs[d] = dirs[d].attr
    BY <1>1, <1>2 DEF AttrsOK
  <2> QED
    BY <2>1, <2>2 DEF Now
<1>9. Now' = Now /\ files' = files
  BY <1>2 DEF treeVars, Now, Here
<1>10. DOMAIN fs = DOMAIN files
  BY <1>3, <1>5
<1> QED
  BY <1>4, <1>7, <1>8, <1>9, <1>10 DEF QuietExact, ExportExact, InspectionExact

\* What an inspection reports is so.
LEMMA QuietReport == ASSUME OnceInv, QuietInv, Quiet, ReportInspection PROVE QuietExact'
<1>1. /\ TreeOK /\ tool \in Tools /\ ItemsOK /\ InventoriesOK /\ AgainOK /\ ListedOK
  BY DEF OnceInv, SourceTypeOK, QuietInv
<1>2. tool.op = "inspect" /\ tool.pc = "attributes" /\ Copied /\ UNCHANGED treeVars /\ tool.again = Directories
  BY DEF ReportInspection, Wanted
<1>3. result'.op = "report" /\ (result'.complete <=> Exact /\ \A i \in DOMAIN tool.items : tool.items[i])
  BY DEF ReportInspection
<1>4. PICK n \in Nat : n = Len(Anchored.objects) /\ Len(tool.items) = n /\ DOMAIN tool.items = 1 .. n
  <2>1. Len(tool.items) = Len(Anchored.objects) /\ DOMAIN tool.items = 1 .. Len(tool.items)
    BY <1>1, <1>2, ObjectsAre DEF ItemsOK, Copied, Tools
  <2> QED
    BY <2>1, ObjectsAre
<1>5. \A i \in 1 .. n : Listed(Anchored.objects[i], tool.items[i])
  BY <1>1, <1>2, <1>4 DEF ListedOK
<1>6. Exact <=> DOMAIN files = Files /\ DOMAIN dirs = Directories
  <2>1. tool.before = WholeTree /\ tool.after = WholeTree
    BY <1>1, <1>2 DEF InventoriesOK
  <2>2. WholeTree # None
    <3>1. WholeTree.op = "inventory" /\ None.op = "none"
      BY DEF WholeTree, None
    <3> QED
      BY <3>1
  <2>3. Exact <=> DOMAIN files = Files /\ DOMAIN dirs \ {<<>>} = Directories \ {<<>>}
    BY <2>1, <2>2 DEF Exact, WholeTree
  <2>4. <<>> \in DOMAIN dirs /\ <<>> \in Directories
    BY <1>1 DEF TreeOK, Directories
  <2> QED
    BY <2>3, <2>4
<1>7. PICK af, ad :
        /\ af = AnchoredTree.files /\ ad = AnchoredTree.dirs
        /\ AnchoredTree = [files |-> af, dirs |-> ad]
  BY DEF AnchoredTree
<1>8. /\ DOMAIN af = Files /\ af = [p \in Files |-> af[p]]
      /\ DOMAIN ad = Directories /\ ad = [d \in Directories |-> AnchoredAttributes(d)]
  BY <1>7 DEF AnchoredTree
<1>9. ASSUME NEW p \in Files
      PROVE  \E i \in 1 .. n : /\ Anchored.objects[i].path = p
                               /\ af[p] = [data |-> Anchored.objects[i].sha256, attr |-> Anchored.objects[i].attributes]
  BY <1>4, <1>7, ObjectAt DEF AnchoredTree
<1>10. PICK nf, nd :
         /\ Now = [files |-> nf, dirs |-> nd]
         /\ nf = [p \in DOMAIN files |-> [data |-> Here(p).data, attr |-> Here(p).attr]]
         /\ nd = [d \in DOMAIN dirs |-> dirs[d].attr]
  BY DEF Now
<1>11. Now = AnchoredTree <=> nf = af /\ nd = ad
  <2>1. Now.files = nf /\ Now.dirs = nd
    BY <1>10
  <2>2. Now = AnchoredTree => nf = af /\ nd = ad
    BY <1>7, <2>1, Zenon
  <2>3. nf = af /\ nd = ad => Now = AnchoredTree
    BY <1>7, <1>10, Zenon
  <2> QED
    BY <2>2, <2>3
<1>12. ASSUME Exact, \A i \in DOMAIN tool.items : tool.items[i] PROVE nf = af /\ nd = ad
  <2>1. DOMAIN files = Files /\ DOMAIN dirs = Directories
    BY <1>6, <1>12
  <2>2. ASSUME NEW p \in Files PROVE nf[p] = af[p]
    <3>1. PICK i \in 1 .. n : /\ Anchored.objects[i].path = p
                              /\ af[p] = [data |-> Anchored.objects[i].sha256, attr |-> Anchored.objects[i].attributes]
      BY <1>9
    <3>2. Here(p).data = Anchored.objects[i].sha256 /\ Here(p).attr = Anchored.objects[i].attributes
      BY <1>2, <1>4, <1>5, <1>12, <3>1 DEF Listed
    <3>3. nf[p] = [data |-> Here(p).data, attr |-> Here(p).attr]
      BY <1>10, <2>1
    <3> QED
      BY <3>1, <3>2, <3>3
  <2>3. nf = af
    BY <1>8, <1>10, <2>1, <2>2
  <2>4. \A d \in Directories : dirs[d].attr = AnchoredAttributes(d)
    BY <1>1, <1>2 DEF AgainOK
  <2>5. nd = ad
    BY <1>8, <1>10, <2>1, <2>4
  <2> QED
    BY <2>3, <2>5
<1>13. ASSUME nf = af, nd = ad PROVE Exact /\ \A i \in DOMAIN tool.items : tool.items[i]
  <2>1. DOMAIN files = Files /\ DOMAIN dirs = Directories
    BY <1>8, <1>10, <1>13
  <2>2. ASSUME NEW i \in 1 .. n PROVE tool.items[i]
    <3>1. PICK p \in Files : p = Anchored.objects[i].path
      BY <1>4, ObjectsAre DEF Files, PathSet
    <3>2. PICK k \in 1 .. n : /\ Anchored.objects[k].path = p
                              /\ af[p] = [data |-> Anchored.objects[k].sha256, attr |-> Anchored.objects[k].attributes]
      BY <1>9
    <3>3. k = i
      BY <1>4, <3>1, <3>2, ObjectOnce
    <3>4. af[p] = [data |-> Here(p).data, attr |-> Here(p).attr]
      BY <1>10, <1>13, <2>1
    <3>5. Here(p).data = Anchored.objects[i].sha256 /\ Here(p).attr = Anchored.objects[i].attributes
      BY <3>2, <3>3, <3>4
    <3> QED
      BY <1>2, <1>5, <2>1, <3>1, <3>5 DEF Listed
  <2> QED
    BY <1>4, <1>6, <2>1, <2>2
<1>14. Now' = Now /\ AnchoredTree' = AnchoredTree
  BY <1>2 DEF treeVars, Now, Here, AnchoredTree, AnchoredAttributes
<1>15. result'.complete <=> Now = AnchoredTree
  BY <1>3, <1>11, <1>12, <1>13
<1> QED
  BY <1>3, <1>14, <1>15 DEF QuietExact, ExportExact, InspectionExact

\* A directory that is not as anchored is not one of the anchored tree.
LEMMA QuietRefuses ==
    ASSUME OnceInv, QuietInv, QuietExact, Quiet, CompareAttributes PROVE QuietExact'
<1>1. /\ TreeOK /\ tool \in Tools /\ AgainOK /\ (tool.op = "export" \/ tool.op = "inspect") /\ UNCHANGED treeVars
      /\ Wanted # tool.again
  BY DEF OnceInv, SourceTypeOK, QuietInv, CompareAttributes
<1>2. Now' = Now /\ AnchoredTree' = AnchoredTree /\ files' = files /\ Quiet' = Quiet
  BY <1>1 DEF treeVars, Now, Here, AnchoredTree, AnchoredAttributes, Quiet
<1>3. CASE UNCHANGED result
  BY <1>2, <1>3 DEF QuietExact, ExportExact, InspectionExact
<1> DEFINE d == First(Wanted \ tool.again)
           same == d \in DOMAIN dirs /\ dirs[d].attr = Expected(d)
<1>4. CASE same \/ tool.op = "export"
  <2>1. UNCHANGED result
    BY <1>1, <1>4 DEF CompareAttributes
  <2> QED
    BY <1>3, <2>1
<1>5. CASE ~same /\ tool.op = "inspect"
  <2>1. result' = [op |-> "report", complete |-> FALSE]
    BY <1>5 DEF CompareAttributes
  <2>2. tool.again \subseteq Directories /\ Wanted = Directories
    BY <1>1, <1>5 DEF AgainOK, Wanted
  <2>3. d \in Directories
    <3>1. Wanted \ tool.again \in SUBSET Paths /\ Wanted \ tool.again # {} /\ IsFiniteSet(Wanted \ tool.again)
      BY <1>1, <2>2, DirectoriesAre, FS_Subset
    <3> QED
      BY <2>2, <3>1, FirstIs
  <2>4. ~(d \in DOMAIN dirs /\ dirs[d].attr = AnchoredAttributes(d))
    BY <1>5 DEF Expected
  <2>5. PICK e \in Directories : ~(e \in DOMAIN dirs /\ dirs[e].attr = AnchoredAttributes(e))
    BY <2>3, <2>4
  <2>6. Now.dirs # AnchoredTree.dirs
    <3>1. AnchoredTree.dirs = [x \in Directories |-> AnchoredAttributes(x)]
      BY DEF AnchoredTree
    <3>2. Now.dirs = [x \in DOMAIN dirs |-> dirs[x].attr]
      BY DEF Now
    <3> QED
      BY <2>5, <3>1, <3>2
  <2>7. Now # AnchoredTree
    BY <2>6
  <2>8. result'.op = "report" /\ result'.complete = FALSE
    BY <2>1
  <2> QED
    BY <1>2, <2>7, <2>8 DEF QuietExact, ExportExact, InspectionExact
<1> QED
  BY <1>1, <1>4, <1>5

\* With a quiet source an export publishes exactly the tree, and an inspection
\* reports completeness exactly when the tree is the anchored one.
THEOREM SourceQuietExact == SourceSpec => []QuietExact
<1>1. SourceInit => OnceInv /\ QuietInv /\ QuietExact
  <2>1. SourceInit => result.op = "none"
    BY DEF SourceInit, None
  <2> QED
    BY <2>1, OnceFirst, QuietFirst DEF QuietExact, ExportExact, InspectionExact
<1>2. OnceInv /\ QuietInv /\ QuietExact /\ [SourceNext]_sourceVars => (OnceInv /\ QuietInv /\ QuietExact)'
  <2> SUFFICES ASSUME OnceInv, QuietInv, QuietExact, [SourceNext]_sourceVars PROVE (QuietInv /\ QuietExact)'
    BY OnceKept
  <2>1. CASE Write
    <3>1. clock \in Nat /\ clock' = clock + 1
      BY <2>1, WriterMoves DEF OnceInv, SourceTypeOK, TreeOK
    <3>2. ~ Quiet'
      BY <3>1 DEF Quiet
    <3> QED
      BY <3>2 DEF QuietInv, QuietExact, ExportExact, InspectionExact
  <2>2. CASE ToolStep
    <3>1. UNCHANGED treeVars /\ Quiet' = Quiet
      BY <2>2, TreeLeftAlone DEF Quiet, treeVars
    <3>2. CASE ~ Quiet
      BY <3>1, <3>2 DEF QuietInv, QuietExact, ExportExact, InspectionExact
    <3>3. CASE Quiet /\ UNCHANGED result
      <4>1. Now' = Now /\ AnchoredTree' = AnchoredTree /\ files' = files
        BY <3>1 DEF treeVars, Now, Here, AnchoredTree, AnchoredAttributes
      <4> QED
        BY <2>2, <3>1, <3>3, <4>1, QuietTool DEF QuietExact, ExportExact, InspectionExact
    <3>4. CASE Quiet /\ (Publish \/ ReportInspection \/ CompareAttributes)
      BY <2>2, <3>4, QuietTool, QuietPublish, QuietReport, QuietRefuses
    <3>5. UNCHANGED result \/ Publish \/ ReportInspection \/ CompareAttributes
      BY <2>2 DEF ToolStep, Start, Visit, Leave, EndBefore, Open, Read, CloseFile, Again, EndAfter, ReadAttributes
    <3> QED
      BY <3>2, <3>3, <3>4, <3>5
  <2>3. CASE UNCHANGED sourceVars
    <3>1. /\ UNCHANGED <<files, dirs, inodes, clock, tool, walk, result>> /\ Now' = Now /\ AnchoredTree' = AnchoredTree
          /\ UNCHANGED <<WholeTree, treeVars>> /\ TreeClosed' = TreeClosed /\ FindsAll(walk)' = FindsAll(walk)
      BY <2>3 DEF sourceVars, treeVars, Now, Here, AnchoredTree, AnchoredAttributes, WholeTree, TreeClosed, Parent,
                  FindsAll, FrameOK, Children
    <3>2. QuietExact'
      BY <3>1 DEF QuietExact, ExportExact, InspectionExact, Quiet
    <3>3. QuietInv'
      BY <3>1 DEF QuietInv, Quiet, WalkOK, InventoriesOK, AttrsOK, AgainOK, ReadOK, ListedOK, Listed, Here, AnchoredAttributes, Copied, Object
    <3> QED
      BY <3>2, <3>3
  <2> QED
    BY <2>1, <2>2, <2>3 DEF SourceNext, ToolStep
<1> QED
  BY <1>1, <1>2, PTL DEF SourceSpec
=============================================================================
