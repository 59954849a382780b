---------------------------- MODULE CohortTrust ----------------------------
(***************************************************************************)
(* How the recovery tool comes to trust a manifest: find_manifest looks    *)
(* for a copy of the one the anchor names, authenticate checks it against  *)
(* the trust policy and the digest pinned outside, and counts signatures.  *)
(* Nothing is written before `verdict' is "accepted".                      *)
(*                                                                         *)
(* A signature is who really made it and over what; Ed25519 is taken to    *)
(* verify under a public key exactly when its owner signed these bytes.    *)
(***************************************************************************)
EXTENDS CohortManifest

CONSTANTS
    Manifests,      \* digest of a manifest file -> what its bytes decode to
    Requests,       \* what an invocation may be given, see RequestFields
    Unreadable      \* what reading a damaged or missing copy gives

\* What one invocation is given: the signed envelope, the trust policy, the
\* pinned digest, the time, and the digests of the manifest files it may read.
RequestFields == {"envelope", "trust", "pinned", "now", "explicit", "copies"}

ASSUME RequestsAssumption ==
    \A q \in Requests : /\ DOMAIN q = RequestFields
                        /\ q.copies # <<>> /\ Len(q.copies) \in Nat
                        /\ DOMAIN q.copies = 1 .. Len(q.copies)
                        /\ DOMAIN q.envelope.signatures = 1 .. Len(q.envelope.signatures)
ASSUME UnreadableAssumption == Unreadable \notin DOMAIN Manifests

VARIABLES
    request,    \* this invocation
    pc,         \* "find", "admit", "count", "end"
    at,         \* the replica, or the signature, looked at next
    manifest,   \* digest of the manifest found
    seen,       \* keys whose signature was counted
    domains,    \* their administrative domains
    roles,      \* their roles
    verdict     \* "none", "accepted", "refused", "incomplete"

vars == <<request, pc, at, manifest, seen, domains, roles, verdict>>

-----------------------------------------------------------------------------

anchor     == request.envelope.anchor
signatures == request.envelope.signatures
trust      == request.trust

\* The longest lifetime a policy may allow an anchor, in seconds.
Day == 86400

\* validate_trust: at least two signatures, no signing identity listed twice.
ValidTrust(t) ==
    /\ t.trust_epoch >= 1 /\ t.min_generation >= 1
    /\ t.threshold \in 2 .. 32
    /\ t.max_anchor_lifetime \in 1 .. Day
    /\ Len(t.keys) \in t.threshold .. 32
    /\ \A i, j \in DOMAIN t.keys :
         i # j => t.keys[i].id # t.keys[j].id /\ t.keys[i].public_key # t.keys[j].public_key

\* The checks authenticate makes of a manifest before it looks at a signature.
Admissible(digest) ==
    LET m == Manifests[digest].content IN
    /\ ValidTrust(trust)
    /\ ValidManifest(m) /\ Manifests[digest].canonical
    /\ anchor = request.pinned
    /\ anchor.node = trust.node /\ anchor.node = m.node
    /\ anchor.generation = m.generation
    /\ anchor.generation >= trust.min_generation
    /\ anchor.trust_epoch = trust.trust_epoch
    /\ anchor.trust_epoch = m.trust_epoch
    /\ anchor.issued <= request.now /\ request.now < anchor.expires
    /\ anchor.expires - anchor.issued <= trust.max_anchor_lifetime
    /\ anchor.manifest = digest
    /\ anchor.pending = m.pending
    /\ Len(signatures) \in trust.threshold .. 32

\* The registry entries of a key identity: one, under a valid policy.
Registered(id) == {i \in DOMAIN trust.keys : trust.keys[i].id = id}

\* The owner of public key k made this signature over the anchor.
Verifies(k, s) == s.by = k.public_key /\ s.over = anchor

\* Fault: two signatures of one domain count.
CountableAnyDomain(k, s) == s.key \notin seen /\ ~k.revoked /\ Verifies(k, s)

\* This signature counts under registry entry k.
Countable(k, s) ==
    /\ s.key \notin seen
    /\ ~k.revoked
    /\ k.domain \notin domains
    /\ Verifies(k, s)

-----------------------------------------------------------------------------

Init ==
    /\ request \in Requests
    /\ pc = "find"
    /\ at = 0
    /\ manifest = Unreadable
    /\ seen = {} /\ domains = {} /\ roles = {}
    /\ verdict = "none"

Decide(v) == verdict' = v /\ pc' = "end"

\* find_manifest: the explicit file first (at = 0), then each replica in turn,
\* until one has the digest the envelope names.  No trust is taken from that.
Copy == IF at = 0 THEN request.explicit ELSE request.copies[at]

TakeCopy ==
    /\ pc = "find" /\ at <= Len(request.copies)
    /\ Copy = anchor.manifest
    /\ manifest' = Copy
    /\ pc' = "admit"
    /\ UNCHANGED <<request, at, seen, domains, roles, verdict>>

\* Fault: a damaged copy ends the search.
PassOverStops ==
    /\ pc = "find" /\ at <= Len(request.copies)
    /\ Copy # anchor.manifest
    /\ IF Copy = Unreadable THEN Decide("incomplete") /\ UNCHANGED at
                            ELSE at' = at + 1 /\ UNCHANGED <<pc, verdict>>
    /\ UNCHANGED <<request, manifest, seen, domains, roles>>

PassOver ==
    /\ pc = "find" /\ at <= Len(request.copies)
    /\ Copy # anchor.manifest
    /\ at' = at + 1
    /\ UNCHANGED <<request, pc, manifest, seen, domains, roles, verdict>>

GiveUp ==
    /\ pc = "find" /\ at > Len(request.copies)
    /\ Decide("incomplete")
    /\ UNCHANGED <<request, at, manifest, seen, domains, roles>>

\* authenticate, down to the loop over the signatures.
Admit ==
    /\ pc = "admit"
    /\ IF Admissible(manifest) THEN pc' = "count" /\ at' = 1 /\ UNCHANGED verdict
                     ELSE Decide("refused") /\ UNCHANGED at
    /\ UNCHANGED <<request, manifest, seen, domains, roles>>

\* One turn of that loop: a signature that does not count refuses them all.
Count ==
    /\ pc = "count" /\ at <= Len(signatures)
    /\ LET s == signatures[at] IN
         \/ \E i \in Registered(s.key) :
              LET k == trust.keys[i] IN
                /\ Countable(k, s)
                /\ seen' = seen \cup {k.id}
                /\ domains' = domains \cup {k.domain}
                /\ roles' = roles \cup {k.role}
                /\ at' = at + 1
                /\ UNCHANGED <<pc, verdict>>
         \/ /\ \A i \in Registered(s.key) : ~Countable(trust.keys[i], s)
            /\ Decide("refused")
            /\ UNCHANGED <<at, seen, domains, roles>>
    /\ UNCHANGED <<request, manifest>>

Conclude ==
    /\ pc = "count" /\ at > Len(signatures)
    /\ Decide(IF roles = {"recovery", "witness"} THEN "accepted" ELSE "refused")
    /\ UNCHANGED <<request, at, manifest, seen, domains, roles>>

Next == TakeCopy \/ PassOver \/ GiveUp \/ Admit \/ Count \/ Conclude

Spec == Init /\ [][Next]_vars

-----------------------------------------------------------------------------

\* The loop's counters: at never leaves the lists, and only keys of the policy
\* are counted.
TypeOK ==
    /\ pc \in {"find", "admit", "count", "end"}
    /\ at \in Nat
    /\ manifest \in {Unreadable, anchor.manifest}
    /\ seen \subseteq {trust.keys[i].id : i \in DOMAIN trust.keys}
    /\ domains \subseteq {trust.keys[i].domain : i \in DOMAIN trust.keys}
    /\ roles \subseteq {trust.keys[i].role : i \in DOMAIN trust.keys}
    /\ verdict \in {"none", "accepted", "refused", "incomplete"}

\* A set of registry entries that stands for separate people of separate
\* domains, all unrevoked, who each signed this anchor.
Endorses(S) ==
    /\ \A i \in S : /\ ~trust.keys[i].revoked
                    /\ \E n \in DOMAIN signatures : Verifies(trust.keys[i], signatures[n])
    /\ \A i, j \in S : i # j =>
         /\ trust.keys[i].public_key # trust.keys[j].public_key
         /\ trust.keys[i].domain # trust.keys[j].domain

\* authenticate accepts only what at least `threshold' separate holders in as
\* many domains signed, whatever list of keys and signatures it is handed: no
\* holder is counted twice under an alias, a repeated signature or a shared
\* domain.
AcceptedByQuorum ==
    verdict = "accepted" =>
        \E S \in SUBSET DOMAIN trust.keys :
            /\ Endorses(S)
            /\ Cardinality(S) >= trust.threshold
            /\ {trust.keys[i].role : i \in S} = {"recovery", "witness"}

\* Signed by an acceptable set of holders, each of them once and nobody else.
WellSigned ==
    \E S \in SUBSET DOMAIN trust.keys :
        /\ Endorses(S)
        /\ {trust.keys[i].role : i \in S} = {"recovery", "witness"}
        /\ Cardinality(S) = Len(signatures)
        /\ \A n \in DOMAIN signatures : \E i \in S :
             trust.keys[i].id = signatures[n].key /\ Verifies(trust.keys[i], signatures[n])
        /\ \A i \in S : \E n \in DOMAIN signatures : trust.keys[i].id = signatures[n].key

\* A pinned anchor within its policy, well signed, whose manifest has one intact
\* copy left, is accepted: neither the order of the replicas, nor damaged or
\* stale copies in front of the intact one, nor the order of the signatures
\* keep find_manifest and authenticate from it.
GoodIsAccepted ==
    /\ pc = "end"
    /\ anchor.manifest \in {request.copies[i] : i \in DOMAIN request.copies} \cup {request.explicit}
    /\ Admissible(anchor.manifest)
    /\ WellSigned
    => verdict = "accepted"
=============================================================================
