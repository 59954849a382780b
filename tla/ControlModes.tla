--------------------------- MODULE ControlModes ---------------------------
(***************************************************************************)
(* The modes of the control latch, and who may change them (MC_Control).   *)
(*                                                                         *)
(* A latch state carries the hash of the state before it, so with a hash   *)
(* that has no collisions a state is the sequence of changes that led to   *)
(* it: its revision is the length of that sequence.                        *)
(***************************************************************************)
EXTENDS Integers, Sequences, FiniteSets

CONSTANTS
    Ids,                 \* request identities
    Signers,             \* provisioned keys of control-authorities.bin
    Duty,                \* the duty of each: "operations" or "security"
    Domain,              \* its administrative domain
    TightenThreshold,    \* signatures that any change needs
    ResumeThreshold      \* signatures that a relaxation needs

ASSUME AuthorityAssumption ==
    /\ IsFiniteSet(Signers)
    /\ Duty \in [Signers -> {"operations", "security"}]
    /\ TightenThreshold \in 1..Cardinality(Signers)
    /\ ResumeThreshold \in 2..Cardinality(Signers)

Modes == {"running", "held", "quarantined"}

\* Mode'Pos.
Rank == [running |-> 0, held |-> 1, quarantined |-> 2]

\* What a change leaves in the state: Last_Request, Trust_Epoch, Current.
Change == [id : Ids, epoch : Nat \ {0}, mode : Modes]

Last(latch) == latch[Len(latch)]

\* The first state is made by nobody's leave to run anything.
Relaxes(latch, c) == latch # <<>> /\ Rank[c.mode] < Rank[Last(latch).mode]

Enough(signers) == Cardinality(signers) >= TightenThreshold

\* Operations and security both, and from more than one domain.
Independent(signers) ==
    /\ Cardinality(signers) >= ResumeThreshold
    /\ {Duty[s] : s \in signers} = {"operations", "security"}
    /\ \E s, t \in signers : Domain[s] # Domain[t]

\* A change that may follow a latch state, whoever signed it.
Follows(latch, c) ==
    /\ latch = <<>> => c.mode = "quarantined"
    /\ latch # <<>> => c.epoch >= Last(latch).epoch
    /\ Relaxes(latch, c) => c.epoch > Last(latch).epoch
===========================================================================
