-------------------------- MODULE ReceiverReplay --------------------------
(***************************************************************************)
(* MC_Gate.Read_Previous as a process: the records of a log, any records,  *)
(* are fed to MC_Request_Replay.Consume one at a time from an empty state, *)
(* until one is refused.  Its names are told apart from those of the gate, *)
(* whose proofs rest on the same lemmas.                                   *)
(***************************************************************************)
EXTENDS RequestReplay

CONSTANTS
    Serials,     \* policy serials a record may carry
    MaxLength    \* bound on the length of a log

ASSUME SerialsAssumption == Serials \subseteq Nat
ASSUME MaxLengthAssumption == MaxLength \in Nat

VARIABLES entries, reader, answer

readerVars == <<entries, reader, answer>>

ReaderInit ==
    /\ entries = <<>>
    /\ reader = EmptyState
    /\ answer = "ok"

Take(e) ==
    /\ answer = "ok"
    /\ Len(entries) < MaxLength
    /\ entries' = Append(entries, e)
    /\ \/ Accepts(reader, e) /\ reader' = Consume(reader, e) /\ answer' = "ok"
       \/ ~Accepts(reader, e) /\ reader' = reader /\ answer' = "corrupt"

ReaderNext == \E e \in RecordsOver(Serials) : Take(e)

ReaderSpec == ReaderInit /\ [][ReaderNext]_readerVars
-----------------------------------------------------------------------------
\* The reader's state is one MC_Request_Replay.State can hold: its window is
\* a recorded request or the zero window.
ReaderTypeOK ==
    /\ entries \in Seq(Records)
    /\ answer \in {"ok", "corrupt"}
    /\ reader \in ReplayState

\* The state the loop arrives at is the one read off the last record, and
\* the loop stops exactly at the logs that do not replay.
LastRecordTellsAll ==
    /\ answer = "ok" => Replays(entries) /\ reader = Replayed(entries)
    /\ answer = "corrupt" => ~Replays(entries)

\* The window only moves forward, so a log that replays begins no request
\* twice, however far apart the two records are and whatever is between them.
BegunOnce == answer = "ok" => InOrder(entries)
=============================================================================
