------------------------------ MODULE EventStore ------------------------------
(***************************************************************************)
(* kit/db.Store: an append-only log of events, in memory and as JSON lines *)
(* in ./out/db.jsonl, from which the next process starts.                  *)
(*                                                                         *)
(* Append takes one mutex for memory and then another one for the file, so *)
(* it is two steps of its caller.  Whatever becomes of the write, Append   *)
(* returns nil.                                                            *)
(*                                                                         *)
(* The log is split into one sequence for each aggregate: a reader applies *)
(* a record to the entry of its aggregate only, and cannot tell how        *)
(* records of different aggregates are interleaved.                        *)
(***************************************************************************)
EXTENDS Naturals, Sequences

CONSTANTS
  Aggregates,       \* aggregate ids: payment ids and user ids
  Records,          \* what is appended
  MaxWriteFailures  \* bound: how many writes of the file may go wrong

ASSUME EventStoreAssumption == MaxWriteFailures \in Nat

VARIABLES
  streams,       \* Store.streams
  lines,         \* the lines of the file
  garbled,       \* a line of the file cannot be decoded
  fileOpen,      \* Store.f is not nil
  writeFailures  \* writes that went wrong so far

storeVars == <<streams, lines, garbled, fileOpen, writeFailures>>

StoreTypeOK ==
  /\ streams \in [Aggregates -> Seq(Records)]
  /\ lines \in [Aggregates -> Seq(Records)]
  /\ garbled \in BOOLEAN
  /\ fileOpen \in BOOLEAN
  /\ writeFailures \in 0 .. MaxWriteFailures

\* NewWithFile on a file that does not exist yet.
StoreInit ==
  /\ streams = [k \in Aggregates |-> <<>>]
  /\ lines = [k \in Aggregates |-> <<>>]
  /\ garbled = FALSE
  /\ fileOpen = TRUE
  /\ writeFailures = 0

\* The first half of Append.
AppendToMemory(k, rec) ==
  /\ streams' = [streams EXCEPT ![k] = Append(@, rec)]
  /\ UNCHANGED <<lines, garbled, fileOpen, writeFailures>>

\* Mutant: a write that has gone through is taken for a failed one and repeated.
AppendToFileTwice(k, rec) ==
  /\ fileOpen
  /\ lines' = [lines EXCEPT ![k] = Append(Append(@, rec), rec)]
  /\ UNCHANGED <<streams, garbled, fileOpen, writeFailures>>

\* The second half of Append, when the line is written.
AppendToFile(k, rec) ==
  /\ fileOpen
  /\ lines' = [lines EXCEPT ![k] = Append(@, rec)]
  /\ UNCHANGED <<streams, garbled, fileOpen, writeFailures>>

\* The second half of Append, when the write fails before (~torn) or after part
\* of the line is in the file.  The error is logged.
WriteFails(torn) ==
  /\ fileOpen
  /\ writeFailures < MaxWriteFailures
  /\ writeFailures' = writeFailures + 1
  /\ garbled' = (garbled \/ torn)
  /\ UNCHANGED <<streams, lines, fileOpen>>

\* The second half of Append, when the file is closed.
FileIsClosed ==
  /\ ~fileOpen
  /\ UNCHANGED storeVars

\* Close, deferred by main.
CloseStore ==
  /\ fileOpen
  /\ fileOpen' = FALSE
  /\ UNCHANGED <<streams, lines, garbled, writeFailures>>

\* Mutant: the records are replayed into the views only.
ReopenWithoutStreams ==
  /\ ~garbled
  /\ streams' = [k \in Aggregates |-> <<>>]
  /\ fileOpen' = TRUE
  /\ UNCHANGED <<lines, garbled, writeFailures>>

\* NewWithFile in the next process.  It refuses a file with a line that cannot
\* be decoded, and then main returns.
ReopenStore ==
  /\ ~garbled
  /\ streams' = lines
  /\ fileOpen' = TRUE
  /\ UNCHANGED <<lines, garbled, writeFailures>>

=============================================================================
