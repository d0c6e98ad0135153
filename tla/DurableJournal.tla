--------------------------- MODULE DurableJournal ---------------------------
(***************************************************************************)
(* The durable journal of one agent (reasoning/journal.rs): a counter in   *)
(* memory over a storage that survives the process.                        *)
(*                                                                         *)
(* An append takes a number and then stores the entry, which the storage   *)
(* may refuse; a compaction clears the storage and then resets the counter;*)
(* a restart reads the counter back from the storage.  Any number of tasks *)
(* share the journal.                                                      *)
(***************************************************************************)
EXTENDS Naturals, Sequences, FiniteSets, SequencesExt, FiniteSetsExt

CONSTANTS Writer,
          MaxEntries,   \* bound: appends in a run
          MaxCompacts,  \* bound: compactions
          MaxStarts     \* bound: restarts

VARIABLES
    entries,    \* the storage, in the order of the stores
    sequence,   \* the counter
    open,       \* the journal is initialized
    append,     \* the entry that each task is about to store
    compaction, \* "none", or "cleared" until the counter is reset
    epoch,      \* history: how often the counter was set
    taken, compacts, starts

memory == <<sequence, open, append, compaction>>
bounds == <<taken, compacts, starts>>

vars == <<entries, memory, epoch, bounds>>

NoEntry == [id |-> 0, sequence |-> 0, epoch |-> 0]

Init ==
    /\ entries = <<>>
    /\ sequence = 0 /\ open = TRUE
    /\ append = [w \in Writer |-> NoEntry]
    /\ compaction = "none"
    /\ epoch = 0
    /\ taken = 0 /\ compacts = 0 /\ starts = 0

\* Faulty variant: the number is read here and counted up by the store.
TakeUncounted(w) ==
    /\ open /\ append[w] = NoEntry
    /\ taken < MaxEntries /\ taken' = taken + 1
    /\ append' = [append EXCEPT ![w] = [id |-> taken + 1, epoch |-> epoch,
                                        sequence |-> sequence]]
    /\ sequence' = Cardinality({e \in ToSet(entries) : e.epoch = epoch})
    /\ UNCHANGED <<entries, open, compaction, epoch, compacts, starts>>

Take(w) ==
    /\ open /\ append[w] = NoEntry
    /\ taken < MaxEntries /\ taken' = taken + 1
    /\ append' = [append EXCEPT ![w] = [id |-> taken + 1, epoch |-> epoch,
                                        sequence |-> sequence]]
    /\ sequence' = sequence + 1
    /\ UNCHANGED <<entries, open, compaction, epoch, compacts, starts>>

Store(w) ==
    /\ append[w] # NoEntry
    /\ entries' \in {entries, Append(entries, append[w])}
    /\ append' = [append EXCEPT ![w] = NoEntry]
    /\ UNCHANGED <<sequence, open, compaction, epoch, bounds>>

Clear ==
    /\ open /\ compaction = "none"
    /\ compacts < MaxCompacts /\ compacts' = compacts + 1
    /\ entries' = <<>>
    /\ compaction' = "cleared"
    /\ UNCHANGED <<sequence, open, append, epoch, taken, starts>>

Reset ==
    /\ compaction = "cleared"
    /\ sequence' = 0 /\ epoch' = epoch + 1
    /\ compaction' = "none"
    /\ UNCHANGED <<entries, open, append, bounds>>

\* The process dies: what is about to be stored is lost.
Crash ==
    /\ open /\ starts < MaxStarts
    /\ open' = FALSE /\ sequence' = 0
    /\ append' = [w \in Writer |-> NoEntry] /\ compaction' = "none"
    /\ UNCHANGED <<entries, epoch, bounds>>

\* latest_sequence.
Latest == Max({0} \union {e.sequence : e \in ToSet(entries)})

\* The counter resumes at the latest number, not after it.
Initialize ==
    /\ ~open /\ starts' = starts + 1
    /\ sequence' = Latest /\ epoch' = epoch + 1
    /\ open' = TRUE
    /\ UNCHANGED <<entries, append, compaction, taken, compacts>>

Next ==
    \/ \E w \in Writer : Take(w) \/ Store(w)
    \/ Clear \/ Reset \/ Crash \/ Initialize

Spec == Init /\ [][Next]_vars

-----------------------------------------------------------------------------
(* Properties *)

\* Every variable has its type.
TypeOK ==
    /\ sequence \in Nat /\ open \in BOOLEAN
    /\ \A w \in Writer : append[w].id \in 0 .. taken
    /\ compaction \in {"none", "cleared"}
    /\ \A k \in 1 .. Len(entries) : entries[k].sequence \in Nat

\* Two entries have the same number only if the counter was set between them:
\* by a restart, which uses the latest number again, or by a compaction while
\* an append was under way.
NumbersAreDistinct ==
    /\ TypeOK
    /\ \A i, j \in 1 .. Len(entries) :
         entries[i].sequence = entries[j].sequence /\ i # j
         => entries[i].epoch # entries[j].epoch

=============================================================================
