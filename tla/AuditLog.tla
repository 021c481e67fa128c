------------------------------ MODULE AuditLog ------------------------------
(***************************************************************************)
(* AuditEngine: the client's audit log, one JSON line for each event, and  *)
(* in tamper-evident mode a chain of numbered, hashed and signed entries.  *)
(* The file outlives the engine: the process stops and starts again, and   *)
(* the file is all it finds.                                               *)
(*                                                                         *)
(* writeln! on an unbuffered file is two writes, the text and the newline. *)
(* Whatever is appended to an unterminated line becomes part of that line. *)
(* SHA-256 is taken to be injective: the hash of an entry is the sequence  *)
(* of all <<number, event>> it was computed from, the genesis hash <<>>.   *)
(***************************************************************************)
EXTENDS Naturals, Sequences, FiniteSets

CONSTANTS
  Events,       \* the events that are logged, each at most once
  ManyKeys,     \* those of them whose context has two keys or more
  Keys,         \* signing keys a configuration may name
  Unsigned,     \* no signing_key configured, or the signature of such an entry
  MaxLives,     \* bound: times the engine is created
  MaxLogFaults  \* bound: failed writes and crashes in the middle of a call

ASSUME LogAssumption ==
  /\ ManyKeys \subseteq Events /\ Unsigned \notin Keys
  /\ MaxLives \in Nat /\ MaxLogFaults \in Nat

VARIABLES
  lines,      \* the terminated lines of the file
  tail,       \* the line without a newline at its end, or NoLine
  tamper,     \* the running engine's tamper_evident, or "down"
  key,        \* its signing key
  counter,    \* entry_counter
  lastHash,   \* last_hash
  writing,    \* calls that wrote their text and not yet their newline
  logged,     \* history: events given to log_event
  acked,      \* history: those log_with_chain returned Ok for
  lives,      \* engines created so far
  logFaults   \* faults so far

logVars == <<lines, tail, tamper, key, counter, lastHash, writing, logged, acked, lives,
             logFaults>>
logFile == <<lines, tail>>
logBounds == <<lives, logFaults>>

Genesis == <<>>
LogEntry == [number : Nat \ {0}, previousHash : Seq(Nat \X Events), event : Events,
             signature : Keys \cup {Unsigned}]
\* A line serde_json does not parse as a LogEntry, and the absence of a line.
NotEntry == [number |-> 0]
NoLine == [number |-> 0, none |-> TRUE]

EntryHash(entry) == Append(entry.previousHash, <<entry.number, entry.event>>)
AllLines == IF tail = NoLine THEN lines ELSE Append(lines, tail)
Join(text) == IF tail = NoLine THEN text ELSE NotEntry

LogInit ==
  /\ lines = <<>> /\ tail = NoLine
  /\ tamper = "down" /\ key = Unsigned /\ counter = 0 /\ lastHash = Genesis
  /\ writing = {} /\ logged = {} /\ acked = {}
  /\ lives = 0 /\ logFaults = 0

LogFault == logFaults < MaxLogFaults /\ logFaults' = logFaults + 1

LastEntryNumber_First ==
  LET parsed == {i \in DOMAIN AllLines : AllLines[i].number > 0}
  IN IF parsed = {} THEN 0
     ELSE AllLines[CHOOSE i \in parsed : \A j \in parsed : i <= j].number

\* get_last_entry_number: of the last line that parses as an entry.
LastEntryNumber ==
  LET parsed == {i \in DOMAIN AllLines : AllLines[i].number > 0}
  IN IF parsed = {} THEN 0
     ELSE AllLines[CHOOSE i \in parsed : \A j \in parsed : j <= i].number

Open_Truncates(t, k) ==
  /\ tamper = "down" /\ lives < MaxLives
  /\ t = "chain" => k # Unsigned
  /\ tamper' = t /\ key' = k
  /\ lines' = <<>> /\ tail' = NoLine
  /\ counter' = 0 /\ lastHash' = Genesis
  /\ lives' = lives + 1
  /\ UNCHANGED <<writing, logged, acked, logFaults>>

\* AuditEngine::new; tamper-evident mode is refused without a key.
Open(t, k) ==
  /\ tamper = "down" /\ lives < MaxLives
  /\ t = "chain" => k # Unsigned
  /\ tamper' = t /\ key' = k
  /\ counter' = LastEntryNumber
  /\ lastHash' = Genesis
  /\ lives' = lives + 1
  /\ UNCHANGED <<logFile, writing, logged, acked, logFaults>>

\* The text of a line: written, or not or in part by a failed write.
Text(text, w) ==
  \/ tail' = Join(text) /\ writing' = writing \cup {w} /\ UNCHANGED logFaults
  \/ LogFault /\ tail' \in {tail, NotEntry} /\ UNCHANGED writing

\* log_with_chain up to the text of the line. The two mutexes are held to the
\* end of the call; a failed write returns before last_hash is updated.
LogWithChain(e) ==
  LET entry == [number |-> counter + 1, previousHash |-> lastHash, event |-> e,
                signature |-> key]
  IN /\ tamper = "chain" /\ writing = {} /\ e \notin logged
     /\ counter' = counter + 1
     /\ logged' = logged \cup {e}
     /\ Text(entry, entry)
     /\ UNCHANGED <<lines, tamper, key, lastHash, acked, lives>>

\* log_simple: no lock, and nothing the chain would recognise.
LogSimple(e) ==
  /\ tamper = "simple" /\ e \notin logged
  /\ logged' = logged \cup {e}
  /\ Text(NotEntry, [number |-> 0, event |-> e])
  /\ UNCHANGED <<lines, tamper, key, counter, lastHash, acked, lives>>

Newline_KeepsHash(w) ==
  /\ writing' = writing \ {w}
  /\ \/ /\ lines' = Append(lines, IF tail = NoLine THEN NotEntry ELSE tail)
        /\ tail' = NoLine
        /\ acked' = IF w.number > 0 THEN acked \cup {w.event} ELSE acked
        /\ UNCHANGED logFaults
     \/ LogFault /\ UNCHANGED <<logFile, acked>>
  /\ UNCHANGED <<tamper, key, counter, lastHash, logged, lives>>

\* The newline, and in log_with_chain the update of last_hash after it.
Newline(w) ==
  /\ writing' = writing \ {w}
  /\ \/ /\ lines' = Append(lines, IF tail = NoLine THEN NotEntry ELSE tail)
        /\ tail' = NoLine
        /\ IF w.number > 0 THEN lastHash' = EntryHash(w) /\ acked' = acked \cup {w.event}
           ELSE UNCHANGED <<lastHash, acked>>
        /\ UNCHANGED logFaults
     \/ LogFault /\ UNCHANGED <<logFile, lastHash, acked>>
  /\ UNCHANGED <<tamper, key, counter, logged, lives>>

\* The process ends: at rest, or in the middle of calls.
Stop ==
  /\ tamper # "down"
  /\ tamper' = "down" /\ writing' = {}
  /\ IF writing = {} THEN UNCHANGED logFaults ELSE LogFault
  /\ UNCHANGED <<logFile, key, counter, lastHash, logged, acked, lives>>

LogNext ==
  \/ \E t \in {"chain", "simple"}, k \in Keys \cup {Unsigned} : Open(t, k)
  \/ \E e \in Events : LogWithChain(e) \/ LogSimple(e)
  \/ \E w \in writing : Newline(w)
  \/ Stop

LogSpec == LogInit /\ [][LogNext]_logVars

-----------------------------------------------------------------------------
Entries == {i \in DOMAIN AllLines : AllLines[i].number > 0}

\* The entries whose context, a HashMap flattened into the event, a run of
\* verify_log_integrity writes in another order than log_with_chain did: any of
\* those with two keys or more, and other ones the next time.
Reorderings == SUBSET {i \in Entries : AllLines[i].event \in ManyKeys}

\* verify_log_integrity, by an engine whose signing key is k. The hash stored with
\* an entry is compared with one of the event read and written again.
VerifyLogIntegrity(k, reordered) ==
  \A i \in DOMAIN AllLines :
    LET entry == AllLines[i]
    IN /\ entry.number = i
       /\ entry.previousHash = IF i = 1 THEN Genesis ELSE EntryHash(AllLines[i - 1])
       /\ i \notin reordered
       /\ entry.signature = k \/ entry.signature = Unsigned \/ k = Unsigned

(* Type invariant. *)
LogTypeOK ==
  /\ \A i \in DOMAIN AllLines : AllLines[i] = NotEntry \/ AllLines[i] \in LogEntry
  /\ tamper \in {"down", "chain", "simple"} /\ key \in Keys \cup {Unsigned}
  /\ counter \in Nat /\ lastHash \in Seq(Nat \X Events)
  /\ acked \subseteq logged /\ logged \subseteq Events
  /\ lives \in 0..MaxLives /\ logFaults \in 0..MaxLogFaults

(* Entry numbers identify entries: in the whole file, over every restart, failed
   write and change of mode, the readable entries have increasing numbers, and a
   running engine is not behind any of them. get_last_entry_number takes the last
   readable line for the highest number, and this is why it may. *)
NumbersIncrease ==
  /\ \A i, j \in Entries : i < j => AllLines[i].number < AllLines[j].number
  /\ tamper # "down" => \A i \in Entries : AllLines[i].number <= counter

(* An entry log_with_chain returned Ok for is readable from the file, except that
   one failed write or crash can cost the one entry appended to what it left. *)
LostPerFault ==
  Cardinality({e \in acked : \A i \in Entries : AllLines[i].event # e}) <= logFaults

(* A log that one tamper-evident engine wrote, without a fault and with no call
   in progress, is reported as tampered with for one reason only: an entry with two
   context keys or more happens to be written in another order. So it always passes
   while no event has more than one. *)
UndisturbedVerifies ==
  lives = 1 /\ logFaults = 0 /\ tamper = "chain" /\ writing = {} =>
    \A reordered \in Reorderings : VerifyLogIntegrity(key, reordered) <=> reordered = {}

(* SECURITY.md:264-270: every entry contains the hash of the previous entry. *)
EntriesChained ==
  logFaults = 0 => \A i, j \in Entries : j = i + 1 => AllLines[j].previousHash = EntryHash(AllLines[i])

=============================================================================
