--------------------------- MODULE StorageProofs ----------------------------
(***************************************************************************)
(* What the client's files promise over restarts, failed writes and        *)
(* crashes: the audit log, the current model and its archive, and the      *)
(* checkpoints. They share nothing, and a section is about one of them.    *)
(***************************************************************************)
EXTENDS AuditLog, ModelStore, Checkpoints, FiniteSums, SequenceTheorems, TLAPS

(* The audit log: numbers, the chain of the first engine, and lost entries. *)

\* What a terminated line is: an entry, or something verify does not parse.
Line == LogEntry \cup {NotEntry}
\* A call between its two writes; log_simple has no number.
LogCall == LogEntry \cup [number : {0}, event : Events]

LogTypes ==
  /\ lines \in Seq(Line) /\ tail \in Line \cup {NoLine}
  /\ tamper \in {"down", "chain", "simple"} /\ key \in Keys \cup {Unsigned}
  /\ counter \in Nat /\ lastHash \in Seq(Nat \X Events)
  /\ writing \subseteq LogCall /\ {w.event : w \in writing} \subseteq logged
  /\ acked \subseteq logged /\ logged \subseteq Events
  /\ lives \in 0..MaxLives /\ logFaults \in 0..MaxLogFaults

\* The entries of the terminated lines increase, and so does one in the tail.
LinesIncrease ==
  \A i, j \in 1..Len(lines) : i < j /\ lines[j].number > 0 => lines[i].number < lines[j].number
TailAbove == tail.number > 0 => \A i \in 1..Len(lines) : lines[i].number < tail.number
CounterAbove ==
  tamper # "down" =>
    tail.number <= counter /\ \A i \in 1..Len(lines) : lines[i].number <= counter

\* A last line with an entry: get_last_entry_number finds it.
LastReadable ==
  \/ \A i \in 1..Len(lines) : lines[i].number = 0
  \/ \E i \in 1..Len(lines) :
       lines[i].number > 0 /\ \A j \in 1..Len(lines) : lines[j].number > 0 => j <= i

Order == LinesIncrease /\ TailAbove /\ CounterAbove /\ LastReadable
LogInv == LogTypes /\ Order

\* The first engine, in tamper-evident mode, before any fault.
Quiet == lives = 1 /\ logFaults = 0 /\ tamper = "chain"

\* The chain of the terminated lines, up to last_hash.
Chained ==
  /\ \A i \in 1..Len(lines) :
       /\ lines[i].number = i /\ lines[i].signature = key
       /\ lines[i].previousHash = IF i = 1 THEN Genesis ELSE EntryHash(lines[i - 1])
  /\ lastHash = IF Len(lines) = 0 THEN Genesis ELSE EntryHash(lines[Len(lines)])

\* The call in progress, if there is one, is about to terminate the next entry.
Pending ==
  \/ writing = {} /\ tail = NoLine /\ counter = Len(lines)
  \/ /\ writing = {tail} /\ counter = Len(lines) + 1
     /\ tail.number = counter /\ tail.previousHash = lastHash /\ tail.signature = key

ChainInv ==
  /\ tamper = "down" => writing = {}
  /\ lives = 0 => tamper = "down" /\ lines = <<>> /\ tail = NoLine
  /\ Quiet => Chained /\ Pending

\* log_with_chain holds its mutexes over both writes, log_simple numbers nothing.
CallsApart ==
  /\ tamper = "down" => writing = {}
  /\ tamper = "simple" => \A w \in writing : w.number = 0
  /\ \A w \in writing : w.number > 0 => writing = {w}

\* What was acknowledged and no terminated line says.
Readable == {lines[i].event : i \in {j \in 1..Len(lines) : lines[j].number > 0}}
Unread == acked \ Readable

\* An unterminated line that the next entry will be joined to, or was.
Debt ==
  \/ writing = {} /\ tail # NoLine
  \/ \E w \in writing : w.number > 0 /\ tail # w

\* Each fault leaves at most one such line, and each such line costs one entry.
Paid ==
  /\ IsFiniteSet(Unread)
  /\ Cardinality(Unread) + (IF Debt THEN 1 ELSE 0) <= logFaults

-----------------------------------------------------------------------------
(* A number is a natural number, 0 for what is not an entry. *)
LEMMA NumberType ==
  /\ \A x \in Line : x.number \in Nat
  /\ \A x \in LogEntry : x.number \in Nat \ {0}
  /\ NoLine.number = 0 /\ NotEntry.number = 0
<1>1. \A x \in LogEntry : x.number \in Nat \ {0}
  BY DEF LogEntry
<1>2. NoLine.number = 0 /\ NotEntry.number = 0
  BY DEF NoLine, NotEntry
<1> QED
  BY <1>1, <1>2 DEF Line

(* What the file looks like to whoever reads it line by line. *)
LEMMA AllLinesAre ==
  ASSUME LogTypes
  PROVE  /\ AllLines \in Seq(Line)
         /\ Len(AllLines) \in {Len(lines), Len(lines) + 1}
         /\ \A i \in 1..Len(lines) : AllLines[i] = lines[i]
         /\ Len(AllLines) = Len(lines) + 1 => AllLines[Len(lines) + 1] = tail
         /\ tail.number > 0 => Len(AllLines) = Len(lines) + 1
<1>1. CASE tail = NoLine
  BY <1>1, NumberType DEF AllLines, LogTypes
<1>2. CASE tail # NoLine
  <2>1. tail \in Line /\ lines \in Seq(Line) /\ AllLines = Append(lines, tail)
    BY <1>2 DEF AllLines, LogTypes
  <2> QED
    BY <2>1
<1> QED
  BY <1>1, <1>2

(* get_last_entry_number is no smaller than the number of any entry. *)
LEMMA LastIsHighest ==
  ASSUME LogTypes, LinesIncrease, TailAbove, LastReadable
  PROVE  /\ LastEntryNumber \in Nat
         /\ tail.number <= LastEntryNumber
         /\ \A i \in 1..Len(lines) : lines[i].number <= LastEntryNumber
<1> DEFINE parsed == {i \in DOMAIN AllLines : AllLines[i].number > 0}
<1> DEFINE n == Len(lines)
           all == Len(AllLines)
<1>1. n \in Nat /\ DOMAIN AllLines = 1..all /\ all \in {n, n + 1}
  BY AllLinesAre DEF LogTypes
<1>2. /\ \A i \in 1..n : AllLines[i] = lines[i] /\ lines[i].number \in Nat
      /\ tail.number \in Nat
  BY AllLinesAre, NumberType DEF LogTypes
<1>3. /\ all = n + 1 => AllLines[n + 1] = tail
      /\ tail.number > 0 => all = n + 1
  BY AllLinesAre
<1> HIDE DEF n, all
<1>4. /\ \A i \in 1..n : (i \in parsed <=> lines[i].number > 0)
      /\ n + 1 \in parsed <=> tail.number > 0
      /\ parsed \subseteq 1..(n + 1)
  <2>1. ASSUME NEW i \in 1..n PROVE i \in parsed <=> lines[i].number > 0
    BY <1>1, <1>2
  <2>2. n + 1 \in parsed <=> tail.number > 0
    BY <1>1, <1>3
  <2>3. parsed \subseteq 1..(n + 1)
    BY <1>1
  <2> QED
    BY <2>1, <2>2, <2>3
<1>5. CASE parsed = {}
  <2>1. LastEntryNumber = 0
    BY <1>5 DEF LastEntryNumber
  <2> QED
    BY <1>2, <1>4, <1>5, <2>1 DEF n
<1>6. CASE parsed # {}
  <2> HIDE DEF parsed
  <2> DEFINE last == CHOOSE i \in parsed : \A j \in parsed : j <= i
  <2>1. \E i \in parsed : \A j \in parsed : j <= i
    <3>1. CASE n + 1 \in parsed
      BY <1>1, <1>4, <3>1
    <3>2. CASE n + 1 \notin parsed
      <4>1. parsed \subseteq 1..n
        BY <1>1, <1>4, <3>2
      <4>2. \E i \in 1..n : lines[i].number > 0
        BY <1>4, <1>6, <4>1
      <4>3. \/ \A i \in 1..n : lines[i].number = 0
            \/ \E i \in 1..n :
                 lines[i].number > 0 /\ \A j \in 1..n : lines[j].number > 0 => j <= i
        BY DEF LastReadable, n
      <4>4. PICK i \in 1..n :
              lines[i].number > 0 /\ \A j \in 1..n : lines[j].number > 0 => j <= i
        BY <4>2, <4>3
      <4> QED
        BY <1>4, <4>1, <4>4
    <3> QED
      BY <3>1, <3>2
  <2>2. last \in parsed /\ \A j \in parsed : j <= last
    BY <2>1
  <2>3. LastEntryNumber = AllLines[last].number
    BY <1>6 DEF LastEntryNumber, parsed
  <2> HIDE DEF last
  <2>4. CASE last \in 1..n
    <3>1. AllLines[last] = lines[last] /\ lines[last].number > 0 /\ lines[last].number \in Nat
      BY <1>2, <1>4, <2>2, <2>4
    <3>2. n + 1 \notin parsed
      BY <1>1, <2>2, <2>4
    <3>3. tail.number = 0
      BY <1>2, <1>4, <3>2
    <3>4. ASSUME NEW i \in 1..n PROVE lines[i].number <= lines[last].number
      <4>1. lines[i].number > 0 => i <= last
        BY <1>4, <2>2
      <4> QED
        BY <1>1, <1>2, <2>4, <3>1, <4>1 DEF LinesIncrease, n
    <3> QED
      BY <1>2, <2>3, <3>1, <3>3, <3>4 DEF n
  <2>5. CASE last \notin 1..n
    <3>1. last = n + 1 /\ tail.number > 0
      BY <1>1, <1>4, <2>2, <2>5
    <3>2. AllLines[last] = tail
      BY <1>3, <3>1
    <3> QED
      BY <1>2, <2>3, <3>1, <3>2 DEF TailAbove, n
  <2> QED
    BY <2>4, <2>5
<1> QED
  BY <1>5, <1>6

(* A tail whose number, if it has one, is above every line keeps the order. *)
LEMMA TailOrder ==
  ASSUME LogTypes, Order, UNCHANGED lines,
         tail' \in {tail, NotEntry} \/ tail'.number = counter + 1,
         counter \in Nat, counter' \in {counter, counter + 1},
         tail'.number = counter + 1 => counter' = counter + 1,
         tamper # "down", tail'.number \in Nat
  PROVE  Order'
<1> DEFINE n == Len(lines)
<1>1. n \in Nat /\ \A i \in 1..n : lines[i].number \in Nat
  BY NumberType DEF LogTypes
<1>2. tail.number \in Nat /\ NotEntry.number = 0
  BY NumberType DEF LogTypes
<1>3. LinesIncrease' /\ LastReadable'
  BY DEF Order, LinesIncrease, LastReadable
<1> HIDE DEF n
<1>4. tail.number <= counter /\ \A i \in 1..n : lines[i].number <= counter
  BY DEF Order, CounterAbove, n
<1>5. tail.number > 0 => \A i \in 1..n : lines[i].number < tail.number
  BY DEF Order, TailAbove, n
<1>6. TailAbove'
  <2>1. tail'.number > 0 => \A i \in 1..n : lines[i].number < tail'.number
    BY <1>1, <1>2, <1>4, <1>5
  <2> QED
    BY <2>1 DEF TailAbove, n
<1>7. CounterAbove'
  <2>1. tail'.number <= counter' /\ \A i \in 1..n : lines[i].number <= counter'
    BY <1>1, <1>2, <1>4
  <2> QED
    BY <2>1 DEF CounterAbove, n
<1> QED
  BY <1>3, <1>6, <1>7 DEF Order

(* The newline makes the tail a line, or leaves a line that is not an entry. *)
LEMMA NewlineOrder ==
  ASSUME LogTypes, Order, NEW x \in Line, x = tail \/ x.number = 0,
         lines' = Append(lines, x), tail' = NoLine, UNCHANGED <<counter, tamper>>
  PROVE  Order'
<1> DEFINE n == Len(lines)
           new == lines'
<1>1. n \in Nat /\ \A i \in 1..n : lines[i].number \in Nat
  BY NumberType DEF LogTypes
<1>2. x.number \in Nat /\ tail.number \in Nat /\ counter \in Nat /\ NoLine.number = 0
  BY NumberType DEF LogTypes
<1>3. Len(new) = n + 1 /\ new[n + 1] = x /\ \A i \in 1..n : new[i] = lines[i]
  BY DEF LogTypes
<1>4. x.number > 0 => \A i \in 1..n : lines[i].number < x.number
  BY <1>2 DEF Order, TailAbove
<1>5. \A i, j \in 1..n : i < j /\ lines[j].number > 0 => lines[i].number < lines[j].number
  BY DEF Order, LinesIncrease
<1>6. tamper # "down" =>
        tail.number <= counter /\ \A i \in 1..n : lines[i].number <= counter
  BY DEF Order, CounterAbove
<1>7. \/ \A i \in 1..n : lines[i].number = 0
      \/ \E i \in 1..n :
           lines[i].number > 0 /\ \A j \in 1..n : lines[j].number > 0 => j <= i
  BY DEF Order, LastReadable
<1> HIDE DEF n, new
<1>8. LinesIncrease'
  <2>1. \A i, j \in 1..(n + 1) : i < j /\ new[j].number > 0 => new[i].number < new[j].number
    <3>1. ASSUME NEW i \in 1..n, NEW j \in 1..n, i < j, new[j].number > 0
          PROVE  new[i].number < new[j].number
      BY <1>3, <1>5, <3>1
    <3>2. ASSUME NEW i \in 1..n, x.number > 0 PROVE new[i].number < new[n + 1].number
      BY <1>3, <1>4, <3>2
    <3> QED
      BY <1>1, <1>3, <3>1, <3>2
  <2> QED
    BY <1>3, <2>1 DEF LinesIncrease, new
<1>9. TailAbove'
  BY <1>2 DEF TailAbove
<1>10. CounterAbove'
  <2>1. tamper # "down" => \A i \in 1..(n + 1) : new[i].number <= counter
    BY <1>1, <1>2, <1>3, <1>6
  <2> QED
    BY <1>2, <1>3, <2>1 DEF CounterAbove, new
<1>11. LastReadable'
  <2>1. \/ \A i \in 1..(n + 1) : new[i].number = 0
        \/ \E i \in 1..(n + 1) :
             new[i].number > 0 /\ \A j \in 1..(n + 1) : new[j].number > 0 => j <= i
    <3>1. CASE x.number > 0
      <4>1. n + 1 \in 1..(n + 1) /\ new[n + 1].number > 0
            /\ \A j \in 1..(n + 1) : j <= n + 1
        BY <1>1, <1>3, <3>1
      <4> QED
        BY <4>1
    <3>2. CASE x.number = 0
      <4>1. \A j \in 1..(n + 1) : new[j].number > 0 => j \in 1..n /\ lines[j].number > 0
        BY <1>1, <1>3, <3>2
      <4>2. CASE \A i \in 1..n : lines[i].number = 0
        BY <1>1, <1>2, <1>3, <3>2, <4>2
      <4>3. ASSUME NEW i \in 1..n, lines[i].number > 0,
                   \A j \in 1..n : lines[j].number > 0 => j <= i
            PROVE  /\ i \in 1..(n + 1) /\ new[i].number > 0
                   /\ \A j \in 1..(n + 1) : new[j].number > 0 => j <= i
        BY <1>1, <1>3, <4>1, <4>3
      <4> QED
        BY <1>7, <4>2, <4>3
    <3> QED
      BY <1>2, <3>1, <3>2
  <2> QED
    BY <1>3, <2>1 DEF LastReadable, new
<1> QED
  BY <1>8, <1>9, <1>10, <1>11 DEF Order

(* An empty file has no entries. *)
LEMMA LogInitInv == LogInit => LogInv
<1> SUFFICES ASSUME LogInit PROVE LogInv
  OBVIOUS
<1>1. lines \in Seq(Line) /\ Len(lines) = 0 /\ tail.number = 0
  BY NumberType DEF LogInit
<1>2. LogTypes
  BY <1>1, LogAssumption DEF LogInit, LogTypes, Genesis
<1>3. Order
  BY <1>1 DEF LogInit, Order, LinesIncrease, TailAbove, CounterAbove, LastReadable
<1> QED
  BY <1>2, <1>3 DEF LogInv

(* A new engine counts on from the last entry of the file. *)
LEMMA OpenInv ==
  ASSUME LogInv, NEW t \in {"chain", "simple"}, NEW k \in Keys \cup {Unsigned}, Open(t, k)
  PROVE  LogInv'
<1>1. LastEntryNumber \in Nat /\ tail.number <= LastEntryNumber
      /\ \A i \in 1..Len(lines) : lines[i].number <= LastEntryNumber
  BY LastIsHighest DEF LogInv, Order
<1>2. UNCHANGED <<lines, tail>> /\ counter' = LastEntryNumber
  BY DEF Open, logFile
<1>3. LogTypes'
  BY <1>1, LogAssumption DEF LogInv, LogTypes, Open, logFile, Genesis
<1>4. Order'
  BY <1>1, <1>2 DEF LogInv, Order, LinesIncrease, TailAbove, CounterAbove, LastReadable
<1> QED
  BY <1>3, <1>4 DEF LogInv

(* What the text of a line leaves in the tail. *)
LEMMA TextLeaves ==
  ASSUME LogTypes, NEW text \in Line, NEW w \in LogCall, Text(text, w)
  PROVE  /\ tail' \in {tail, NotEntry, text} /\ tail' \in Line \cup {NoLine}
         /\ writing' \in {writing, writing \cup {w}}
         /\ logFaults' \in 0..MaxLogFaults
<1>1. NotEntry \in Line
  BY DEF Line
<1>2. tail' \in {tail, NotEntry, text}
  BY DEF Text, Join
<1>3. tail' \in Line \cup {NoLine}
  BY <1>1, <1>2 DEF LogTypes
<1>4. writing' \in {writing, writing \cup {w}}
  BY DEF Text
<1>5. logFaults' \in 0..MaxLogFaults
  BY LogAssumption DEF Text, LogFault, LogTypes
<1> QED
  BY <1>2, <1>3, <1>4, <1>5

(* An entry gets a number above every entry of the file. *)
LEMMA LogWithChainInv ==
  ASSUME LogInv, NEW e \in Events, LogWithChain(e)
  PROVE  LogInv'
<1> DEFINE entry == [number |-> counter + 1, previousHash |-> lastHash, event |-> e,
                     signature |-> key]
<1>1. entry \in LogEntry /\ entry.number = counter + 1 /\ entry.event = e
  BY DEF LogInv, LogTypes, LogEntry
<1>2. /\ Text(entry, entry) /\ counter' = counter + 1 /\ tamper = "chain"
      /\ logged' = logged \cup {e}
      /\ UNCHANGED <<lines, tamper, key, lastHash, acked, lives>>
  BY DEF LogWithChain
<1> HIDE DEF entry
<1>3. entry \in Line /\ entry \in LogCall
  BY <1>1 DEF Line, LogCall
<1>4. /\ tail' \in {tail, NotEntry, entry} /\ tail' \in Line \cup {NoLine}
      /\ writing' \in {writing, writing \cup {entry}} /\ logFaults' \in 0..MaxLogFaults
  BY <1>2, <1>3, TextLeaves DEF LogInv
<1>5. writing' \subseteq LogCall /\ {w.event : w \in writing'} \subseteq logged'
  BY <1>1, <1>2, <1>3, <1>4 DEF LogInv, LogTypes
<1>6. LogTypes'
  BY <1>2, <1>4, <1>5 DEF LogInv, LogTypes
<1>7. tail'.number \in Nat
  BY <1>4, NumberType
<1>8. Order'
  BY <1>1, <1>2, <1>4, <1>7, TailOrder DEF LogInv, LogTypes
<1> QED
  BY <1>6, <1>8 DEF LogInv

(* A line of log_simple is not an entry. *)
LEMMA LogSimpleInv ==
  ASSUME LogInv, NEW e \in Events, LogSimple(e)
  PROVE  LogInv'
<1> DEFINE w == [number |-> 0, event |-> e]
<1>1. w \in LogCall /\ w.event = e /\ NotEntry \in Line
  BY DEF LogCall, Line
<1>2. /\ Text(NotEntry, w) /\ tamper = "simple" /\ logged' = logged \cup {e}
      /\ UNCHANGED <<lines, tamper, key, counter, lastHash, acked, lives>>
  BY DEF LogSimple
<1> HIDE DEF w
<1>3. /\ tail' \in {tail, NotEntry} /\ tail' \in Line \cup {NoLine}
      /\ writing' \in {writing, writing \cup {w}} /\ logFaults' \in 0..MaxLogFaults
  BY <1>1, <1>2, TextLeaves DEF LogInv
<1>4. writing' \subseteq LogCall /\ {v.event : v \in writing'} \subseteq logged'
  BY <1>1, <1>2, <1>3 DEF LogInv, LogTypes
<1>5. LogTypes'
  BY <1>2, <1>3, <1>4 DEF LogInv, LogTypes
<1>6. tail'.number \in Nat /\ tail.number <= counter /\ NotEntry.number = 0
  BY <1>2, <1>3, NumberType DEF LogInv, Order, CounterAbove
<1>7. tail'.number # counter + 1
  BY <1>3, <1>6, NumberType DEF LogInv, LogTypes
<1>8. Order'
  BY <1>2, <1>3, <1>6, <1>7, TailOrder DEF LogInv, LogTypes
<1> QED
  BY <1>5, <1>8 DEF LogInv

(* The newline changes the numbers of no line. *)
LEMMA NewlineInv ==
  ASSUME LogInv, NEW w \in writing, Newline(w)
  PROVE  LogInv'
<1>1. w \in LogCall /\ w.event \in logged /\ writing' \subseteq writing
      /\ UNCHANGED <<tamper, key, counter, logged, lives>>
  BY DEF LogInv, LogTypes, Newline
<1>2. {v.event : v \in writing'} \subseteq logged' /\ writing' \subseteq LogCall
  BY <1>1 DEF LogInv, LogTypes
<1>3. CASE LogFault /\ UNCHANGED <<logFile, lastHash, acked>>
  <2>1. logFaults' \in 0..MaxLogFaults
    BY <1>3, LogAssumption DEF LogFault, LogInv, LogTypes
  <2>2. LogTypes'
    BY <1>1, <1>2, <1>3, <2>1 DEF LogInv, LogTypes, logFile
  <2>3. Order'
    BY <1>1, <1>3
       DEF LogInv, Order, logFile, LinesIncrease, TailAbove, CounterAbove, LastReadable
  <2> QED
    BY <2>2, <2>3 DEF LogInv
<1>4. ASSUME NEW x, x = (IF tail = NoLine THEN NotEntry ELSE tail),
             lines' = Append(lines, x), tail' = NoLine, UNCHANGED logFaults,
             IF w.number > 0 THEN lastHash' = EntryHash(w) /\ acked' = acked \cup {w.event}
             ELSE UNCHANGED <<lastHash, acked>>
      PROVE  LogInv'
  <2>1. x \in Line /\ (x = tail \/ x.number = 0)
    BY <1>4, NumberType DEF LogInv, LogTypes, Line
  <2>2. Order'
    BY <1>1, <1>4, <2>1, NewlineOrder DEF LogInv
  <2>3. lines' \in Seq(Line)
    BY <1>4, <2>1 DEF LogInv, LogTypes
  <2>4. lastHash' \in Seq(Nat \X Events)
    <3>1. CASE w.number > 0
      <4>1. w \in LogEntry
        BY <1>1, <3>1 DEF LogCall
      <4>2. w.previousHash \in Seq(Nat \X Events) /\ <<w.number, w.event>> \in Nat \X Events
        BY <4>1 DEF LogEntry
      <4> DEFINE Pairs == Nat \X Events
                 pair == <<w.number, w.event>>
      <4> HIDE DEF Pairs, pair
      <4>3. w.previousHash \in Seq(Pairs) /\ pair \in Pairs
        BY <4>2 DEF Pairs, pair
      <4>4. Append(w.previousHash, pair) \in Seq(Pairs)
        BY <4>3
      <4> QED
        BY <1>4, <3>1, <4>4 DEF EntryHash, Pairs, pair
    <3>2. CASE ~(w.number > 0)
      BY <1>4, <3>2 DEF LogInv, LogTypes
    <3> QED
      BY <3>1, <3>2
  <2>5. acked' \subseteq logged'
    BY <1>1, <1>4 DEF LogInv, LogTypes
  <2>6. LogTypes'
    BY <1>1, <1>2, <1>4, <2>3, <2>4, <2>5 DEF LogInv, LogTypes
  <2> QED
    BY <2>2, <2>6 DEF LogInv
<1> QED
  BY <1>3, <1>4 DEF Newline

(* The file outlives the process. *)
LEMMA StopInv == LogInv /\ Stop => LogInv'
<1> SUFFICES ASSUME LogInv, Stop PROVE LogInv'
  OBVIOUS
<1>1. logFaults' \in 0..MaxLogFaults
  BY LogAssumption DEF Stop, LogFault, LogInv, LogTypes
<1>2. LogTypes'
  BY <1>1 DEF LogInv, LogTypes, Stop, logFile
<1>3. Order'
  BY DEF LogInv, Order, LinesIncrease, TailAbove, CounterAbove, LastReadable, Stop, logFile
<1> QED
  BY <1>2, <1>3 DEF LogInv

(* The invariant in every reachable state. *)
LEMMA LogAlwaysInv == LogSpec => []LogInv
<1>1. LogInv /\ [LogNext]_logVars => LogInv'
  <2> SUFFICES ASSUME LogInv, [LogNext]_logVars PROVE LogInv'
    OBVIOUS
  <2>1. CASE LogNext
    BY <2>1, OpenInv, LogWithChainInv, LogSimpleInv, NewlineInv, StopInv DEF LogNext
  <2>2. CASE UNCHANGED logVars
    BY <2>2 DEF logVars, LogInv, LogTypes, Order, LinesIncrease, TailAbove, CounterAbove,
                LastReadable
  <2> QED
    BY <2>1, <2>2
<1> QED
  BY LogInitInv, <1>1, PTL DEF LogSpec

(* The types of the log: every line is an entry or is not one, and only what was
   given to log_event was ever acknowledged. *)
THEOREM LogTypesHold == LogSpec => []LogTypeOK
<1>1. LogInv => LogTypeOK
  <2> SUFFICES ASSUME LogInv PROVE LogTypeOK
    OBVIOUS
  <2>1. ASSUME NEW i \in DOMAIN AllLines PROVE AllLines[i] = NotEntry \/ AllLines[i] \in LogEntry
    BY AllLinesAre DEF LogInv, Line
  <2> QED
    BY <2>1 DEF LogInv, LogTypes, LogTypeOK
<1> QED
  BY LogAlwaysInv, <1>1, PTL

(* Entry numbers identify entries over every restart, failed write and change of
   mode, and a running engine is not behind any of them. *)
THEOREM NumbersIncreaseHolds == LogSpec => []NumbersIncrease
<1>1. LogInv => NumbersIncrease
  <2> SUFFICES ASSUME LogInv PROVE NumbersIncrease
    OBVIOUS
  <2> DEFINE n == Len(lines)
             all == Len(AllLines)
  <2>1. /\ n \in Nat /\ DOMAIN AllLines = 1..all /\ all \in {n, n + 1}
        /\ \A i \in 1..n : AllLines[i] = lines[i] /\ lines[i].number \in Nat
        /\ all = n + 1 => AllLines[n + 1] = tail
        /\ tail.number \in Nat
    BY AllLinesAre, NumberType DEF LogInv, LogTypes
  <2>2. \A i, j \in 1..n : i < j /\ lines[j].number > 0 => lines[i].number < lines[j].number
    BY DEF LogInv, Order, LinesIncrease
  <2>3. tail.number > 0 => \A i \in 1..n : lines[i].number < tail.number
    BY DEF LogInv, Order, TailAbove
  <2>4. tamper # "down" =>
          tail.number <= counter /\ \A i \in 1..n : lines[i].number <= counter
    BY DEF LogInv, Order, CounterAbove
  <2> HIDE DEF n, all
  <2>5. Entries \subseteq 1..all /\ \A i \in Entries : AllLines[i].number > 0
    BY <2>1 DEF Entries
  <2>6. ASSUME NEW i \in Entries, NEW j \in Entries, i < j
        PROVE  AllLines[i].number < AllLines[j].number
    <3>1. i \in 1..n
      BY <2>1, <2>5, <2>6
    <3>2. CASE j \in 1..n
      BY <2>1, <2>2, <2>5, <2>6, <3>1, <3>2
    <3>3. CASE j = n + 1
      BY <2>1, <2>3, <2>5, <2>6, <3>1, <3>3
    <3> QED
      BY <2>1, <2>5, <3>2, <3>3
  <2>7. ASSUME tamper # "down", NEW i \in Entries PROVE AllLines[i].number <= counter
    BY <2>1, <2>4, <2>5, <2>7
  <2> QED
    BY <2>6, <2>7 DEF NumbersIncrease
<1> QED
  BY LogAlwaysInv, <1>1, PTL

-----------------------------------------------------------------------------
(* The first engine finds an empty file, and a later one is not the first. *)
LEMMA OpenChain ==
  ASSUME LogInv, ChainInv, NEW t \in {"chain", "simple"}, NEW k \in Keys \cup {Unsigned},
         Open(t, k)
  PROVE  ChainInv'
<1>1. /\ lives' = lives + 1 /\ tamper' \in {"chain", "simple"} /\ lives \in Nat
      /\ tamper = "down" /\ lastHash' = Genesis /\ counter' = LastEntryNumber
      /\ UNCHANGED <<lines, tail, writing>>
  BY DEF Open, LogInv, LogTypes, logFile
<1>2. CASE lives = 0
  <2>1. lines = <<>> /\ tail = NoLine /\ writing = {} /\ Len(lines) = 0
    BY <1>1, <1>2 DEF ChainInv
  <2>2. AllLines = <<>>
    BY <2>1 DEF AllLines
  <2>3. {i \in DOMAIN AllLines : AllLines[i].number > 0} = {}
    BY <2>2
  <2>4. LastEntryNumber = 0
    BY <2>3 DEF LastEntryNumber
  <2>5. Chained'
    BY <1>1, <2>1 DEF Chained
  <2>6. Pending'
    BY <1>1, <2>1, <2>4 DEF Pending
  <2> QED
    BY <1>1, <1>2, <2>5, <2>6 DEF ChainInv
<1>3. CASE lives # 0
  <2>1. lives' # 1 /\ lives' # 0
    BY <1>1, <1>3
  <2>2. ~Quiet' /\ tamper' # "down"
    BY <1>1, <2>1 DEF Quiet
  <2> QED
    BY <2>1, <2>2 DEF ChainInv
<1> QED
  BY <1>2, <1>3

(* The text of the next entry, with last_hash as its previous hash. *)
LEMMA LogWithChainChain ==
  ASSUME LogInv, ChainInv, NEW e \in Events, LogWithChain(e)
  PROVE  ChainInv'
<1> DEFINE entry == [number |-> counter + 1, previousHash |-> lastHash, event |-> e,
                     signature |-> key]
<1>1. entry.number = counter + 1 /\ entry.previousHash = lastHash /\ entry.signature = key
  OBVIOUS
<1>2. /\ Text(entry, entry) /\ counter' = counter + 1 /\ tamper = "chain" /\ writing = {}
      /\ UNCHANGED <<lines, tamper, key, lastHash, lives>>
  BY DEF LogWithChain
<1> HIDE DEF entry
<1>3. logFaults \in Nat /\ counter \in Nat /\ Len(lines) \in Nat /\ lives # 0
  BY <1>2 DEF LogInv, LogTypes, ChainInv
<1>4. ASSUME Quiet' PROVE Chained' /\ Pending'
  <2>1. Quiet /\ ~LogFault
    BY <1>2, <1>3, <1>4 DEF Quiet, LogFault, Text
  <2>2. tail = NoLine /\ counter = Len(lines) /\ Chained
    BY <1>2, <2>1 DEF ChainInv, Pending
  <2>3. tail' = entry /\ writing' = {entry}
    BY <1>2, <2>1, <2>2 DEF Text, Join
  <2>4. Chained'
    BY <1>2, <2>2 DEF Chained
  <2>5. Pending'
    BY <1>1, <1>2, <1>3, <2>2, <2>3 DEF Pending
  <2> QED
    BY <2>4, <2>5
<1> QED
  BY <1>2, <1>3, <1>4 DEF ChainInv

(* The newline terminates the entry, and last_hash becomes its hash. *)
LEMMA NewlineChain ==
  ASSUME LogInv, ChainInv, NEW w \in writing, Newline(w)
  PROVE  ChainInv'
<1>1. UNCHANGED <<tamper, key, counter, lives>> /\ writing' = writing \ {w}
  BY DEF Newline
<1>2. tamper # "down" /\ lives # 0
  BY DEF ChainInv
<1>3. ASSUME Quiet' PROVE Chained' /\ Pending'
  <2> DEFINE n == Len(lines)
             new == lines'
  <2>1. Quiet /\ ~LogFault
    BY <1>1, <1>3 DEF Quiet, LogFault, LogInv, LogTypes, Newline
  <2>2. Chained /\ writing = {tail} /\ counter = n + 1 /\ tail.number = counter
        /\ tail.previousHash = lastHash /\ tail.signature = key
    BY <2>1 DEF ChainInv, Pending
  <2>3. n \in Nat /\ w = tail /\ w.number > 0 /\ tail # NoLine /\ tail \in Line
    BY <2>2, NumberType DEF LogInv, LogTypes
  <2>4. lines' = Append(lines, tail) /\ tail' = NoLine /\ lastHash' = EntryHash(tail)
    BY <2>1, <2>3 DEF Newline
  <2>5. Len(new) = n + 1 /\ new[n + 1] = tail /\ \A i \in 1..n : new[i] = lines[i]
    BY <2>3, <2>4 DEF LogInv, LogTypes
  <2>6. /\ \A i \in 1..n :
             /\ lines[i].number = i /\ lines[i].signature = key
             /\ lines[i].previousHash = IF i = 1 THEN Genesis ELSE EntryHash(lines[i - 1])
        /\ lastHash = IF n = 0 THEN Genesis ELSE EntryHash(lines[n])
    BY <2>2 DEF Chained
  <2>7. writing' = {}
    BY <1>1, <2>2, <2>3
  <2> HIDE DEF n, new
  <2>8. ASSUME NEW i \in 1..(n + 1)
        PROVE  /\ new[i].number = i /\ new[i].signature = key
               /\ new[i].previousHash = IF i = 1 THEN Genesis ELSE EntryHash(new[i - 1])
    <3>1. CASE i \in 1..n
      <4>1. i # 1 => i - 1 \in 1..n
        BY <2>3, <3>1
      <4> QED
        BY <2>5, <2>6, <3>1, <4>1
    <3>2. CASE i = n + 1
      <4>1. n = 0 \/ (n \in 1..n /\ i # 1 /\ i - 1 = n)
        BY <2>3, <3>2
      <4> QED
        BY <2>2, <2>5, <2>6, <3>2, <4>1
    <3> QED
      BY <2>3, <3>1, <3>2
  <2>9. Chained'
    BY <1>1, <2>3, <2>4, <2>5, <2>8 DEF Chained, new
  <2>10. Pending'
    BY <1>1, <2>2, <2>4, <2>5, <2>7 DEF Pending, new
  <2> QED
    BY <2>9, <2>10
<1> QED
  BY <1>1, <1>2, <1>3 DEF ChainInv

(* The chain of the first engine in every reachable state. *)
LEMMA ChainAlways == LogSpec => [](LogInv /\ ChainInv)
<1>1. LogInit => ChainInv
  BY DEF LogInit, ChainInv, Quiet
<1>2. LogInv /\ ChainInv /\ [LogNext]_logVars => ChainInv'
  <2> SUFFICES ASSUME LogInv, ChainInv, [LogNext]_logVars PROVE ChainInv'
    OBVIOUS
  <2>1. ASSUME NEW e \in Events, LogSimple(e) PROVE ChainInv'
    BY <2>1 DEF LogSimple, ChainInv, Quiet
  <2>2. CASE Stop
    BY <2>2 DEF Stop, ChainInv, Quiet
  <2>3. CASE UNCHANGED logVars
    BY <2>3 DEF logVars, ChainInv, Quiet, Chained, Pending
  <2> QED
    BY <2>1, <2>2, <2>3, OpenChain, LogWithChainChain, NewlineChain DEF LogNext
<1> QED
  BY LogAlwaysInv, <1>1, <1>2, PTL DEF LogSpec

(* A log that one tamper-evident engine wrote, without a fault and with no call in
   progress, passes verify_log_integrity exactly when the contexts of all its entries
   come back in the order they were hashed in: the chain itself is never at fault. *)
THEOREM UndisturbedVerifiesHolds == LogSpec => []UndisturbedVerifies
<1>1. LogInv /\ ChainInv => UndisturbedVerifies
  <2> SUFFICES ASSUME LogInv, ChainInv, Quiet, writing = {}, NEW reordered \in Reorderings
               PROVE  VerifyLogIntegrity(key, reordered) <=> reordered = {}
    BY DEF UndisturbedVerifies, Quiet
  <2>1. Chained /\ tail = NoLine
    BY DEF ChainInv, Pending
  <2>2. AllLines = lines /\ DOMAIN lines = 1..Len(lines)
    BY <2>1 DEF AllLines, LogInv, LogTypes
  <2>3. reordered \subseteq DOMAIN AllLines
    BY DEF Reorderings, Entries
  <2>4. VerifyLogIntegrity(key, {})
    BY <2>1, <2>2 DEF Chained, VerifyLogIntegrity
  <2> QED
    BY <2>3, <2>4 DEF VerifyLogIntegrity
<1> QED
  BY ChainAlways, <1>1, PTL

-----------------------------------------------------------------------------
(* One entry more or less goes missing. *)
LEMMA MissingGrows ==
  ASSUME NEW S, NEW T, IsFiniteSet(S), NEW e, T \subseteq S \cup {e}
  PROVE  /\ IsFiniteSet(T) /\ Cardinality(T) \in Nat /\ Cardinality(S) \in Nat
         /\ Cardinality(T) <= Cardinality(S) + 1
         /\ T \subseteq S => Cardinality(T) <= Cardinality(S)
<1>1. /\ IsFiniteSet(S \cup {e}) /\ Cardinality(S \cup {e}) <= Cardinality(S) + 1
      /\ Cardinality(S) \in Nat /\ Cardinality(S \cup {e}) \in Nat
  BY FS_AddElement, FS_CardinalityType
<1>2. IsFiniteSet(T) /\ Cardinality(T) <= Cardinality(S \cup {e}) /\ Cardinality(T) \in Nat
  BY <1>1, FS_Subset, FS_CardinalityType
<1>3. T \subseteq S => Cardinality(T) <= Cardinality(S)
  BY FS_Subset
<1> QED
  BY <1>1, <1>2, <1>3

(* A call that is numbered is alone. *)
LEMMA CallsStep ==
  ASSUME LogInv, CallsApart, [LogNext]_logVars
  PROVE  CallsApart'
<1>1. ASSUME NEW t \in {"chain", "simple"}, NEW k \in Keys \cup {Unsigned}, Open(t, k)
      PROVE  CallsApart'
  BY <1>1 DEF Open, CallsApart
<1>2. ASSUME NEW e \in Events, LogWithChain(e) PROVE CallsApart'
  BY <1>2 DEF LogWithChain, Text, CallsApart
<1>3. ASSUME NEW e \in Events, LogSimple(e) PROVE CallsApart'
  <2>1. /\ tamper = "simple" /\ tamper' = tamper
        /\ writing' \subseteq writing \cup {[number |-> 0, event |-> e]}
    BY <1>3 DEF LogSimple, Text
  <2>2. \A w \in writing' : w.number = 0
    BY <2>1 DEF CallsApart
  <2> QED
    BY <2>1, <2>2 DEF CallsApart
<1>4. ASSUME NEW w \in writing, Newline(w) PROVE CallsApart'
  <2>1. tamper' = tamper /\ writing' = writing \ {w}
    BY <1>4 DEF Newline
  <2>2. \A v \in writing' : ~(v.number > 0)
    <3>1. ASSUME NEW v \in writing', v.number > 0 PROVE FALSE
      BY <2>1, <3>1 DEF CallsApart
    <3> QED
      BY <3>1
  <2> QED
    BY <2>1, <2>2 DEF CallsApart
<1>5. CASE Stop
  BY <1>5 DEF Stop, CallsApart
<1>6. CASE UNCHANGED logVars
  BY <1>6 DEF logVars, CallsApart
<1> QED
  BY <1>1, <1>2, <1>3, <1>4, <1>5, <1>6 DEF LogNext

(* A step that costs a fault pays for the line it may leave. *)
LEMMA FaultPays ==
  ASSUME LogInv, Paid, UNCHANGED <<lines, acked>>, LogFault
  PROVE  Paid'
<1>1. Unread' = Unread /\ logFaults' = logFaults + 1 /\ logFaults \in Nat
  BY DEF Unread, Readable, LogFault, LogInv, LogTypes
<1>2. Cardinality(Unread) \in Nat
  BY FS_CardinalityType DEF Paid
<1> QED
  BY <1>1, <1>2 DEF Paid

(* A step that leaves the lines and the acknowledged entries leaves no new debt. *)
LEMMA NoNewDebt ==
  ASSUME LogInv, Paid, UNCHANGED <<lines, acked, logFaults>>, Debt' => Debt
  PROVE  Paid'
<1>1. Unread' = Unread /\ logFaults \in Nat
  BY DEF Unread, Readable, LogInv, LogTypes
<1>2. Cardinality(Unread) \in Nat
  BY FS_CardinalityType DEF Paid
<1> QED
  BY <1>1, <1>2 DEF Paid

(* The newline: an entry that stood alone on its line is readable. *)
LEMMA NewlinePaid ==
  ASSUME LogInv, CallsApart, Paid, NEW w \in writing, Newline(w), ~LogFault
  PROVE  Paid'
<1> DEFINE last == IF tail = NoLine THEN NotEntry ELSE tail
<1>1. /\ lines' = Append(lines, last) /\ tail' = NoLine /\ UNCHANGED logFaults
      /\ writing' = writing \ {w}
      /\ acked' = IF w.number > 0 THEN acked \cup {w.event} ELSE acked
  BY DEF Newline
<1>2. /\ Len(lines) \in Nat /\ Len(lines') = Len(lines) + 1
      /\ \A i \in 1..Len(lines) : lines'[i] = lines[i]
      /\ lines'[Len(lines) + 1] = last
      /\ logFaults \in Nat
  <2>1. lines \in Seq(Line) /\ last \in Line /\ logFaults \in Nat
    BY DEF LogInv, LogTypes, Line
  <2> HIDE DEF last
  <2> QED
    BY <1>1, <2>1
<1>3. Readable \subseteq Readable' /\ (last.number > 0 => last.event \in Readable')
  <2> HIDE DEF last
  <2>1. ASSUME NEW i \in 1..Len(lines), lines[i].number > 0 PROVE lines[i].event \in Readable'
    <3>1. i \in 1..Len(lines') /\ lines'[i] = lines[i]
      BY <1>2
    <3> QED
      BY <2>1, <3>1 DEF Readable
  <2>2. ASSUME last.number > 0 PROVE last.event \in Readable'
    <3>1. Len(lines) + 1 \in 1..Len(lines')
      BY <1>2
    <3> QED
      BY <1>2, <2>2, <3>1 DEF Readable
  <2> QED
    BY <2>1, <2>2 DEF Readable
<1>4. ~Debt'
  <2>1. \A v \in writing' : ~(v.number > 0)
    BY <1>1 DEF CallsApart
  <2> QED
    BY <1>1, <2>1 DEF Debt
<1>5. Unread' \subseteq Unread \cup {w.event}
  BY <1>1, <1>3 DEF Unread
<1>6. /\ IsFiniteSet(Unread') /\ Cardinality(Unread') \in Nat /\ Cardinality(Unread) \in Nat
      /\ Cardinality(Unread') <= Cardinality(Unread) + 1
      /\ Unread' \subseteq Unread => Cardinality(Unread') <= Cardinality(Unread)
  BY <1>5, MissingGrows DEF Paid
<1>7. CASE w.number > 0 /\ tail # w
  <2>1. Debt
    BY <1>7 DEF Debt
  <2> QED
    BY <1>1, <1>2, <1>4, <1>6, <2>1 DEF Paid
<1>8. CASE ~(w.number > 0 /\ tail # w)
  <2>1. w.number > 0 => last = w
    <3>1. w.number > 0 => tail = w /\ tail # NoLine
      BY <1>8 DEF NoLine
    <3> QED
      BY <3>1
  <2>2. Unread' \subseteq Unread
    BY <1>1, <1>3, <1>5, <2>1 DEF Unread
  <2> QED
    BY <1>1, <1>2, <1>4, <1>6, <2>2 DEF Paid
<1> QED
  BY <1>7, <1>8

(* Every step pays for what it leaves. *)
LEMMA PaidStep ==
  ASSUME LogInv, CallsApart, Paid, [LogNext]_logVars
  PROVE  Paid'
<1>1. ASSUME NEW t \in {"chain", "simple"}, NEW k \in Keys \cup {Unsigned}, Open(t, k)
      PROVE  Paid'
  <2>1. UNCHANGED <<lines, acked, logFaults, writing, tail>>
    BY <1>1 DEF Open, logFile
  <2> QED
    BY <2>1, NoNewDebt DEF Debt
<1>2. ASSUME NEW e \in Events, LogWithChain(e) PROVE Paid'
  <2> DEFINE entry == [number |-> counter + 1, previousHash |-> lastHash, event |-> e,
                       signature |-> key]
  <2>1. Text(entry, entry) /\ writing = {} /\ UNCHANGED <<lines, acked>>
    BY <1>2 DEF LogWithChain
  <2>2. CASE LogFault
    BY <2>1, <2>2, FaultPays
  <2>3. CASE ~LogFault
    <3> HIDE DEF entry
    <3>1. tail' = Join(entry) /\ writing' = {entry} /\ UNCHANGED logFaults
      BY <2>1, <2>3 DEF Text
    <3>2. Debt' => Debt
      BY <2>1, <3>1 DEF Debt, Join
    <3> QED
      BY <2>1, <3>1, <3>2, NoNewDebt
  <2> QED
    BY <2>2, <2>3
<1>3. ASSUME NEW e \in Events, LogSimple(e) PROVE Paid'
  <2> DEFINE w == [number |-> 0, event |-> e]
  <2>1. Text(NotEntry, w) /\ tamper = "simple" /\ UNCHANGED <<lines, acked>> /\ w.number = 0
    BY <1>3 DEF LogSimple
  <2>2. CASE LogFault
    BY <2>1, <2>2, FaultPays
  <2>3. CASE ~LogFault
    <3> HIDE DEF w
    <3>1. writing' = writing \cup {w} /\ UNCHANGED logFaults
      BY <2>1, <2>3 DEF Text
    <3>2. ~Debt'
      BY <2>1, <3>1 DEF Debt, CallsApart
    <3> QED
      BY <2>1, <3>1, <3>2, NoNewDebt
  <2> QED
    BY <2>2, <2>3
<1>4. ASSUME NEW w \in writing, Newline(w) PROVE Paid'
  <2>1. CASE ~LogFault
    BY <1>4, <2>1, NewlinePaid
  <2>2. CASE LogFault
    <3>1. logFaults' = logFaults + 1 /\ logFaults \in Nat
      BY <2>2 DEF LogFault, LogInv, LogTypes
    <3>2. UNCHANGED <<lines, acked>>
      BY <1>4, <3>1 DEF Newline, logFile
    <3> QED
      BY <2>2, <3>2, FaultPays
  <2> QED
    BY <2>1, <2>2
<1>5. CASE Stop
  <2>1. UNCHANGED <<lines, acked, tail>> /\ writing' = {}
    BY <1>5 DEF Stop, logFile
  <2>2. CASE writing = {}
    BY <1>5, <2>1, <2>2, NoNewDebt DEF Stop, Debt
  <2>3. CASE writing # {}
    BY <1>5, <2>1, <2>3, FaultPays DEF Stop
  <2> QED
    BY <2>2, <2>3
<1>6. CASE UNCHANGED logVars
  BY <1>6, NoNewDebt DEF logVars, Debt
<1> QED
  BY <1>1, <1>2, <1>3, <1>4, <1>5, <1>6 DEF LogNext

(* An entry log_with_chain returned Ok for is readable, except that one failed
   write or crash can cost the one entry appended to what it left: over any number
   of engines, in any modes, and any number of faults. *)
THEOREM LostPerFaultHolds == LogSpec => []LostPerFault
<1>1. LogInit => CallsApart /\ Paid
  <2> SUFFICES ASSUME LogInit PROVE CallsApart /\ Paid
    OBVIOUS
  <2>1. Unread = {} /\ ~Debt /\ logFaults = 0 /\ CallsApart
    BY DEF LogInit, Unread, Debt, CallsApart
  <2> QED
    BY <2>1, FS_EmptySet DEF Paid
<1>2. LogInv /\ CallsApart /\ Paid => LostPerFault
  <2> SUFFICES ASSUME LogInv, CallsApart, Paid PROVE LostPerFault
    OBVIOUS
  <2> DEFINE lost == {e \in acked : \A i \in Entries : AllLines[i].event # e}
  <2>1. lost \subseteq Unread
    <3>1. ASSUME NEW i \in 1..Len(lines), lines[i].number > 0
          PROVE  i \in Entries /\ AllLines[i].event = lines[i].event
      <4>1. /\ AllLines \in Seq(Line) /\ Len(lines) \in Nat
            /\ Len(AllLines) \in {Len(lines), Len(lines) + 1} /\ AllLines[i] = lines[i]
        BY AllLinesAre DEF LogInv, LogTypes
      <4>2. i \in DOMAIN AllLines
        BY <4>1
      <4> QED
        BY <3>1, <4>1, <4>2 DEF Entries
    <3> QED
      BY <3>1 DEF Unread, Readable
  <2> HIDE DEF lost
  <2>2. Cardinality(lost) <= Cardinality(Unread) /\ Cardinality(lost) \in Nat
        /\ Cardinality(Unread) \in Nat
    BY <2>1, FS_Subset, FS_CardinalityType DEF Paid
  <2>3. Cardinality(lost) <= logFaults
    BY <2>2 DEF Paid, LogInv, LogTypes
  <2> QED
    BY <2>3 DEF LostPerFault, lost
<1> QED
  BY LogAlwaysInv, <1>1, <1>2, CallsStep, PaidStep, PTL DEF LogSpec

-----------------------------------------------------------------------------
(* The archive: how many files are mislabelled, and the architecture of what is
   kept. *)

\* A binary kept under a file name that some version of it has.
Labelled(content, f) == \E m \in Metadata : content = m.hash /\ SanitizeVersion[m.version] = f
\* The file the current model would be archived in.
Label == SanitizeVersion[ArchivedAs]

\* The current model would be archived under a wrong name; between the binary and
\* the version of a store that is still going on it need not be.
Unmatched == storeStep # "version" /\ current # None /\ ~Labelled(current, Label)

\* The files that are mislabelled, and the one that would be next.
Wrong == Mislabelled \cup {f \in {Label} : Unmatched}

Storing ==
  /\ storeStep # "idle" => storing \in Metadata
  /\ storeStep = "version" => current = storing.hash

StoreInv ==
  /\ Storing /\ storeFaults \in Nat
  /\ IsFiniteSet(Wrong) /\ Cardinality(Wrong) <= storeFaults

\* A hash is of one binary, and a binary has one architecture.
HashNamesArchitecture == \A m, n \in Metadata : m.hash = n.hash => m.architecture = n.architecture

\* A model of the architecture that is written down.
Fits(content) ==
  archHash # None /\ \E m \in Metadata : content = m.hash /\ m.architecture = archHash

ArchiveFits == \A f \in DOMAIN archive : archive[f] # None => Fits(archive[f])
CurrentFits ==
  /\ archHash # None => current # None /\ version # None
  /\ storeStep \notin {"version", "architecture"} => current = None \/ Fits(current)
\* What is stored was compared with the architecture that is written down.
StoringFits ==
  /\ storeStep # "idle" =>
       /\ storing \in Metadata /\ storing.architecture # None
       /\ archHash # None => storing.architecture = archHash
  /\ storeStep \in {"version", "architecture"} => current = storing.hash
  /\ storeStep = "architecture" => version # None

ArchInv == storeFaults = 0 => ArchiveFits /\ CurrentFits /\ StoringFits

-----------------------------------------------------------------------------
(* A step that makes no more files wrong keeps the count. *)
LEMMA NoMoreWrong ==
  ASSUME StoreInv, Wrong' \subseteq Wrong, storeFaults' = storeFaults, Storing'
  PROVE  StoreInv'
<1>1. IsFiniteSet(Wrong') /\ Cardinality(Wrong') <= Cardinality(Wrong)
  BY FS_Subset DEF StoreInv
<1>2. Cardinality(Wrong') \in Nat /\ Cardinality(Wrong) \in Nat
  BY <1>1, FS_CardinalityType DEF StoreInv
<1> QED
  BY <1>1, <1>2 DEF StoreInv

(* A fault may make one more file wrong. *)
LEMMA OneMoreWrong ==
  ASSUME StoreInv, NEW f, Wrong' \subseteq Wrong \cup {f}, storeFaults' = storeFaults + 1,
         Storing'
  PROVE  StoreInv'
<1> DEFINE more == Wrong \cup {f}
<1>1. IsFiniteSet(more) /\ Cardinality(more) \in {Cardinality(Wrong), Cardinality(Wrong) + 1}
  BY FS_AddElement DEF StoreInv
<1>2. IsFiniteSet(Wrong') /\ Cardinality(Wrong') <= Cardinality(more)
  BY <1>1, FS_Subset
<1>3. Cardinality(Wrong') \in Nat /\ Cardinality(Wrong) \in Nat
  BY <1>2, FS_CardinalityType DEF StoreInv
<1> QED
  BY <1>1, <1>2, <1>3 DEF StoreInv

(* Nothing is stored at the start. *)
LEMMA StoreInitInv == StoreInit => StoreInv
<1> SUFFICES ASSUME StoreInit PROVE StoreInv
  OBVIOUS
<1>1. Wrong = {}
  BY DEF StoreInit, Wrong, Mislabelled, Unmatched
<1> QED
  BY <1>1, FS_EmptySet DEF StoreInit, StoreInv, Storing

(* The archive and the current model as they were, and no new mismatch. *)
LEMMA NoWriteInv ==
  ASSUME StoreInv, UNCHANGED <<current, version, archive, storeFaults>>, Storing',
         storeStep # "version"
  PROVE  StoreInv'
<1>1. Label' = Label
  BY DEF Label, ArchivedAs
<1>2. Mislabelled' = Mislabelled
  BY DEF Mislabelled
<1>3. Unmatched' => Unmatched
  BY <1>1 DEF Unmatched, Labelled
<1>4. Wrong' \subseteq Wrong
  BY <1>1, <1>2, <1>3 DEF Wrong
<1> QED
  BY <1>4, NoMoreWrong DEF StoreInv

(* What is archived was the current model: if its file is wrong now, it was next. *)
LEMMA ArchiveInv == StoreInv /\ ArchiveBinary => StoreInv'
<1> SUFFICES ASSUME StoreInv, ArchiveBinary PROVE StoreInv'
  OBVIOUS
<1>1. /\ storeStep = "archive" /\ storeStep' \in {"idle", "evict"}
      /\ archive' = [archive EXCEPT ![Label] = current]
      /\ UNCHANGED <<current, version, storeFaults>>
      /\ storeStep' = "evict" => UNCHANGED storing
  BY DEF ArchiveBinary, Label
<1>2. Label' = Label
  BY <1>1 DEF Label, ArchivedAs
<1>3. Unmatched' => Unmatched
  BY <1>1, <1>2 DEF Unmatched, Labelled
<1>4. ASSUME NEW f \in Mislabelled' PROVE f \in Wrong
  <2>1. f \in DOMAIN archive /\ archive'[f] # None /\ ~Labelled(archive'[f], f)
    BY <1>1 DEF Mislabelled, Labelled
  <2>2. CASE f = Label
    <3>1. current # None /\ ~Labelled(current, Label)
      BY <1>1, <2>1, <2>2
    <3> QED
      BY <1>1, <2>2, <3>1 DEF Unmatched, Wrong
  <2>3. CASE f # Label
    <3>1. archive'[f] = archive[f]
      BY <1>1, <2>1, <2>3
    <3> QED
      BY <2>1, <3>1 DEF Mislabelled, Labelled, Wrong
  <2> QED
    BY <2>2, <2>3
<1>5. Wrong' \subseteq Wrong
  BY <1>2, <1>3, <1>4 DEF Wrong
<1>6. Storing'
  BY <1>1 DEF StoreInv, Storing
<1> QED
  BY <1>1, <1>5, <1>6, NoMoreWrong

(* An eviction only removes files. *)
LEMMA EvictInv == StoreInv /\ Evict => StoreInv'
<1> SUFFICES ASSUME StoreInv, Evict PROVE StoreInv'
  OBVIOUS
<1>1. /\ storeStep = "evict" /\ storeStep' = "manifest"
      /\ UNCHANGED <<current, version, storing, storeFaults>>
      /\ DOMAIN archive' = DOMAIN archive
      /\ \A f \in DOMAIN archive : archive'[f] \in {None, archive[f]}
  BY DEF Evict, Goto
<1>2. Label' = Label
  BY <1>1 DEF Label, ArchivedAs
<1>3. Unmatched' => Unmatched
  BY <1>1, <1>2 DEF Unmatched, Labelled
<1>4. Mislabelled' \subseteq Mislabelled
  BY <1>1 DEF Mislabelled
<1>5. Wrong' \subseteq Wrong
  BY <1>2, <1>3, <1>4 DEF Wrong
<1>6. Storing'
  BY <1>1 DEF StoreInv, Storing
<1> QED
  BY <1>1, <1>5, <1>6, NoMoreWrong

(* The binary and the version of one store: in the end they belong together. *)
LEMMA WritesInv == StoreInv /\ (WriteBinary \/ WriteVersion) => StoreInv'
<1> SUFFICES ASSUME StoreInv, WriteBinary \/ WriteVersion PROVE StoreInv'
  OBVIOUS
<1>1. Mislabelled' = Mislabelled /\ storeFaults' = storeFaults
  BY DEF WriteBinary, WriteVersion, Mislabelled
<1>2. Storing'
  BY DEF WriteBinary, WriteVersion, Goto, StoreInv, Storing
<1>3. ~Unmatched'
  <2>1. CASE WriteBinary
    BY <2>1 DEF WriteBinary, Goto, Unmatched
  <2>2. CASE WriteVersion
    <3>1. storing \in Metadata /\ current = storing.hash /\ version' = storing.version
          /\ current' = current
      BY <2>2 DEF WriteVersion, Goto, StoreInv, Storing
    <3>2. storing.version # None
      BY <3>1, StoreAssumption DEF Versions
    <3>3. Label' = SanitizeVersion[storing.version]
      BY <3>1, <3>2 DEF Label, ArchivedAs
    <3> QED
      BY <3>1, <3>3 DEF Unmatched, Labelled
  <2> QED
    BY <2>1, <2>2
<1>4. Wrong' \subseteq Wrong
  BY <1>1, <1>3 DEF Wrong
<1> QED
  BY <1>1, <1>2, <1>4, NoMoreWrong

(* A call that is cut short: the file it was writing, or the one it will be archived
   in next, is the only one that becomes wrong. *)
LEMMA StoreFaultInv == StoreInv /\ StoreFault => StoreInv'
<1> SUFFICES ASSUME StoreInv, StoreFault PROVE StoreInv'
  OBVIOUS
<1>1. storeStep' = "idle" /\ storeFaults' = storeFaults + 1
  BY DEF StoreFault
<1>2. Storing'
  BY <1>1 DEF Storing
<1>3. CASE archive' = archive
  <2>1. Mislabelled' = Mislabelled
    BY <1>3 DEF Mislabelled
  <2>2. Wrong' \subseteq Wrong \cup {Label'}
    BY <2>1 DEF Wrong
  <2> QED
    BY <1>1, <1>2, <2>2, OneMoreWrong
<1>4. CASE /\ storeStep = "archive" /\ archive' = [archive EXCEPT ![Label] = Torn]
           /\ UNCHANGED <<current, version>>
  <2>1. Label' = Label
    BY <1>4 DEF Label, ArchivedAs
  <2>2. Mislabelled' \subseteq Mislabelled \cup {Label}
    BY <1>4 DEF Mislabelled
  <2>3. Wrong' \subseteq Wrong \cup {Label}
    BY <2>1, <2>2 DEF Wrong
  <2> QED
    BY <1>1, <1>2, <2>3, OneMoreWrong
<1> QED
  BY <1>3, <1>4 DEF StoreFault, files, Label

(* The invariant in every reachable state. *)
LEMMA StoreAlwaysInv == StoreSpec => []StoreInv
<1>1. StoreInv /\ [StoreNext]_storeVars => StoreInv'
  <2> SUFFICES ASSUME StoreInv, [StoreNext]_storeVars PROVE StoreInv'
    OBVIOUS
  <2>1. ASSUME NEW bytes \in Contents, NEW m \in Metadata, ValidateAndStore(bytes, m)
        PROVE  StoreInv'
    <3>1. storeStep = "idle" /\ UNCHANGED <<current, version, archive, storeFaults>> /\ Storing'
      BY <2>1 DEF ValidateAndStore, files, Storing
    <3> QED
      BY <3>1, NoWriteInv
  <2>2. CASE SaveManifest \/ WriteArchHash
    <3>1. storeStep # "version" /\ UNCHANGED <<current, version, archive, storeFaults>> /\ Storing'
      BY <2>2 DEF SaveManifest, WriteArchHash, Goto, StoreInv, Storing
    <3> QED
      BY <3>1, NoWriteInv
  <2>3. CASE UNCHANGED storeVars
    <3>1. Label' = Label /\ Mislabelled' = Mislabelled /\ Storing'
      BY <2>3 DEF storeVars, Label, ArchivedAs, Mislabelled, StoreInv, Storing
    <3>2. Wrong' \subseteq Wrong /\ storeFaults' = storeFaults
      BY <2>3, <3>1 DEF storeVars, Wrong, Unmatched, Labelled
    <3> QED
      BY <3>1, <3>2, NoMoreWrong
  <2> QED
    BY <2>1, <2>2, <2>3, ArchiveInv, EvictInv, WritesInv, StoreFaultInv DEF StoreNext
<1> QED
  BY StoreInitInv, <1>1, PTL DEF StoreSpec

(* No more archive files are mislabelled than calls were cut short. *)
THEOREM MislabelledPerFaultHolds == StoreSpec => []MislabelledPerFault
<1>1. StoreInv => MislabelledPerFault
  <2> SUFFICES ASSUME StoreInv PROVE MislabelledPerFault
    OBVIOUS
  <2>1. IsFiniteSet(Mislabelled) /\ Cardinality(Mislabelled) <= Cardinality(Wrong)
    BY FS_Subset DEF StoreInv, Wrong
  <2>2. Cardinality(Mislabelled) \in Nat /\ Cardinality(Wrong) \in Nat
    BY <2>1, FS_CardinalityType DEF StoreInv
  <2> QED
    BY <2>1, <2>2 DEF StoreInv, MislabelledPerFault
<1> QED
  BY StoreAlwaysInv, <1>1, PTL

-----------------------------------------------------------------------------
(* The files of the current model, written one after the other. *)
LEMMA ArchWrites ==
  ASSUME ArchInv, storeFaults = 0, WriteBinary \/ WriteVersion \/ WriteArchHash
  PROVE  ArchInv'
<1> USE DEF ArchInv, ArchiveFits, CurrentFits, StoringFits, Fits, Goto
<1>1. CASE WriteBinary
  <2>1. storing \in Metadata /\ storing.hash # None
    BY <1>1, StoreAssumption DEF WriteBinary
  <2> QED
    BY <1>1, <2>1 DEF WriteBinary
<1>2. CASE WriteVersion
  <2>1. storing \in Metadata /\ storing.version # None
    BY <1>2, StoreAssumption DEF WriteVersion, Versions
  <2> QED
    BY <1>2, <2>1 DEF WriteVersion
<1>3. CASE WriteArchHash
  <2>1. storing \in Metadata /\ storing.architecture # None /\ current = storing.hash
        /\ version # None /\ archHash' = storing.architecture /\ storeStep' = "idle"
        /\ UNCHANGED <<current, version, archive>>
    BY <1>3 DEF WriteArchHash
  <2>2. archHash # None => archHash' = archHash
    BY <2>1, <1>3 DEF WriteArchHash
  <2>3. ArchiveFits'
    BY <2>1, <2>2
  <2>4. current # None
    BY <2>1, StoreAssumption
  <2> QED
    BY <2>1, <2>3, <2>4
<1> QED
  BY <1>1, <1>2, <1>3

(* The steps of the archive, and the comparison before a store. *)
LEMMA ArchOthers ==
  ASSUME ArchInv, storeFaults = 0,
         \/ \E bytes \in Contents, m \in Metadata : ValidateAndStore(bytes, m)
         \/ ArchiveBinary \/ Evict \/ SaveManifest
  PROVE  ArchInv'
<1> USE DEF ArchInv, Goto
<1>1. CASE \E bytes \in Contents, m \in Metadata : ValidateAndStore(bytes, m)
  <2>1. PICK m \in Metadata :
          /\ storing' = m /\ m.architecture # None
          /\ archHash # None /\ version # None => archHash = m.architecture
          /\ storeStep = "idle" /\ storeStep' \in {"binary", "archive"}
          /\ UNCHANGED <<current, version, archHash, archive>>
    BY <1>1 DEF ValidateAndStore, CheckCompatibility, files
  <2>2. ArchiveFits' /\ CurrentFits'
    BY <2>1 DEF ArchiveFits, CurrentFits, Fits
  <2>3. StoringFits'
    BY <2>1 DEF CurrentFits, StoringFits
  <2> QED
    BY <2>2, <2>3
<1>2. CASE ArchiveBinary
  <2>1. /\ storeStep = "archive" /\ storeStep' \in {"idle", "evict"}
        /\ archive' = [archive EXCEPT ![SanitizeVersion[ArchivedAs]] = current]
        /\ UNCHANGED <<current, version, archHash>>
        /\ storeStep' # "idle" => UNCHANGED storing
    BY <1>2 DEF ArchiveBinary
  <2>2. ASSUME NEW f \in DOMAIN archive' PROVE archive'[f] # None => Fits(archive'[f])
    <3>1. f \in DOMAIN archive /\ archive'[f] \in {archive[f], current}
      BY <2>1
    <3> QED
      BY <2>1, <3>1 DEF ArchiveFits, CurrentFits
  <2>3. ArchiveFits'
    BY <2>1, <2>2 DEF ArchiveFits, Fits
  <2>4. CurrentFits' /\ StoringFits'
    BY <2>1 DEF CurrentFits, StoringFits, Fits
  <2> QED
    BY <2>3, <2>4
<1>3. CASE Evict
  <2>1. /\ storeStep = "evict" /\ storeStep' = "manifest"
        /\ UNCHANGED <<current, version, archHash, storing>>
        /\ DOMAIN archive' = DOMAIN archive
        /\ \A f \in DOMAIN archive : archive'[f] \in {None, archive[f]}
    BY <1>3 DEF Evict
  <2>2. ArchiveFits'
    BY <2>1 DEF ArchiveFits, Fits
  <2>3. CurrentFits' /\ StoringFits'
    BY <2>1 DEF CurrentFits, StoringFits, Fits
  <2> QED
    BY <2>2, <2>3
<1>4. CASE SaveManifest
  <2>1. /\ storeStep = "manifest" /\ storeStep' = "binary"
        /\ UNCHANGED <<current, version, archHash, archive, storing>>
    BY <1>4 DEF SaveManifest
  <2> QED
    BY <2>1 DEF ArchiveFits, CurrentFits, StoringFits, Fits
<1> QED
  BY <1>1, <1>2, <1>3, <1>4

(* Where a binary has one architecture, the archived models and the current one
   have the same, until a call is cut short. *)
THEOREM OneArchitectureHolds ==
  ASSUME HashNamesArchitecture PROVE StoreSpec => []OneArchitecture
<1> DEFINE Both == StoreInv /\ ArchInv
<1>1. StoreInit => ArchInv
  BY DEF StoreInit, ArchInv, ArchiveFits, CurrentFits, StoringFits
<1>2. Both /\ [StoreNext]_storeVars => ArchInv'
  <2> SUFFICES ASSUME StoreInv, ArchInv, [StoreNext]_storeVars PROVE ArchInv'
    OBVIOUS
  <2>1. CASE UNCHANGED storeVars
    BY <2>1 DEF storeVars, ArchInv, ArchiveFits, CurrentFits, StoringFits, Fits
  <2>2. CASE StoreFault
    <3>1. storeFaults' = storeFaults + 1 /\ storeFaults \in Nat
      BY <2>2 DEF StoreFault, StoreInv
    <3> QED
      BY <3>1 DEF ArchInv
  <2>3. CASE StoreNext /\ ~StoreFault
    <3>1. storeFaults' = storeFaults
      BY <2>3 DEF StoreNext, ValidateAndStore, ArchiveBinary, Evict, SaveManifest,
                  WriteBinary, WriteVersion, WriteArchHash
    <3>2. CASE storeFaults = 0
      BY <2>3, <3>2, ArchWrites, ArchOthers DEF StoreNext
    <3> QED
      BY <3>1, <3>2 DEF ArchInv
  <2> QED
    BY <2>1, <2>2, <2>3
<1>3. ArchInv => OneArchitecture
  <2> SUFFICES ASSUME ArchInv, storeFaults = 0, NEW f \in DOMAIN archive, archive[f] # None
               PROVE  ArchitectureOf(archive[f]) = ArchitectureOf(current)
    BY DEF OneArchitecture
  <2>1. Fits(archive[f]) /\ current # None
    BY DEF ArchInv, ArchiveFits, CurrentFits, Fits
  <2>2. Fits(current)
    BY <2>1 DEF ArchInv, CurrentFits, StoringFits, Fits
  <2>3. ASSUME NEW content, Fits(content) PROVE ArchitectureOf(content) = {archHash}
    BY <2>3 DEF Fits, ArchitectureOf, HashNamesArchitecture
  <2> QED
    BY <2>1, <2>2, <2>3
<1>4. StoreSpec => []StoreInv
  BY StoreAlwaysInv
<1> QED
  BY <1>1, <1>2, <1>3, <1>4, PTL DEF StoreSpec

-----------------------------------------------------------------------------
(* What a rollback returns. *)

\* What a manifest may name.
Archivable == DOMAIN SanitizeVersion

\* The recursion of Retained over the first n versions.
Keeps(of, s, w, n) ==
  of = [i \in 0..n |-> IF i = 0 THEN <<>>
                         ELSE IF s[i] = w THEN of[i - 1] ELSE Append(of[i - 1], s[i])]

NoTwice(s) == \A i, j \in 1..Len(s) : s[i] = s[j] => i = j

\* The manifest names each version once, and its last version has a file.
ManifestKept ==
  /\ manifest = Torn \/ (manifest \in Seq(Archivable) /\ NoTwice(manifest))
  /\ manifest \notin {Torn, <<>>} => Rollback # None
\* There is something to archive, and it has been until the manifest is written.
ArchivedFirst ==
  /\ current = None => manifest = <<>>
  /\ storeStep \in {"archive", "evict", "manifest"} => current # None
  /\ storeStep \in {"evict", "manifest"} => manifest # Torn /\ archive[Label] = current
\* From the manifest on, a rollback leads to what the store is replacing.
Replaced ==
  storeFaults = 0 =>
    /\ manifest # Torn
    /\ storeStep = "binary" => Rollback = current
    /\ storeStep \in {"version", "architecture", "idle"} => Rollback = displaced

RollInv ==
  /\ version \in Versions \cup {None, Torn}
  /\ DOMAIN archive = {SanitizeVersion[v] : v \in Archivable}
  /\ ManifestKept /\ ArchivedFirst /\ Replaced
-----------------------------------------------------------------------------
LEMMA KeepsExists ==
  ASSUME NEW s, NEW w, NEW n \in Nat
  PROVE  \E of : Keeps(of, s, w, n)
<1> DEFINE G == {m \in Nat : \E of : Keeps(of, s, w, m)}
<1>1. 0 \in G
  <2> DEFINE f == [i \in 0..0 |-> <<>>]
  <2>1. [i \in 0..0 |-> IF i = 0 THEN <<>>
                        ELSE IF s[i] = w THEN f[i - 1] ELSE Append(f[i - 1], s[i])] = f
    <3> HIDE DEF f
    <3>1. \A i \in 0..0 : i = 0
      OBVIOUS
    <3> QED
      BY <3>1 DEF f
  <2>2. Keeps(f, s, w, 0)
    BY <2>1 DEF Keeps
  <2> QED
    BY <2>2
<1>2. ASSUME NEW m \in Nat, m \in G PROVE m + 1 \in G
  <2>1. PICK f : Keeps(f, s, w, m)
    BY <1>2
  <2> DEFINE new == IF s[m + 1] = w THEN f[m] ELSE Append(f[m], s[m + 1])
             g == [i \in 0..(m + 1) |-> IF i = m + 1 THEN new ELSE f[i]]
             h == [i \in 0..(m + 1) |->
                     IF i = 0 THEN <<>>
                     ELSE IF s[i] = w THEN g[i - 1] ELSE Append(g[i - 1], s[i])]
  <2>2. \A i \in 0..m : g[i] = f[i]
    OBVIOUS
  <2>3. g[m + 1] = new
    OBVIOUS
  <2>4. \A i \in 0..m : f[i] = IF i = 0 THEN <<>>
                               ELSE IF s[i] = w THEN f[i - 1] ELSE Append(f[i - 1], s[i])
    BY <2>1, Zenon DEF Keeps
  <2>5. ASSUME NEW i \in 0..(m + 1) PROVE g[i] = h[i]
    <3> DEFINE prev == g[i - 1]
    <3>1. h[i] = IF i = 0 THEN <<>>
                 ELSE IF s[i] = w THEN g[i - 1] ELSE Append(g[i - 1], s[i])
      BY Zenon
    <3> HIDE DEF g, h, new
    <3>2. CASE i = 0
      BY <2>2, <2>4, <3>1, <3>2
    <3>3. CASE i \in 1..m
      <4>1. i - 1 \in 0..m /\ i \in 0..m /\ i # 0
        BY <3>3
      <4>2. g[i - 1] = f[i - 1] /\ g[i] = f[i]
        BY <2>2, <4>1
      <4> QED
        BY <2>4, <3>1, <4>1, <4>2
    <3>4. CASE i = m + 1
      <4>1. i - 1 = m /\ i # 0 /\ m \in 0..m
        BY <3>4
      <4>2. g[i - 1] = f[m]
        BY <2>2, <4>1
      <4> QED
        BY <2>3, <3>1, <3>4, <4>1, <4>2 DEF new
    <3> QED
      BY <3>2, <3>3, <3>4
  <2>6. g = h
    <3>1. g = [i \in 0..(m + 1) |-> g[i]] /\ h = [i \in 0..(m + 1) |-> h[i]]
      OBVIOUS
    <3> HIDE DEF g, h
    <3> QED
      BY <2>5, <3>1
  <2>7. Keeps(g, s, w, m + 1)
    <3> HIDE DEF g
    <3> QED
      BY <2>6, Zenon DEF Keeps
  <2> HIDE DEF g
  <2> QED
    BY <2>7
<1> HIDE DEF G
<1>3. \A m \in Nat : m \in G
  BY <1>1, <1>2, NumberInduction
<1> QED
  BY <1>3 DEF G

(* versions.retain keeps the order, and everything but what it removes. *)
LEMMA RetainedIs ==
  ASSUME NEW S, NEW s \in Seq(S), NEW w, NoTwice(s)
  PROVE  LET r == Retained(s, w)
         IN /\ r \in Seq(S) /\ NoTwice(r) /\ \A i \in 1..Len(r) : r[i] # w
            /\ Len(s) > 0 /\ s[Len(s)] # w => Len(r) > 0 /\ r[Len(r)] = s[Len(s)]
<1> DEFINE all == Len(s)
           f == CHOOSE of : Keeps(of, s, w, all)
<1>1. all \in Nat /\ \A i \in 1..all : s[i] \in S
  OBVIOUS
<1>2. Retained(s, w) = f[all]
  BY Zenon DEF Retained, Keeps
<1>3. Keeps(f, s, w, all)
  <2> HIDE DEF all
  <2> QED
    BY <1>1, KeepsExists, Zenon
<1>4. \A i \in 0..all : f[i] = IF i = 0 THEN <<>>
                               ELSE IF s[i] = w THEN f[i - 1] ELSE Append(f[i - 1], s[i])
  BY <1>3, Zenon DEF Keeps
<1>5. \A i, j \in 1..all : s[i] = s[j] => i = j
  BY DEF NoTwice
<1> HIDE DEF f
<1> DEFINE Good(n) == /\ f[n] \in Seq(S) /\ NoTwice(f[n])
                      /\ \A i \in 1..Len(f[n]) : f[n][i] # w /\ \E j \in 1..n : f[n][i] = s[j]
           G == {n \in Nat : n <= all => Good(n)}
<1> HIDE DEF all
<1>6. 0 \in G
  <2>1. f[0] = <<>>
    BY <1>1, <1>4
  <2>2. f[0] \in Seq(S) /\ Len(f[0]) = 0
    BY <2>1
  <2>3. Good(0)
    BY <2>2 DEF NoTwice
  <2> QED
    BY <2>3
<1>7. ASSUME NEW n \in Nat, n \in G PROVE n + 1 \in G
  <2> SUFFICES ASSUME n + 1 <= all PROVE Good(n + 1)
    OBVIOUS
  <2>1. Good(n) /\ n + 1 \in 0..all /\ n + 1 \in 1..all /\ (n + 1) - 1 = n
    BY <1>1, <1>7
  <2>2. f[n + 1] = IF s[n + 1] = w THEN f[n] ELSE Append(f[n], s[n + 1])
    BY <1>4, <2>1
  <2>3. CASE s[n + 1] = w
    <3>1. f[n + 1] = f[n]
      BY <2>2, <2>3
    <3>2. 1..n \subseteq 1..(n + 1)
      OBVIOUS
    <3> QED
      BY <2>1, <3>1, <3>2
  <2>4. CASE s[n + 1] # w
    <3> DEFINE r == f[n]
               t == Append(r, s[n + 1])
    <3>1. f[n + 1] = t
      BY <2>2, <2>4
    <3>2. r \in Seq(S) /\ s[n + 1] \in S
      BY <1>1, <2>1
    <3>3. /\ \A i, j \in 1..Len(r) : r[i] = r[j] => i = j
          /\ \A i \in 1..Len(r) : r[i] # w /\ \E j \in 1..n : r[i] = s[j]
      BY <2>1 DEF NoTwice
    <3> HIDE DEF r
    <3>4. /\ t \in Seq(S) /\ Len(t) = Len(r) + 1 /\ Len(r) \in Nat
          /\ t[Len(r) + 1] = s[n + 1] /\ \A i \in 1..Len(r) : t[i] = r[i]
      BY <3>2
    <3> HIDE DEF t
    <3>5. \A i \in 1..Len(r) : r[i] # s[n + 1]
      <4>1. ASSUME NEW i \in 1..Len(r), r[i] = s[n + 1] PROVE FALSE
        <5>1. PICK j \in 1..n : r[i] = s[j]
          BY <3>3, <4>1
        <5>2. j \in 1..all /\ j # n + 1
          BY <1>1, <2>1
        <5> QED
          BY <1>5, <2>1, <4>1, <5>1, <5>2
      <4> QED
        BY <4>1
    <3>6. NoTwice(t)
      <4>1. ASSUME NEW i \in 1..Len(t), NEW j \in 1..Len(t), t[i] = t[j] PROVE i = j
        <5>1. (i \in 1..Len(r) \/ i = Len(r) + 1) /\ (j \in 1..Len(r) \/ j = Len(r) + 1)
          BY <3>4
        <5> QED
          BY <3>3, <3>4, <3>5, <4>1, <5>1
      <4> QED
        BY <4>1 DEF NoTwice
    <3>7. ASSUME NEW i \in 1..Len(t) PROVE t[i] # w /\ \E j \in 1..(n + 1) : t[i] = s[j]
      <4>1. CASE i \in 1..Len(r)
        <5>1. t[i] # w /\ \E j \in 1..n : t[i] = s[j]
          BY <3>3, <3>4, <4>1
        <5> QED
          BY <5>1
      <4>2. CASE i = Len(r) + 1
        BY <2>4, <3>4, <4>2
      <4> QED
        BY <3>4, <4>1, <4>2
    <3> QED
      BY <3>1, <3>4, <3>6, <3>7
  <2> QED
    BY <2>3, <2>4
<1>8. Good(all)
  <2> HIDE DEF G
  <2>1. \A n \in Nat : n \in G
    BY <1>6, <1>7, NumberInduction
  <2> USE DEF G
  <2> QED
    BY <1>1, <2>1
<1>9. ASSUME all > 0, s[all] # w PROVE Len(f[all]) > 0 /\ f[all][Len(f[all])] = s[all]
  <2>1. f[all] = Append(f[all - 1], s[all]) /\ all - 1 \in Nat
    <3>1. all \in 0..all /\ all # 0 /\ all - 1 \in Nat
      BY <1>1, <1>9
    <3> QED
      BY <1>4, <1>9, <3>1
  <2>2. Good(all - 1)
    <3> HIDE DEF G
    <3>1. \A n \in Nat : n \in G
      BY <1>6, <1>7, NumberInduction
    <3> USE DEF G
    <3> QED
      BY <1>1, <2>1, <3>1
  <2>3. f[all - 1] \in Seq(S) /\ s[all] \in S
    BY <1>1, <1>9, <2>2
  <2> QED
    BY <2>1, <2>3
<1> QED
  BY <1>2, <1>8, <1>9 DEF all

-----------------------------------------------------------------------------
LEMMA ArchivableIs == Archivable = Versions \cup {Torn, Unknown}
  BY StoreAssumption DEF Archivable

(* The current model can be archived, whatever its version file says. *)
LEMMA LabelIsFile ==
  ASSUME RollInv
  PROVE  ArchivedAs \in Archivable /\ Label \in DOMAIN archive
  BY ArchivableIs DEF RollInv, ArchivedAs, Label

(* The versions after the current one has been added. *)
LEMMA PushedVersions ==
  ASSUME ArchivedAs \in Archivable, manifest \in Seq(Archivable), NoTwice(manifest)
  PROVE  /\ Pushed \in Seq(Archivable) /\ NoTwice(Pushed)
         /\ Len(Pushed) > 0 /\ Pushed[Len(Pushed)] = ArchivedAs
         /\ manifest # <<>> /\ manifest[Len(manifest)] # ArchivedAs =>
              Len(Pushed) > 1 /\ Pushed[Len(Pushed) - 1] = manifest[Len(manifest)]
<1> DEFINE r == Retained(manifest, ArchivedAs)
           a == ArchivedAs
           m == manifest
<1>1. m \in Seq(Archivable) /\ NoTwice(m) /\ a \in Archivable
  OBVIOUS
<1>2. /\ r \in Seq(Archivable) /\ NoTwice(r) /\ \A i \in 1..Len(r) : r[i] # a
      /\ Len(m) > 0 /\ m[Len(m)] # a => Len(r) > 0 /\ r[Len(r)] = m[Len(m)]
  BY <1>1, RetainedIs
<1>3. Pushed = Append(r, a)
  BY DEF Pushed
<1> HIDE DEF r, a
<1>4. /\ Pushed \in Seq(Archivable) /\ Len(Pushed) = Len(r) + 1 /\ Len(r) \in Nat
      /\ Pushed[Len(r) + 1] = a /\ \A i \in 1..Len(r) : Pushed[i] = r[i]
  BY <1>1, <1>2, <1>3
<1>5. NoTwice(Pushed)
  <2>1. ASSUME NEW i \in 1..Len(Pushed), NEW j \in 1..Len(Pushed), Pushed[i] = Pushed[j]
        PROVE  i = j
    <3>1. (i \in 1..Len(r) \/ i = Len(r) + 1) /\ (j \in 1..Len(r) \/ j = Len(r) + 1)
      BY <1>4
    <3>2. \A k, l \in 1..Len(r) : r[k] = r[l] => k = l
      BY <1>2 DEF NoTwice
    <3> QED
      BY <1>2, <1>4, <2>1, <3>1, <3>2
  <2> QED
    BY <2>1 DEF NoTwice
<1>6. ASSUME m # <<>>, m[Len(m)] # a
      PROVE  Len(Pushed) > 1 /\ Pushed[Len(Pushed) - 1] = m[Len(m)]
  <2>1. Len(m) > 0
    BY <1>1, <1>6
  <2>2. Len(r) > 0 /\ r[Len(r)] = m[Len(m)]
    BY <1>2, <1>6, <2>1
  <2>3. Len(Pushed) > 1 /\ Len(Pushed) - 1 = Len(r) /\ Len(r) \in 1..Len(r)
    BY <1>4, <2>2
  <2> QED
    BY <1>4, <2>2, <2>3
<1> QED
  BY <1>4, <1>5, <1>6 DEF a

LEMMA PushedIs ==
  ASSUME RollInv, manifest # Torn
  PROVE  /\ Pushed \in Seq(Archivable) /\ NoTwice(Pushed)
         /\ Len(Pushed) > 0 /\ Pushed[Len(Pushed)] = ArchivedAs
         /\ manifest # <<>> /\ manifest[Len(manifest)] # ArchivedAs =>
              Len(Pushed) > 1 /\ Pushed[Len(Pushed) - 1] = manifest[Len(manifest)]
  BY LabelIsFile, PushedVersions DEF RollInv, ManifestKept

(* An eviction takes the file neither of the current version nor of the last one. *)
LEMMA EvictSpares ==
  ASSUME RollInv, manifest # Torn, Distinct
  PROVE  /\ \A i \in 1..Excess : SanitizeVersion[Pushed[i]] # Label
         /\ manifest # <<>> =>
              \A i \in 1..Excess :
                SanitizeVersion[Pushed[i]] # SanitizeVersion[manifest[Len(manifest)]]
<1> DEFINE n == Len(Pushed)
           m == manifest
<1>1. n \in Nat /\ n > 0 /\ NoTwice(Pushed) /\ \A i \in 1..n : Pushed[i] \in Archivable
  BY PushedIs
<1>2. RetentionCount \in Nat /\ RetentionCount >= 2
  BY StoreAssumption DEF Distinct
<1>3. \A i \in 1..Excess : i \in 1..n /\ i < n - 1
  BY <1>1, <1>2 DEF Excess
<1>4. \A i, j \in 1..n : SanitizeVersion[Pushed[i]] = SanitizeVersion[Pushed[j]] => i = j
  BY <1>1 DEF NoTwice, Distinct, Archivable
<1>5. n \in 1..n /\ Pushed[n] = ArchivedAs
  BY <1>1, PushedIs
<1>6. ASSUME NEW i \in 1..Excess PROVE SanitizeVersion[Pushed[i]] # Label
  BY <1>1, <1>3, <1>4, <1>5 DEF Label
<1>7. ASSUME m # <<>>, NEW i \in 1..Excess
      PROVE  SanitizeVersion[Pushed[i]] # SanitizeVersion[m[Len(m)]]
  <2>1. CASE m[Len(m)] = ArchivedAs
    BY <1>6, <2>1 DEF Label
  <2>2. CASE m[Len(m)] # ArchivedAs
    <3>1. n > 1 /\ Pushed[n - 1] = m[Len(m)]
      BY <1>7, <2>2, PushedIs
    <3>2. n - 1 \in 1..n /\ i # n - 1 /\ i \in 1..n
      BY <1>1, <1>3, <3>1
    <3> QED
      BY <1>4, <3>1, <3>2
  <2> QED
    BY <2>1, <2>2
<1> QED
  BY <1>6, <1>7

-----------------------------------------------------------------------------
LEMMA RollInitInv == StoreInit => RollInv
<1> SUFFICES ASSUME StoreInit PROVE RollInv
  OBVIOUS
<1>1. <<>> \in Seq(Archivable) /\ <<>> # Torn
  <2>1. Torn \notin Seq(Archivable)
    BY StoreAssumption, ArchivableIs
  <2>2. <<>> \in Seq(Archivable)
    OBVIOUS
  <2> QED
    BY <2>1, <2>2, Zenon
<1>2. NoTwice(<<>>)
  BY DEF NoTwice
<1> QED
  BY <1>1, <1>2
     DEF StoreInit, RollInv, ManifestKept, ArchivedFirst, Replaced, Rollback, Archivable

(* The start of a call leaves the files as they are. *)
LEMMA RollValidate ==
  ASSUME RollInv, NEW bytes \in Contents, NEW m \in Metadata, ValidateAndStore(bytes, m)
  PROVE  RollInv'
<1>1. /\ UNCHANGED <<current, version, archive, manifest, storeFaults, displaced>>
      /\ storeStep' = IF current = None THEN "binary" ELSE "archive"
  BY DEF ValidateAndStore, files
<1>2. Rollback' = Rollback
  BY <1>1 DEF Rollback
<1>3. ManifestKept' /\ ArchivedFirst'
  BY <1>1, <1>2 DEF RollInv, ManifestKept, ArchivedFirst
<1>4. current = None => manifest = <<>> /\ Rollback = None
  BY DEF RollInv, ArchivedFirst, Rollback
<1>5. Replaced'
  BY <1>1, <1>2, <1>4 DEF RollInv, Replaced
<1> QED
  BY <1>1, <1>3, <1>5 DEF RollInv

(* The current model is archived, perhaps over the file of the last version. *)
LEMMA RollArchive ==
  ASSUME RollInv, ArchiveBinary
  PROVE  RollInv'
<1>1. /\ UNCHANGED <<current, version, manifest, storeFaults, displaced>>
      /\ archive' = [archive EXCEPT ![Label] = current] /\ storeStep = "archive"
      /\ storeStep' = IF manifest = Torn THEN "idle" ELSE "evict"
  BY DEF ArchiveBinary, Label
<1>2. current # None /\ Label \in DOMAIN archive /\ Label' = Label
  BY <1>1, LabelIsFile DEF RollInv, ArchivedFirst, Label, ArchivedAs
<1>3. archive'[Label] = current /\ DOMAIN archive' = DOMAIN archive
      /\ \A f \in DOMAIN archive : f # Label => archive'[f] = archive[f]
  BY <1>1, <1>2
<1>4. ManifestKept'
  <2>1. ASSUME manifest \notin {Torn, <<>>} PROVE Rollback' # None
    <3> DEFINE f == SanitizeVersion[manifest[Len(manifest)]]
    <3>1. manifest \in Seq(Archivable)
      BY <2>1 DEF RollInv, ManifestKept
    <3>2. manifest[Len(manifest)] \in Archivable
      BY <2>1, <3>1
    <3>3. f \in DOMAIN archive
      BY <3>2 DEF RollInv
    <3>4. Rollback = archive[f] /\ Rollback' = archive'[f] /\ Rollback # None
      BY <1>1, <2>1 DEF Rollback, RollInv, ManifestKept
    <3> HIDE DEF f
    <3> QED
      BY <1>2, <1>3, <3>3, <3>4
  <2> QED
    BY <1>1, <2>1 DEF RollInv, ManifestKept
<1>5. ArchivedFirst' /\ Replaced'
  BY <1>1, <1>2, <1>3 DEF RollInv, ArchivedFirst, Replaced
<1> QED
  BY <1>1, <1>3, <1>4, <1>5 DEF RollInv

LEMMA RollEvict ==
  ASSUME RollInv, Distinct, Evict
  PROVE  RollInv'
<1>1. /\ UNCHANGED <<current, version, manifest, storeFaults, displaced>>
      /\ storeStep = "evict" /\ storeStep' = "manifest"
      /\ archive' = [f \in DOMAIN archive |->
                       IF \E i \in 1..Excess : SanitizeVersion[Pushed[i]] = f THEN None
                       ELSE archive[f]]
  BY DEF Evict, Goto
<1>2. manifest # Torn /\ archive[Label] = current /\ current # None /\ Label' = Label
  BY <1>1 DEF RollInv, ArchivedFirst, Label, ArchivedAs
<1>3. archive'[Label] = current
  BY <1>1, <1>2, EvictSpares, LabelIsFile
<1>4. ManifestKept'
  <2>1. ASSUME manifest # <<>> PROVE Rollback' # None
    <3> DEFINE f == SanitizeVersion[manifest[Len(manifest)]]
    <3>1. manifest \in Seq(Archivable)
      BY <1>2 DEF RollInv, ManifestKept
    <3>2. manifest[Len(manifest)] \in Archivable
      BY <2>1, <3>1
    <3>3. f \in DOMAIN archive
      BY <3>2 DEF RollInv
    <3>4. ~ \E i \in 1..Excess : SanitizeVersion[Pushed[i]] = f
      BY <1>2, <2>1, EvictSpares
    <3>5. Rollback = archive[f] /\ Rollback' = archive'[f] /\ Rollback # None
      BY <1>1, <1>2, <2>1 DEF Rollback, RollInv, ManifestKept
    <3> HIDE DEF f
    <3>6. archive'[f] = archive[f]
      BY <1>1, <3>3, <3>4
    <3> QED
      BY <3>5, <3>6
  <2> QED
    BY <1>1, <2>1 DEF RollInv, ManifestKept
<1>5. ArchivedFirst' /\ Replaced'
  BY <1>1, <1>2, <1>3 DEF RollInv, ArchivedFirst, Replaced
<1> QED
  BY <1>1, <1>4, <1>5 DEF RollInv

(* The manifest ends in the version that was archived. *)
LEMMA RollManifest ==
  ASSUME RollInv, SaveManifest
  PROVE  RollInv'
<1> DEFINE n == Len(Pushed)
           s == SubSeq(Pushed, Excess + 1, n)
<1>1. /\ UNCHANGED <<current, version, archive, storeFaults, displaced>>
      /\ storeStep = "manifest" /\ storeStep' = "binary" /\ manifest' = s
  BY DEF SaveManifest, Goto
<1>2. manifest # Torn /\ archive[Label] = current /\ current # None
  BY <1>1 DEF RollInv, ArchivedFirst
<1>3. /\ Pushed \in Seq(Archivable) /\ NoTwice(Pushed) /\ n \in Nat /\ n > 0
      /\ Pushed[n] = ArchivedAs
  BY <1>2, PushedIs
<1>4. Excess \in Nat /\ Excess < n
  BY <1>3, StoreAssumption DEF Excess
<1>5. /\ s \in Seq(Archivable) /\ Len(s) = n - Excess /\ Len(s) > 0
      /\ \A i \in 1..Len(s) : s[i] = Pushed[Excess + i]
  BY <1>3, <1>4
<1> HIDE DEF s
<1>6. s[Len(s)] = ArchivedAs /\ s # <<>> /\ s # Torn
  <2>1. Len(s) \in 1..Len(s) /\ Excess + Len(s) = n
    BY <1>3, <1>4, <1>5
  <2>2. Torn \notin Seq(Archivable)
    BY StoreAssumption, ArchivableIs
  <2> QED
    BY <1>3, <1>5, <2>1, <2>2
<1>7. NoTwice(s)
  <2>1. ASSUME NEW i \in 1..Len(s), NEW j \in 1..Len(s), s[i] = s[j] PROVE i = j
    <3>1. Excess + i \in 1..n /\ Excess + j \in 1..n /\ i \in Int /\ j \in Int
      BY <1>3, <1>4, <1>5
    <3>2. Excess + i = Excess + j
      BY <1>3, <1>5, <2>1, <3>1 DEF NoTwice
    <3> QED
      BY <1>4, <3>1, <3>2
  <2> QED
    BY <2>1 DEF NoTwice
<1>8. Rollback' = current
  BY <1>1, <1>2, <1>6 DEF Rollback, Label
<1> QED
  BY <1>1, <1>2, <1>5, <1>6, <1>7, <1>8 DEF RollInv, ManifestKept, ArchivedFirst, Replaced

(* The three files of the new model. *)
LEMMA RollWrites ==
  ASSUME RollInv, StoreInv, WriteBinary \/ WriteVersion \/ WriteArchHash
  PROVE  RollInv'
<1>1. /\ UNCHANGED <<archive, manifest, storeFaults>> /\ storing \in Metadata
      /\ storeStep \in {"binary", "version", "architecture"}
      /\ storeStep' \in {"version", "architecture", "idle"}
  BY DEF WriteBinary, WriteVersion, WriteArchHash, Goto, StoreInv, Storing
<1>2. Rollback' = Rollback
  BY <1>1 DEF Rollback
<1>3. storing.hash # None /\ storing.version \in Versions
  BY <1>1, StoreAssumption DEF Versions
<1>4. /\ version' \in Versions \cup {None, Torn}
      /\ current' = current \/ current' # None
  BY <1>3 DEF RollInv, WriteBinary, WriteVersion, WriteArchHash
<1>5. ManifestKept' /\ ArchivedFirst'
  BY <1>1, <1>2, <1>4 DEF RollInv, ManifestKept, ArchivedFirst
<1>6. \/ storeStep = "binary" /\ displaced' = current
      \/ storeStep \in {"version", "architecture"} /\ displaced' = displaced
  BY DEF WriteBinary, WriteVersion, WriteArchHash, Goto
<1>7. Replaced'
  BY <1>1, <1>2, <1>6 DEF RollInv, Replaced
<1> QED
  BY <1>1, <1>4, <1>5, <1>7 DEF RollInv

(* A write that is cut short leaves a file, if only a torn one, or the manifest
   torn as a whole. *)
LEMMA RollFault ==
  ASSUME RollInv, StoreInv, StoreFault
  PROVE  RollInv'
<1>1. storeStep' = "idle" /\ storeFaults' > 0
  BY DEF StoreFault, StoreInv
<1>2. Replaced'
  BY <1>1 DEF Replaced
<1>3. version' \in Versions \cup {None, Torn} /\ DOMAIN archive' = DOMAIN archive
      /\ (current' = None => current = None) /\ manifest' \in {manifest, Torn}
      /\ (current = None => manifest' = manifest)
      /\ \A f \in DOMAIN archive : archive'[f] \in {archive[f], Torn}
  BY StoreAssumption DEF StoreFault, files, RollInv, ArchivedFirst
<1>4. ArchivedFirst'
  BY <1>1, <1>3 DEF RollInv, ArchivedFirst
<1>5. ASSUME manifest' \notin {Torn, <<>>} PROVE Rollback' # None
  <2> DEFINE f == SanitizeVersion[manifest[Len(manifest)]]
  <2>1. manifest' = manifest /\ manifest \in Seq(Archivable)
    BY <1>3, <1>5 DEF RollInv, ManifestKept
  <2>2. manifest[Len(manifest)] \in Archivable
    BY <1>5, <2>1
  <2>3. f \in DOMAIN archive
    BY <2>2 DEF RollInv
  <2>4. Rollback = archive[f] /\ Rollback' = archive'[f] /\ Rollback # None
    BY <1>5, <2>1 DEF Rollback, RollInv, ManifestKept
  <2> HIDE DEF f
  <2> QED
    BY <1>3, <2>3, <2>4, StoreAssumption
<1>6. manifest' = Torn \/ (manifest' \in Seq(Archivable) /\ NoTwice(manifest'))
  BY <1>3 DEF RollInv, ManifestKept
<1>7. ManifestKept'
  BY <1>5, <1>6 DEF ManifestKept
<1> QED
  BY <1>2, <1>3, <1>4, <1>7 DEF RollInv

(* Between two stores a rollback returns the model the last store replaced, as long
   as no call was cut short; and whatever was cut short, a readable manifest that
   is not empty leads to a file: for any retention of two versions or more. *)
THEOREM RollbackReturnsReplacedHolds == StoreSpec => []RollbackReturnsReplaced
<1>1. CASE Distinct
  <2>1. StoreInv /\ RollInv /\ [StoreNext]_storeVars => RollInv'
    <3> SUFFICES ASSUME StoreInv, RollInv, [StoreNext]_storeVars PROVE RollInv'
      OBVIOUS
    <3>1. CASE UNCHANGED storeVars
      BY <3>1 DEF storeVars, RollInv, ManifestKept, ArchivedFirst, Replaced, Rollback, Label,
                  ArchivedAs
    <3> QED
      BY <1>1, <3>1, RollValidate, RollArchive, RollEvict, RollManifest, RollWrites, RollFault
         DEF StoreNext
  <2>2. RollInv => RollbackReturnsReplaced
    BY DEF RollInv, ManifestKept, Replaced, RollbackReturnsReplaced
  <2> QED
    BY StoreAlwaysInv, RollInitInv, <2>1, <2>2, PTL DEF StoreSpec
<1>2. CASE ~Distinct
  <2>1. RollbackReturnsReplaced
    BY <1>2 DEF RollbackReturnsReplaced
  <2> QED
    BY <2>1, PTL
<1> QED
  BY <1>1, <1>2

-----------------------------------------------------------------------------
(* The types of the store, and the length of its manifest. *)

StoreTypes ==
  /\ StoreTypeOK /\ DOMAIN archive = {SanitizeVersion[v] : v \in Archivable}
  /\ manifest = Torn \/ (manifest \in Seq(Archivable) /\ NoTwice(manifest))
  /\ storeStep # "idle" => storing \in Metadata
  /\ storeStep \in {"evict", "manifest"} => manifest # Torn

\* What is left of the versions when those beyond the retention are dropped.
LEMMA NewManifestIs ==
  ASSUME StoreTypes, manifest # Torn
  PROVE  LET s == SubSeq(Pushed, Excess + 1, Len(Pushed))
         IN s \in Seq(Archivable) /\ NoTwice(s) /\ Len(s) <= RetentionCount
<1> DEFINE n == Len(Pushed)
           s == SubSeq(Pushed, Excess + 1, n)
<1>1. ArchivedAs \in Archivable
  BY ArchivableIs DEF StoreTypes, StoreTypeOK, ArchivedAs
<1>2. Pushed \in Seq(Archivable) /\ NoTwice(Pushed) /\ n \in Nat /\ n > 0
  BY <1>1, PushedVersions DEF StoreTypes
<1>3. Excess \in Nat /\ Excess < n /\ n - Excess <= RetentionCount
  BY <1>2, StoreAssumption DEF Excess
<1>4. /\ s \in Seq(Archivable) /\ Len(s) = n - Excess
      /\ \A i \in 1..Len(s) : s[i] = Pushed[Excess + i]
  BY <1>2, <1>3
<1> HIDE DEF s
<1>5. ASSUME NEW i \in 1..Len(s), NEW j \in 1..Len(s), s[i] = s[j] PROVE i = j
  <2>1. Excess + i \in 1..n /\ Excess + j \in 1..n /\ i \in Int /\ j \in Int
    BY <1>2, <1>3, <1>4
  <2>2. Excess + i = Excess + j
    BY <1>2, <1>4, <1>5, <2>1 DEF NoTwice
  <2> QED
    BY <1>3, <2>1, <2>2
<1> QED
  BY <1>3, <1>4, <1>5 DEF NoTwice, s

LEMMA StoreTypesStep ==
  ASSUME StoreTypes, [StoreNext]_storeVars
  PROVE  StoreTypes'
<1> USE StoreAssumption DEF StoreTypes, StoreTypeOK
<1>1. ASSUME NEW bytes \in Contents, NEW m \in Metadata, ValidateAndStore(bytes, m)
      PROVE  StoreTypes'
  BY <1>1 DEF ValidateAndStore, files
<1>2. CASE ArchiveBinary
  BY <1>2 DEF ArchiveBinary
<1>3. CASE Evict
  BY <1>3 DEF Evict, Goto
<1>4. CASE SaveManifest
  <2>1. manifest # Torn
    BY <1>4 DEF SaveManifest, Goto
  <2>2. manifest' \in Seq(Archivable) /\ NoTwice(manifest') /\ Len(manifest') <= RetentionCount
    BY <1>4, <2>1, NewManifestIs DEF SaveManifest
  <2> QED
    BY <1>4, <2>1, <2>2 DEF SaveManifest, Goto
<1>5. CASE WriteBinary
  BY <1>5 DEF WriteBinary, Goto
<1>6. CASE WriteVersion
  BY <1>6 DEF WriteVersion, Goto, Versions
<1>7. CASE WriteArchHash
  BY <1>7 DEF WriteArchHash, Goto, Architectures
<1>8. CASE StoreFault
  <2>1. /\ storeFaults' \in 0..MaxStoreFaults /\ storeStep' = "idle" /\ storing' = None
    BY <1>8 DEF StoreFault
  <2>2. /\ current' \in {current, Torn} /\ version' \in {version, Torn}
        /\ archHash' \in {archHash, None, Torn} /\ manifest' \in {manifest, Torn}
    BY <1>8 DEF StoreFault, files
  <2>3. /\ DOMAIN archive' = DOMAIN archive
        /\ \A f \in DOMAIN archive : archive'[f] \in {archive[f], Torn}
    BY <1>8 DEF StoreFault, files
  <2> QED
    BY <2>1, <2>2, <2>3
<1>9. CASE UNCHANGED storeVars
  BY <1>9 DEF storeVars
<1> QED
  BY <1>1, <1>2, <1>3, <1>4, <1>5, <1>6, <1>7, <1>8, <1>9 DEF StoreNext

(* What the files of the store contain, over crashes and failed writes in every
   place: a manifest that parses never lists more versions than are retained. *)
THEOREM StoreTypesHold == StoreSpec => []StoreTypeOK
<1>1. StoreInit => StoreTypes
  BY StoreAssumption DEF StoreInit, StoreTypes, StoreTypeOK, Archivable, NoTwice
<1>2. StoreTypes => StoreTypeOK
  BY DEF StoreTypes
<1> QED
  BY <1>1, <1>2, StoreTypesStep, PTL DEF StoreSpec

-----------------------------------------------------------------------------
(* The checkpoints: what their names say, and what the jobs still find. *)

\* The characters of a file name.
Chars == (UNION {Range(job) : job \in Jobs}) \cup Epochs \cup {Underscore}

\* The content of a file: the checkpoint its name says, or what a cut left of it.
Holds(content, j, e, faults) ==
  \/ content = Corrupted /\ faults > 0
  \/ content \in Checkpoint /\ content.jobId = j /\ content.epoch = e

Named == \A n \in DOMAIN dir : \E j \in Jobs, e \in Epochs :
           n = FileName(j, e) /\ Holds(dir[n], j, e, ckptFaults)

\* What a job saved and may still rely on is in the file of its epoch.
Stored(job, c) ==
  FileName(job, c.epoch) \in DOMAIN dir /\ dir[FileName(job, c.epoch)] = c
KeptStored ==
  ckptFaults = 0 =>
    \A job \in Jobs : Apart(job) =>
      \A c \in kept[job] : now - c.timestamp <= Retention => Stored(job, c)

CkptTypes ==
  /\ IsFiniteSet(DOMAIN dir)
  /\ now \in 0..MaxNow /\ ckptFaults \in 0..MaxCkptFaults
  /\ kept \in [Jobs -> SUBSET Checkpoint]

CkptInv == CkptTypes /\ Named /\ KeptStored

-----------------------------------------------------------------------------
LEMMA CharsAre == Underscore \in Chars /\ Epochs \subseteq Chars
  BY DEF Chars

(* A sanitized id is a name as long as the id. *)
LEMMA IdIsName ==
  ASSUME NEW job \in Jobs
  PROVE  SanitizeId(job) \in Seq(Chars) /\ Len(SanitizeId(job)) \in Nat
<1>1. job \in Seq(Range(job)) /\ Range(job) \subseteq Chars
  BY CheckpointAssumption DEF Chars
<1>2. job \in Seq(Chars)
  BY <1>1, SeqMonotonic
<1>3. DOMAIN job = 1..Len(job) /\ Len(job) \in Nat /\ \A i \in 1..Len(job) : job[i] \in Chars
  BY <1>2
<1>4. \A i \in 1..Len(job) : (IF job[i] \in Unsafe THEN Underscore ELSE job[i]) \in Chars
  BY <1>3, CharsAre
<1>5. SanitizeId(job) = [i \in 1..Len(job) |-> IF job[i] \in Unsafe THEN Underscore ELSE job[i]]
  BY <1>3 DEF SanitizeId
<1>6. SanitizeId(job) \in Seq(Chars)
  BY <1>3, <1>4, <1>5
<1> QED
  BY <1>6

(* A file name, character by character. *)
LEMMA NameOf ==
  ASSUME NEW job \in Jobs, NEW e \in Epochs
  PROVE  LET id == SanitizeId(job)
             n == FileName(job, e)
         IN /\ Prefix(job) \in Seq(Chars) /\ n \in Seq(Chars)
            /\ Len(Prefix(job)) = Len(id) + 1 /\ Len(n) = Len(id) + 2
            /\ Prefix(job)[Len(id) + 1] = Underscore
            /\ n[Len(id) + 1] = Underscore /\ n[Len(id) + 2] = e
            /\ \A i \in 1..Len(id) : Prefix(job)[i] = id[i] /\ n[i] = id[i]
            /\ Last(n) = e
<1> DEFINE id == SanitizeId(job)
<1>1. id \in Seq(Chars) /\ Len(id) \in Nat /\ Underscore \in Chars /\ e \in Chars
  BY IdIsName, CharsAre
<1> HIDE DEF id
<1> DEFINE p == Append(id, Underscore)
           n == Append(p, e)
<1>2. /\ p \in Seq(Chars) /\ Len(p) = Len(id) + 1 /\ p[Len(id) + 1] = Underscore
      /\ \A i \in 1..Len(id) : p[i] = id[i]
  BY <1>1
<1> HIDE DEF p
<1>3. /\ n \in Seq(Chars) /\ Len(n) = Len(p) + 1 /\ n[Len(p) + 1] = e
      /\ \A i \in 1..Len(p) : n[i] = p[i]
  BY <1>1, <1>2
<1> HIDE DEF n
<1>4. n[Len(id) + 1] = Underscore /\ \A i \in 1..Len(id) : n[i] = id[i]
  BY <1>1, <1>2, <1>3
<1>5. Prefix(job) = p /\ FileName(job, e) = n
  BY DEF Prefix, FileName, p, n, id
<1>6. Last(n) = e /\ Len(n) = Len(id) + 2
  BY <1>1, <1>2, <1>3 DEF Last
<1> QED
  BY <1>1, <1>2, <1>3, <1>4, <1>5, <1>6 DEF id

(* A file name says the epoch, and the job as far as sanitize_id leaves it. *)
LEMMA NameSays ==
  ASSUME NEW j \in Jobs, NEW k \in Jobs, NEW d \in Epochs, NEW e \in Epochs,
         FileName(j, d) = FileName(k, e)
  PROVE  SanitizeId(j) = SanitizeId(k) /\ d = e
<1> DEFINE id == SanitizeId(j)
           other == SanitizeId(k)
           n == FileName(j, d)
<1>1. id \in Seq(Chars) /\ other \in Seq(Chars) /\ Len(id) \in Nat /\ Len(other) \in Nat
  BY IdIsName
<1>2. Len(n) = Len(id) + 2 /\ Last(n) = d /\ \A i \in 1..Len(id) : n[i] = id[i]
  BY NameOf
<1>3. Len(n) = Len(other) + 2 /\ Last(n) = e /\ \A i \in 1..Len(other) : n[i] = other[i]
  BY NameOf
<1> HIDE DEF id, other, n
<1>4. Len(id) = Len(other)
  BY <1>1, <1>2, <1>3
<1>5. id = other
  BY <1>1, <1>2, <1>3, <1>4, SeqEqual
<1> QED
  BY <1>2, <1>3, <1>5 DEF id, other

(* The files of a job that stands apart do not begin like another job's. *)
LEMMA ApartNames ==
  ASSUME NEW job \in Jobs, NEW other \in Jobs, job # other, Apart(job), NEW e \in Epochs
  PROVE  ~IsPrefix(Prefix(other), FileName(job, e))
<1> DEFINE s == SanitizeId(job)
           t == SanitizeId(other)
           n == FileName(job, e)
           p == Prefix(other)
<1>1. s \in Seq(Chars) /\ t \in Seq(Chars) /\ Len(s) \in Nat /\ Len(t) \in Nat
  BY IdIsName
<1>2. s # t /\ ~IsPrefix(p, s)
  BY DEF Apart
<1>3. /\ n \in Seq(Chars) /\ Len(n) = Len(s) + 2
      /\ n[Len(s) + 1] = Underscore /\ n[Len(s) + 2] = e
      /\ \A i \in 1..Len(s) : n[i] = s[i]
  BY NameOf
<1>4. /\ p \in Seq(Chars) /\ Len(p) = Len(t) + 1 /\ p[Len(t) + 1] = Underscore
      /\ \A i \in 1..Len(t) : p[i] = t[i]
  BY NameOf
<1> HIDE DEF s, t, n, p
<1>5. SUFFICES ASSUME IsPrefix(p, n) PROVE FALSE
  BY DEF n, p
<1>6. Len(t) + 1 <= Len(s) + 2 /\ SubSeq(p, 1, Len(p)) = SubSeq(n, 1, Len(p))
  BY <1>3, <1>4, <1>5 DEF IsPrefix
<1>7. \A i \in 1..Len(p) : p[i] = n[i]
  <2>1. ASSUME NEW i \in 1..Len(p) PROVE p[i] = n[i]
    <3>1. SubSeq(p, 1, Len(p))[i] = p[i]
      BY <1>1, <1>4
    <3>2. SubSeq(n, 1, Len(p))[i] = n[i]
      BY <1>1, <1>3, <1>4, <1>6
    <3> QED
      BY <1>6, <3>1, <3>2
  <2> QED
    BY <2>1
<1>8. CASE Len(t) = Len(s) + 1
  <2>1. p[Len(t) + 1] = n[Len(s) + 2]
    BY <1>1, <1>4, <1>7, <1>8
  <2> QED
    BY <1>3, <1>4, <2>1, CheckpointAssumption
<1>9. CASE Len(t) = Len(s)
  <2>1. \A i \in 1..Len(s) : s[i] = t[i]
    BY <1>1, <1>3, <1>4, <1>7, <1>9
  <2> QED
    BY <1>1, <1>2, <1>9, <2>1, SeqEqual
<1>10. CASE Len(t) < Len(s)
  <2>1. Len(p) <= Len(s)
    BY <1>1, <1>4, <1>10
  <2>2. \A i \in 1..Len(p) : p[i] = s[i]
    BY <1>1, <1>3, <1>4, <1>7, <2>1
  <2>3. SubSeq(p, 1, Len(p)) = SubSeq(s, 1, Len(p))
    BY <1>1, <1>4, <2>1, <2>2
  <2> QED
    BY <1>2, <2>1, <2>3 DEF IsPrefix
<1> QED
  BY <1>1, <1>6, <1>8, <1>9, <1>10

-----------------------------------------------------------------------------
(* A finite, nonempty set of files has one with the highest epoch. *)
LEMMA HighestName ==
  ASSUME NEW S, IsFiniteSet(S), S # {}, \A n \in S : Last(n) \in Nat
  PROVE  \E n \in S : \A o \in S : Last(o) <= Last(n)
<1> DEFINE G == {T \in SUBSET S : T = {} \/ \E n \in T : \A o \in T : Last(o) <= Last(n)}
<1>1. {} \in G
  OBVIOUS
<1>2. ASSUME NEW T \in SUBSET S, NEW x \in S \ T, T \in G PROVE T \cup {x} \in G
  <2>1. CASE T = {}
    BY <2>1
  <2>2. ASSUME NEW n \in T, \A o \in T : Last(o) <= Last(n) PROVE T \cup {x} \in G
    <3>1. Last(n) \in Nat /\ Last(x) \in Nat /\ \A o \in T : Last(o) \in Nat
      BY <2>2
    <3>2. CASE Last(x) <= Last(n)
      <4>1. \A o \in T \cup {x} : Last(o) <= Last(n)
        BY <2>2, <3>2
      <4> QED
        BY <2>2, <4>1
    <3>3. CASE Last(n) < Last(x)
      <4>1. \A o \in T \cup {x} : Last(o) <= Last(x)
        BY <2>2, <3>1, <3>3
      <4> QED
        BY <4>1
    <3> QED
      BY <3>1, <3>2, <3>3
  <2> QED
    BY <1>2, <2>1, <2>2
<1> HIDE DEF G
<1>3. S \in G
  BY <1>1, <1>2, FiniteSetInduction
<1> QED
  BY <1>3 DEF G

(* find_latest, if it finds any file of the job, returns the content of the one
   with the highest epoch. *)
LEMMA LatestIsHighest ==
  ASSUME CkptInv, NEW job \in Jobs, Candidates(job) # {}
  PROVE  \E e \in Epochs :
           /\ FileName(job, e) \in DOMAIN dir
           /\ FindLatest(job) = dir[FileName(job, e)]
           /\ \E k \in Jobs :
                SanitizeId(k) = SanitizeId(job) /\ Holds(dir[FileName(job, e)], k, e, ckptFaults)
           /\ \A o \in Candidates(job) : Last(o) <= e
<1> DEFINE C == Candidates(job)
           n == CHOOSE m \in C : \A o \in C : Last(o) <= Last(m)
<1>1. C \subseteq DOMAIN dir /\ IsFiniteSet(C)
  BY FS_Subset DEF Candidates, CkptInv, CkptTypes
<1>2. \A m \in C : \E e \in Epochs : m = FileName(job, e)
  BY DEF Candidates, FileName
<1>3. \A m \in C : Last(m) \in Nat
  BY <1>2, NameOf, CheckpointAssumption
<1>4. n \in C /\ \A o \in C : Last(o) <= Last(n)
  <2> HIDE DEF C
  <2>1. \E m \in C : \A o \in C : Last(o) <= Last(m)
    BY <1>1, <1>3, HighestName DEF C
  <2> QED
    BY <2>1
<1>5. FindLatest(job) = dir[n]
  BY DEF FindLatest
<1> HIDE DEF C, n
<1>6. PICK e \in Epochs : n = FileName(job, e)
  BY <1>2, <1>4
<1>7. PICK k \in Jobs, d \in Epochs : n = FileName(k, d) /\ Holds(dir[n], k, d, ckptFaults)
  BY <1>1, <1>4 DEF CkptInv, Named
<1>8. SanitizeId(k) = SanitizeId(job) /\ d = e
  <2>1. FileName(k, d) = FileName(job, e)
    BY <1>6, <1>7
  <2> QED
    BY <2>1, NameSays
<1>9. Last(n) = e
  BY <1>6, NameOf
<1> QED
  BY <1>1, <1>4, <1>5, <1>6, <1>7, <1>8, <1>9 DEF C

-----------------------------------------------------------------------------
LEMMA CkptInitInv == CkptInit => CkptInv
<1> SUFFICES ASSUME CkptInit PROVE CkptInv
  OBVIOUS
<1>1. DOMAIN dir = {}
  BY DEF CkptInit
<1>2. CkptTypes
  BY <1>1, FS_EmptySet, CheckpointAssumption DEF CkptInit, CkptTypes
<1> QED
  BY <1>1, <1>2 DEF CkptInit, CkptInv, Named, KeptStored

(* A file that is written, whole or in part. *)
LEMMA SaveInv ==
  ASSUME CkptInv, NEW job \in Jobs, NEW epoch \in Epochs, Save(job, epoch)
  PROVE  CkptInv'
<1> DEFINE checkpoint == [jobId |-> job, epoch |-> epoch, timestamp |-> now]
           name == FileName(job, epoch)
<1>1. PICK content :
        /\ dir' = [n \in DOMAIN dir \cup {name} |-> IF n = name THEN content ELSE dir[n]]
        /\ Holds(content, job, epoch, ckptFaults')
        /\ ckptFaults' \in 0..MaxCkptFaults /\ (ckptFaults > 0 => ckptFaults' > 0)
        /\ \/ content = checkpoint /\ ckptFaults' = ckptFaults
              /\ kept' = [kept EXCEPT ![job] = {c \in @ : c.epoch # epoch} \cup {checkpoint}]
           \/ ckptFaults' > 0 /\ kept' = kept
  <2>1. CASE /\ dir' = With(name, checkpoint)
             /\ kept' = [kept EXCEPT ![job] = {c \in @ : c.epoch # epoch} \cup {checkpoint}]
             /\ UNCHANGED ckptFaults
    <3>1. checkpoint \in Checkpoint /\ checkpoint.jobId = job /\ checkpoint.epoch = epoch
      BY DEF CkptInv, CkptTypes, Checkpoint
    <3>2. Holds(checkpoint, job, epoch, ckptFaults')
      BY <3>1 DEF Holds
    <3> HIDE DEF checkpoint
    <3> QED
      BY <2>1, <3>2 DEF With, CkptInv, CkptTypes
  <2>2. CASE CkptFault /\ dir' = With(name, Corrupted) /\ UNCHANGED kept
    <3>1. ckptFaults' \in 0..MaxCkptFaults /\ ckptFaults' > 0
      BY <2>2, CheckpointAssumption DEF CkptFault, CkptInv, CkptTypes
    <3>2. Holds(Corrupted, job, epoch, ckptFaults')
      BY <3>1 DEF Holds
    <3> QED
      BY <2>2, <3>1, <3>2 DEF With
  <2> QED
    BY <2>1, <2>2 DEF Save
<1>2. now' = now /\ checkpoint \in Checkpoint /\ checkpoint.epoch = epoch
  BY DEF Save, CkptInv, CkptTypes, Checkpoint
<1> HIDE DEF checkpoint, name
<1>3. DOMAIN dir' = DOMAIN dir \cup {name} /\ dir'[name] = content
      /\ \A n \in DOMAIN dir : n # name => dir'[n] = dir[n]
  BY <1>1
<1>4. CkptTypes'
  <2>1. IsFiniteSet(DOMAIN dir')
    BY <1>3, FS_AddElement DEF CkptInv, CkptTypes
  <2>2. kept' \in [Jobs -> SUBSET Checkpoint]
    BY <1>1, <1>2 DEF CkptInv, CkptTypes
  <2> QED
    BY <1>1, <1>2, <2>1, <2>2 DEF CkptInv, CkptTypes
<1>5. Named'
  <2>1. ASSUME NEW n \in DOMAIN dir', n # name
        PROVE  \E j \in Jobs, e \in Epochs : n = FileName(j, e) /\ Holds(dir'[n], j, e, ckptFaults')
    <3>1. n \in DOMAIN dir /\ dir'[n] = dir[n]
      BY <1>3, <2>1
    <3>2. PICK j \in Jobs, e \in Epochs : n = FileName(j, e) /\ Holds(dir[n], j, e, ckptFaults)
      BY <3>1 DEF CkptInv, Named
    <3> QED
      BY <1>1, <3>1, <3>2 DEF Holds
  <2>2. name = FileName(job, epoch) /\ Holds(dir'[name], job, epoch, ckptFaults')
    BY <1>1, <1>3 DEF name
  <2> QED
    BY <2>1, <2>2 DEF Named
<1>6. KeptStored'
  <2> SUFFICES ASSUME ckptFaults' = 0, NEW j \in Jobs, Apart(j), NEW c \in kept'[j],
                      now - c.timestamp <= Retention
               PROVE  Stored(j, c)'
    BY <1>2 DEF KeptStored
  <2>1. /\ content = checkpoint /\ ckptFaults = 0
        /\ kept' = [kept EXCEPT ![job] = {d \in @ : d.epoch # epoch} \cup {checkpoint}]
        /\ kept \in [Jobs -> SUBSET Checkpoint]
    BY <1>1 DEF CkptInv, CkptTypes
  <2>2. CASE j = job /\ c = checkpoint
    BY <1>2, <1>3, <2>1, <2>2 DEF Stored, name
  <2>3. CASE ~(j = job /\ c = checkpoint)
    <3>1. c \in kept[j] /\ (j = job => c.epoch # epoch)
      BY <2>1, <2>3
    <3>2. Stored(j, c)
      BY <2>1, <3>1 DEF CkptInv, KeptStored
    <3>3. c.epoch \in Epochs
      BY <2>1, <3>1 DEF Checkpoint
    <3>4. FileName(j, c.epoch) # name
      BY <3>1, <3>3, NameSays DEF Apart, name
    <3> QED
      BY <1>3, <3>2, <3>4 DEF Stored
  <2> QED
    BY <2>2, <2>3
<1> QED
  BY <1>4, <1>5, <1>6 DEF CkptInv

(* Files that are removed leave the others. *)
LEMMA RemovedTypes ==
  ASSUME CkptTypes, Named, NEW removed, dir' = Without(removed),
         ckptFaults' \in 0..MaxCkptFaults, ckptFaults > 0 => ckptFaults' > 0,
         now' = now, kept' \in [Jobs -> SUBSET Checkpoint]
  PROVE  /\ CkptTypes' /\ Named' /\ DOMAIN dir' = DOMAIN dir \ removed
         /\ \A n \in DOMAIN dir' : dir'[n] = dir[n]
<1>1. DOMAIN dir' = DOMAIN dir \ removed /\ \A n \in DOMAIN dir' : dir'[n] = dir[n]
  BY DEF Without
<1>2. CkptTypes'
  BY <1>1, FS_Subset DEF CkptTypes
<1>3. ASSUME NEW n \in DOMAIN dir'
      PROVE  \E j \in Jobs, e \in Epochs : n = FileName(j, e) /\ Holds(dir'[n], j, e, ckptFaults')
  <2>1. n \in DOMAIN dir /\ dir'[n] = dir[n]
    BY <1>1
  <2>2. PICK j \in Jobs, e \in Epochs : n = FileName(j, e) /\ Holds(dir[n], j, e, ckptFaults)
    BY <2>1 DEF Named
  <2> QED
    BY <2>1, <2>2 DEF Holds
<1> QED
  BY <1>1, <1>2, <1>3 DEF Named

(* A delete takes no checkpoint of another job that stands apart. *)
LEMMA DeleteInv ==
  ASSUME CkptInv, NEW job \in Jobs, DeleteForJob(job)
  PROVE  CkptInv'
<1> DEFINE own == {n \in DOMAIN dir : IsPrefix(Prefix(job), n)}
<1>1. PICK removed \in SUBSET own :
        /\ dir' = Without(removed)
        /\ UNCHANGED ckptFaults \/ CkptFault
  BY DEF DeleteForJob
<1>2. now' = now /\ kept' = [kept EXCEPT ![job] = {}] /\ CkptTypes /\ Named
  BY DEF DeleteForJob, CkptInv
<1>3. /\ ckptFaults' \in 0..MaxCkptFaults /\ (ckptFaults > 0 => ckptFaults' > 0)
      /\ ckptFaults' = 0 => ckptFaults = 0
      /\ kept' \in [Jobs -> SUBSET Checkpoint]
  BY <1>1, <1>2, CheckpointAssumption DEF CkptFault, CkptTypes
<1>4. /\ CkptTypes' /\ Named' /\ DOMAIN dir' = DOMAIN dir \ removed
      /\ \A n \in DOMAIN dir' : dir'[n] = dir[n]
  BY <1>1, <1>2, <1>3, RemovedTypes
<1>5. KeptStored'
  <2> SUFFICES ASSUME ckptFaults' = 0, NEW j \in Jobs, Apart(j), NEW c \in kept'[j],
                      now - c.timestamp <= Retention
               PROVE  Stored(j, c)'
    BY <1>2 DEF KeptStored
  <2>1. j # job /\ c \in kept[j] /\ kept \in [Jobs -> SUBSET Checkpoint]
    BY <1>2 DEF CkptTypes
  <2>2. Stored(j, c)
    BY <1>3, <2>1 DEF CkptInv, KeptStored
  <2>3. c.epoch \in Epochs
    BY <2>1 DEF Checkpoint
  <2>4. ~IsPrefix(Prefix(job), FileName(j, c.epoch))
    BY <2>1, <2>3, ApartNames
  <2>5. FileName(j, c.epoch) \notin removed
    BY <1>1, <2>4
  <2> QED
    BY <1>4, <2>2, <2>5 DEF Stored
<1> QED
  BY <1>4, <1>5 DEF CkptInv

(* What cleanup_old removes no job relies on. *)
LEMMA CleanupInv == CkptInv /\ CleanupOld => CkptInv'
<1> SUFFICES ASSUME CkptInv, CleanupOld PROVE CkptInv'
  OBVIOUS
<1> DEFINE removed == {n \in DOMAIN dir : dir[n] # Corrupted /\ now - dir[n].timestamp > Retention}
<1>1. dir' = Without(removed) /\ UNCHANGED <<now, ckptFaults, kept>> /\ CkptTypes /\ Named
  BY DEF CleanupOld, CkptInv
<1>2. ckptFaults' \in 0..MaxCkptFaults /\ kept' \in [Jobs -> SUBSET Checkpoint]
  BY <1>1 DEF CkptTypes
<1>3. /\ CkptTypes' /\ Named' /\ DOMAIN dir' = DOMAIN dir \ removed
      /\ \A n \in DOMAIN dir' : dir'[n] = dir[n]
  <2> HIDE DEF removed
  <2> QED
    BY <1>1, <1>2, RemovedTypes
<1>4. KeptStored'
  <2> SUFFICES ASSUME ckptFaults = 0, NEW j \in Jobs, Apart(j), NEW c \in kept[j],
                      now - c.timestamp <= Retention
               PROVE  Stored(j, c)'
    BY <1>1 DEF KeptStored
  <2>1. Stored(j, c)
    BY DEF CkptInv, KeptStored
  <2>2. c.timestamp \in Nat /\ now \in Nat
    BY <1>1, CheckpointAssumption DEF CkptTypes, Checkpoint
  <2>3. FileName(j, c.epoch) \notin removed
    BY <2>1, <2>2, CheckpointAssumption DEF Stored
  <2> QED
    BY <1>3, <2>1, <2>3 DEF Stored
<1> QED
  BY <1>3, <1>4 DEF CkptInv

(* Time only makes checkpoints older. *)
LEMMA TickInv == CkptInv /\ Tick => CkptInv'
<1> SUFFICES ASSUME CkptInv, Tick PROVE CkptInv'
  OBVIOUS
<1>1. now \in 0..MaxNow /\ now' = now + 1 /\ now < MaxNow /\ UNCHANGED <<dir, ckptFaults, kept>>
  BY DEF Tick, CkptInv, CkptTypes
<1>2. CkptTypes' /\ Named'
  BY <1>1, CheckpointAssumption DEF CkptInv, CkptTypes, Named, Holds
<1>3. KeptStored'
  <2> SUFFICES ASSUME ckptFaults = 0, NEW j \in Jobs, Apart(j), NEW c \in kept[j],
                      now' - c.timestamp <= Retention
               PROVE  Stored(j, c)
    BY <1>1 DEF KeptStored, Stored
  <2>1. c.timestamp \in Nat
    BY CheckpointAssumption DEF CkptInv, CkptTypes, Checkpoint
  <2>2. now - c.timestamp <= Retention
    BY <1>1, <2>1, CheckpointAssumption
  <2> QED
    BY <2>2 DEF CkptInv, KeptStored
<1> QED
  BY <1>2, <1>3 DEF CkptInv

LEMMA CkptAlwaysInv == CkptSpec => []CkptInv
<1>1. CkptInv /\ [CkptNext]_ckptVars => CkptInv'
  <2> SUFFICES ASSUME CkptInv, [CkptNext]_ckptVars PROVE CkptInv'
    OBVIOUS
  <2>1. CASE UNCHANGED ckptVars
    BY <2>1 DEF ckptVars, CkptInv, CkptTypes, Named, Holds, KeptStored, Stored
  <2> QED
    BY <2>1, SaveInv, DeleteInv, CleanupInv, TickInv DEF CkptNext
<1> QED
  BY CkptInitInv, <1>1, PTL DEF CkptSpec

(* What the files contain, and what their names may be. *)
THEOREM CkptTypesHold == CkptSpec => []CkptTypeOK
<1>1. CkptInv => CkptTypeOK
  BY DEF CkptInv, CkptTypes, Named, Holds, CkptTypeOK
<1> QED
  BY CkptAlwaysInv, <1>1, PTL

(* find_latest never returns another job's checkpoint, whatever jobs are saved,
   deleted, cut short and cleaned up: unless two ids are the same once sanitized. *)
THEOREM LatestIsOwnHolds == CkptSpec => []LatestIsOwn
<1>1. CkptInv => LatestIsOwn
  <2> SUFFICES ASSUME CkptInv, NEW job \in Jobs, Candidates(job) # {},
                      FindLatest(job) # Corrupted
               PROVE  SanitizeId(FindLatest(job).jobId) = SanitizeId(job)
    BY DEF LatestIsOwn
  <2> QED
    BY LatestIsHighest DEF Holds
<1> QED
  BY CkptAlwaysInv, <1>1, PTL

(* A job whose files no other job's delete can take resumes from a checkpoint no
   earlier than any it saved within the retention time. *)
THEOREM ResumesFromLatestHolds == CkptSpec => []ResumesFromLatest
<1>1. CkptInv => ResumesFromLatest
  <2> SUFFICES ASSUME CkptInv, ckptFaults = 0, NEW job \in Jobs, Apart(job),
                      NEW c \in kept[job], now - c.timestamp <= Retention
               PROVE  Candidates(job) # {} /\ FindLatest(job).epoch >= c.epoch
    BY DEF ResumesFromLatest
  <2> DEFINE n == FileName(job, c.epoch)
  <2>1. Stored(job, c)
    BY DEF CkptInv, KeptStored
  <2>2. c.epoch \in Epochs /\ c.epoch \in Nat
    <3>1. c \in Checkpoint
      BY DEF CkptInv, CkptTypes
    <3> QED
      BY <3>1, CheckpointAssumption DEF Checkpoint
  <2>3. n \in Candidates(job) /\ Last(n) = c.epoch
    BY <2>1, <2>2, NameOf DEF Stored, Candidates, FileName
  <2> HIDE DEF n
  <2>4. PICK e \in Epochs :
          /\ FindLatest(job).epoch = e
          /\ \A o \in Candidates(job) : Last(o) <= e
    BY <2>3, LatestIsHighest DEF Holds
  <2> QED
    BY <2>2, <2>3, <2>4, CheckpointAssumption
<1> QED
  BY CkptAlwaysInv, <1>1, PTL

=============================================================================
