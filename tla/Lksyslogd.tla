----------------------------- MODULE Lksyslogd -----------------------------
(***************************************************************************)
(* lksyslogd (src/bin/lksyslogd.rs), which log/run starts to write what a  *)
(* service prints into one or more log directories: one thread that reads  *)
(* lines from the pipe and, for each directory in turn, renames the full   *)
(* "current" to an archive, removes the oldest archives, and appends.      *)
(*                                                                         *)
(* A SIGKILL (lksys kills the logger when it exits) or an I/O error, which *)
(* main() returns, ends it between any two of these steps; the next one    *)
(* finds the directories as they are.  Only one logger works in a          *)
(* directory, so what it has written of a line can be seen only when it    *)
(* dies there; and the clock never goes back, so that the order of the     *)
(* archives' names is the order of their rotation.                         *)
(***************************************************************************)
EXTENDS Integers, Sequences, FiniteSets, Functions

CONSTANTS
    Outputs,     \* the number of directories
    Lengths,     \* lengths a line may have, with its newline
    Limits,      \* values of "s" in config
    Keeps,       \* values of "n" in config
    Stamp,       \* length of a time stamp (0 without -t)
    MaxLines, MaxSignals, MaxDeaths    \* bounds

ASSUME LksyslogdAssumption ==
    /\ Outputs \in Nat \ {0} /\ Lengths \subseteq Nat \ {0}
    /\ Limits \subseteq Nat \ {0} /\ Keeps \subseteq Nat /\ Keeps # {}
    /\ {Stamp, MaxLines, MaxSignals, MaxDeaths} \subseteq Nat

VARIABLES
    pc,         \* where the logger is; "off": there is none
    out,        \* the directory it is working on
    line,       \* the line it has read
    lines,      \* the number of lines loggers have read so far; what is still
                \* in the buffer of one that ends is lost uncounted
    current,    \* for each directory, the entries in its file "current"
    archives,   \* and its files "@...", in the order of their names
    size,       \* LogDirectory.size
    keep,       \* the "n" of the rotation under way
    term, hup,  \* the flags TERMINATE and RELOAD
    signals, deaths    \* how many there have been

vars == <<pc, out, line, lines, current, archives, size, keep, term, hup,
          signals, deaths>>
disk == <<current, archives>>
others == <<lines, keep, signals, deaths>>

Dirs == 1..Outputs

-----------------------------------------------------------------------------
(* Files: sequences of entries, whole when their newline is there *)

\* With or without its time stamp, an entry has so many bytes of the text.
Part(l, bytes) == [n |-> l.n, length |-> bytes + 1, whole |-> FALSE]
Entry(l) == Part(l, l.length - 1)

\* The bytes of an entry, without its time stamp.
Payload(e) == IF e.whole THEN e.length ELSE e.length - 1
PayloadOf(file) ==
    LET sum[i \in 0..Len(file)] ==
            IF i = 0 THEN 0 ELSE sum[i - 1] + Payload(file[i])
    IN  sum[Len(file)]
BytesOf(file) == PayloadOf(file) + Stamp * Len(file)

\* The files of the directory d, oldest first, and what they hold.
Files(d) == Append(archives[d], current[d])
EntriesOf(files) == UNION {Range(files[i]) : i \in DOMAIN files}
Entries(d) == EntriesOf(Files(d))
Numbers(d) == {e.n : e \in Entries(d)}

-----------------------------------------------------------------------------
(* The logger *)

Start ==
    /\ pc = "off"
    /\ pc' = "open"
    /\ out' = 1
    /\ UNCHANGED <<disk, others, line, size, term, hup>>

\* Mutant: the file is emptied as it is opened.
OpenTruncating ==
    /\ pc = "open"
    /\ size' = [size EXCEPT ![out] = 0]
    /\ current' = [current EXCEPT ![out] = <<>>]
    /\ IF out < Outputs THEN out' = out + 1 /\ UNCHANGED pc
       ELSE pc' = "read" /\ UNCHANGED out
    /\ UNCHANGED <<archives, others, line, term, hup>>

\* Mutant: what is in the file already is not counted.
OpenFromZero ==
    /\ pc = "open"
    /\ size' = [size EXCEPT ![out] = 0]
    /\ IF out < Outputs THEN out' = out + 1 /\ UNCHANGED pc
       ELSE pc' = "read" /\ UNCHANGED out
    /\ UNCHANGED <<disk, others, line, term, hup>>

\* LogDirectory::open(): current is created or appended to; its size on disk
\* has the time stamps in it, which write() does not count.
Open ==
    /\ pc = "open"
    /\ size' = [size EXCEPT ![out] = BytesOf(current[out])]
    /\ IF out < Outputs THEN out' = out + 1 /\ UNCHANGED pc
       ELSE pc' = "read" /\ UNCHANGED out
    /\ UNCHANGED <<disk, others, line, term, hup>>

\* read_until() returns a line.  A signal does not interrupt it.
Read ==
    /\ pc = "read"
    /\ lines < MaxLines
    /\ pc' = "got"
    /\ lines' = lines + 1
    /\ \E len \in Lengths : line' = [n |-> lines', length |-> len]
    /\ UNCHANGED <<out, disk, size, keep, term, hup, signals, deaths>>

Exits ==
    /\ pc' = "off"
    /\ term' = FALSE /\ hup' = FALSE
    /\ UNCHANGED <<out, disk, others, line, size>>

\* Every writer has closed the pipe.
EndOfInput == pc = "read" /\ Exits

\* take_terminate() and take_reload(): either drops the line in hand.
Flags ==
    /\ pc = "got"
    /\ IF term THEN Exits
       ELSE /\ pc' = IF hup THEN "read" ELSE "check"
            /\ hup' = FALSE
            /\ out' = 1
            /\ UNCHANGED <<disk, others, line, size, term>>

\* write(): config is read again for every line.
Check ==
    /\ pc = "check"
    /\ \E limit \in Limits, k \in Keeps :
          IF size[out] + line.length > limit
          THEN pc' = "rename" /\ keep' = k
          ELSE pc' = "text" /\ UNCHANGED keep
    /\ UNCHANGED <<out, disk, line, lines, size, term, hup, signals, deaths>>

\* rotate(): current becomes the newest archive, under the time of now.
Rename ==
    /\ pc = "rename"
    /\ pc' = "prune"
    /\ archives' = [archives EXCEPT ![out] = Append(@, current[out])]
    /\ current' = [current EXCEPT ![out] = <<>>]
    /\ UNCHANGED <<others, out, line, size, term, hup>>

\* Mutants: the newest goes; one too many stays.
PruneNewest ==
    /\ pc = "prune"
    /\ Len(archives[out]) > keep
    /\ archives' = [archives EXCEPT ![out] = SubSeq(@, 1, Len(@) - 1)]
    /\ UNCHANGED <<others, pc, out, line, current, size, term, hup>>
Excess(d) == Len(archives[d]) > keep + 1

Surplus(d) == Len(archives[d]) > keep

\* The oldest archive is removed.
Prune ==
    /\ pc = "prune"
    /\ Surplus(out)
    /\ archives' = [archives EXCEPT ![out] = Tail(@)]
    /\ UNCHANGED <<others, pc, out, line, current, size, term, hup>>

\* A new current is opened, and the size counted is 0.
Create ==
    /\ pc = "prune"
    /\ ~Surplus(out)
    /\ pc' = "text"
    /\ size' = [size EXCEPT ![out] = 0]
    /\ UNCHANGED <<disk, others, out, line, term, hup>>

GoesOn == IF out < Outputs THEN out' = out + 1 /\ pc' = "check"
          ELSE pc' = "read" /\ UNCHANGED out

\* Mutant: a directory that cannot be written is left out.
TextOrNot ==
    /\ pc = "text"
    /\ \/ /\ pc' = "newline"
          /\ current' = [current EXCEPT ![out] = Append(@, Entry(line))]
          /\ UNCHANGED out
       \/ GoesOn /\ UNCHANGED current
    /\ UNCHANGED <<archives, others, line, size, term, hup>>

\* The time stamp and the text of the line, each in a write of its own.
Text ==
    /\ pc = "text"
    /\ pc' = "newline"
    /\ current' = [current EXCEPT ![out] = Append(@, Entry(line))]
    /\ UNCHANGED <<archives, others, out, line, size, term, hup>>

\* Mutant: an error of the last write is not looked at.
NewlineOrNot ==
    /\ pc = "newline"
    /\ size' = [size EXCEPT ![out] = @ + line.length]
    /\ \E done \in BOOLEAN :
          current' = [current EXCEPT ![out][Len(current[out])].whole = done]
    /\ GoesOn
    /\ UNCHANGED <<archives, others, line, term, hup>>

\* The newline, in a write of its own, and then the next directory.
Newline ==
    /\ pc = "newline"
    /\ size' = [size EXCEPT ![out] = @ + line.length]
    /\ current' = [current EXCEPT ![out][Len(current[out])].whole = TRUE]
    /\ GoesOn
    /\ UNCHANGED <<archives, others, line, term, hup>>

\* SIGKILL, or an error of any of the steps.
Death ==
    /\ pc # "off"
    /\ deaths < MaxDeaths
    /\ deaths' = deaths + 1
    /\ pc' = "off"
    /\ term' = FALSE /\ hup' = FALSE
    /\ UNCHANGED <<archives, out, line, lines, size, keep, signals>>

Dies == Death /\ UNCHANGED current

\* A death between the writes of Text, or within one: the time stamp is there,
\* or the beginning of the text, or both.
DiesWriting ==
    /\ pc = "text"
    /\ Death
    /\ \E bytes \in 0..line.length - 1 :
          /\ bytes + Stamp > 0
          /\ current' = [current EXCEPT ![out] = Append(@, Part(line, bytes))]

Signal ==
    /\ pc # "off"
    /\ signals < MaxSignals
    /\ signals' = signals + 1
    /\ \/ term' = TRUE /\ UNCHANGED hup
       \/ hup' = TRUE /\ UNCHANGED term
    /\ UNCHANGED <<disk, pc, out, line, lines, size, keep, deaths>>

-----------------------------------------------------------------------------
Init ==
    /\ pc = "off"
    /\ out = 1
    /\ line = [n |-> 0, length |-> 1]
    /\ lines = 0
    /\ current = [d \in Dirs |-> <<>>]
    /\ archives = [d \in Dirs |-> <<>>]
    /\ size = [d \in Dirs |-> 0]
    /\ keep = 0
    /\ term = FALSE /\ hup = FALSE
    /\ signals = 0 /\ deaths = 0

Write == Check \/ Rename \/ Prune \/ Create \/ Text \/ Newline

Next == Start \/ Open \/ Read \/ EndOfInput \/ Flags \/ Write \/ Dies \/ DiesWriting
        \/ Signal

Spec == Init /\ [][Next]_vars

-----------------------------------------------------------------------------
\* The lines of a file, and those of the files one after the other, in order.
Increasing(file) == \A i, j \in DOMAIN file : i < j => file[i].n < file[j].n
Before(f, g) == \A i \in DOMAIN f, j \in DOMAIN g : f[i].n < g[j].n
InOrder(files) ==
    /\ \A i \in DOMAIN files : Increasing(files[i])
    /\ \A i, j \in DOMAIN files : i < j => Before(files[i], files[j])

\* The lines that are not there although an older one is.
Missing(d) == {n \in 1..lines : n \notin Numbers(d) /\ \E m \in Numbers(d) : m < n}

\* What a directory holds is the end of what was read, each line once and in
\* order: rotation and pruning lose the oldest lines only.  A line may be
\* missing in between for each signal and for each death of a logger.
OnlyOldestLost ==
    \A d \in Dirs :
        /\ InOrder(Files(d))
        /\ pc = "read" => Cardinality(Missing(d)) <= signals + deaths

Short(file) ==
    \/ Len(file) <= 1
    \/ \E limit \in Limits : BytesOf(file) <= limit + Stamp * Len(file)

\* A log directory does not grow: whatever config says from line to line, and
\* wherever loggers died, no file has more bytes than the largest limit and, as
\* write() does not count them, the time stamps of its lines, unless it is a
\* single line; and of the archives there is at most the one being rotated too
\* many, and one for each death.
Bounded ==
    \A d \in Dirs :
        /\ \A i \in DOMAIN Files(d) : Short(Files(d)[i])
        /\ \E k \in Keeps : Len(archives[d]) <= k + 1 + deaths

Torn(d) == {e \in Entries(d) : ~e.whole}

\* Two lines run into one only where a logger has died.
TornByDeath ==
    \A d \in Dirs :
        Cardinality(Torn(d)) <= deaths + (IF pc = "newline" /\ d = out THEN 1 ELSE 0)

\* The directories are written in their order: a line that a later one has
\* and an earlier one has not has been pruned there.
FirstIsComplete ==
    \A d, e \in Dirs : d < e =>
        \A n \in Numbers(e) : n \in Numbers(d) \/ \A m \in Numbers(d) : n < m

\* The loggers, one after the other, keep what RollingLog promises.
Rolling == INSTANCE RollingLog WITH
               Logs <- Outputs, read <- lines, log <- [d \in Dirs |-> Numbers(d)]
RollingSpec == Rolling!Spec
=============================================================================
