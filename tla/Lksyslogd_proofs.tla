-------------------------- MODULE Lksyslogd_proofs --------------------------
(***************************************************************************)
(* Theorems about Lksyslogd, for any directories, lines and settings, and  *)
(* any number of signals and deaths: what a directory holds is the end of  *)
(* what was read, it stays small, and a line is torn by a death only.      *)
(***************************************************************************)
EXTENDS Lksyslogd, SequenceTheorems, FiniteSetTheorems, WellFoundedInduction,
        TLAPS

-----------------------------------------------------------------------------
(* What a file holds: sums over sequences *)

EntryType == [n : Nat, length : Nat \ {0}, whole : BOOLEAN]
File == Seq(EntryType)

LEMMA PayloadType == \A e \in EntryType : Payload(e) \in Nat
  BY DEF EntryType, Payload

\* sum[i] is the payload of the first i entries of the file.
Sums(file, sum) ==
    /\ sum \in [0..Len(file) -> Nat]
    /\ sum[0] = 0
    /\ \A i \in 1..Len(file) : sum[i] = sum[i - 1] + Payload(file[i])

\* The least of a set of natural numbers.
LEMMA SomeLeast ==
    ASSUME NEW S \in SUBSET Nat, S # {}
    PROVE  \E n \in S : \A m \in S : n <= m
  <1> DEFINE Less == {p \in Nat \X Nat : p[1] < p[2]}
  <1>1. IsWellFoundedOn(Less, Nat)
    BY NatLessThanWellFounded DEF OpToRel
  <1>2. \E n \in S : \A m \in S : <<m, n>> \notin Less
    <2> HIDE DEF Less
    <2> QED BY <1>1, WFMin
  <1>3. \A m, n \in Nat : <<m, n>> \notin Less => n <= m
    OBVIOUS
  <1> HIDE DEF Less
  <1> QED BY <1>2, <1>3

\* Every file has its sums: a shortest part of one that has none would have
\* those of the part that is shorter by an entry, and the last one's payload.
LEMMA SumsExist ==
    ASSUME NEW file \in File
    PROVE  \E sum : Sums(file, sum)
  <1> DEFINE n == Len(file)
             Upto(k, sum) == /\ sum \in [0..k -> Nat] /\ sum[0] = 0
                             /\ \A i \in 1..k : sum[i] = sum[i - 1] + Payload(file[i])
             Bad == {k \in 0..n : ~\E sum : Upto(k, sum)}
  <1>1. n \in Nat /\ \A i \in 1..n : Payload(file[i]) \in Nat
    BY PayloadType, ElementOfSeq DEF File
  <1>2. Upto(0, [i \in 0..0 |-> 0])
    OBVIOUS
  <1>3. ASSUME NEW k \in 0..n, k # 0, NEW sum, Upto(k - 1, sum)
        PROVE  \E longer : Upto(k, longer)
    <2> DEFINE longer == [i \in 0..k |-> IF i < k THEN sum[i]
                                         ELSE sum[k - 1] + Payload(file[k])]
    <2>1. longer \in [0..k -> Nat] /\ longer[0] = 0
      BY <1>1, <1>3
    <2>2. \A i \in 1..k : longer[i] = longer[i - 1] + Payload(file[i])
      BY <1>1, <1>3
    <2> QED BY <2>1, <2>2
  <1> HIDE DEF Upto
  <1>4. Bad = {}
    <2> SUFFICES ASSUME Bad # {} PROVE FALSE
      OBVIOUS
    <2>1. PICK k \in Bad : \A m \in Bad : k <= m
      <3>1. Bad \in SUBSET Nat
        BY <1>1
      <3> QED BY <3>1, SomeLeast
    <2>2. k \in 0..n /\ k # 0
      BY <1>2, <2>1
    <2>3. k - 1 \in 0..n /\ k - 1 \notin Bad
      <3> HIDE DEF Bad
      <3> QED BY <1>1, <2>1, <2>2
    <2>4. PICK sum : Upto(k - 1, sum)
      BY <2>3
    <2> QED BY <1>3, <2>1, <2>2, <2>4
  <1>5. PICK sum : Upto(n, sum)
    BY <1>1, <1>4
  <1> QED BY <1>5 DEF Upto, Sums

\* There is one such function only, and so it is the one PayloadOf chooses.
LEMMA PayloadIsSum ==
    ASSUME NEW file \in File, NEW sum, Sums(file, sum)
    PROVE  PayloadOf(file) = sum[Len(file)]
  <1> DEFINE n == Len(file)
             Fixed(f) == f = [i \in 0..n |-> IF i = 0 THEN 0
                                             ELSE f[i - 1] + Payload(file[i])]
             found == CHOOSE f : Fixed(f)
  <1>1. n \in Nat
    BY DEF File
  <1>2. Fixed(sum)
    BY <1>1 DEF Sums
  <1>3. Fixed(found)
    BY <1>2
  <1>4. \A i \in 0..n : found[i] = sum[i]
    <2> DEFINE Bad == {i \in 0..n : found[i] # sum[i]}
    <2> SUFFICES ASSUME Bad # {} PROVE FALSE
      OBVIOUS
    <2>1. PICK i \in Bad : \A m \in Bad : i <= m
      <3>1. Bad \in SUBSET Nat
        BY <1>1
      <3> QED BY <3>1, SomeLeast
    <2>2. found[0] = 0 /\ sum[0] = 0
      BY <1>1, <1>2, <1>3
    <2>3. i \in 1..n /\ i - 1 \in 0..n /\ i - 1 \notin Bad
      BY <1>1, <2>1, <2>2
    <2>4. found[i - 1] = sum[i - 1]
      BY <2>3
    <2>5. found[i] = found[i - 1] + Payload(file[i])
      BY <1>3, <2>3
    <2>6. sum[i] = sum[i - 1] + Payload(file[i])
      BY <1>2, <2>3
    <2> QED BY <2>1, <2>4, <2>5, <2>6
  <1>5. PayloadOf(file) = found[n]
    BY DEF PayloadOf
  <1> QED BY <1>1, <1>4, <1>5

LEMMA PayloadOfAppend ==
    ASSUME NEW file \in File, NEW e \in EntryType
    PROVE  /\ PayloadOf(<<>>) = 0
           /\ PayloadOf(file) \in Nat
           /\ PayloadOf(Append(file, e)) = PayloadOf(file) + Payload(e)
  <1> DEFINE n == Len(file)
             longer == Append(file, e)
  <1>1. /\ n \in Nat /\ longer \in File /\ Len(longer) = n + 1
        /\ \A i \in 1..n : longer[i] = file[i]
        /\ longer[n + 1] = e
    BY AppendProperties DEF File
  <1>2. PICK sum : Sums(file, sum)
    BY SumsExist
  <1>3. PayloadOf(file) = sum[n] /\ sum[n] \in Nat
    BY <1>1, <1>2, PayloadIsSum DEF Sums
  <1> DEFINE more == [i \in 0..n + 1 |-> IF i <= n THEN sum[i]
                                         ELSE sum[n] + Payload(e)]
  <1>4. Sums(longer, more)
    <2>1. more \in [0..n + 1 -> Nat] /\ more[0] = 0
      BY <1>1, <1>2, <1>3, PayloadType DEF Sums
    <2>2. \A i \in 1..n + 1 : more[i] = more[i - 1] + Payload(longer[i])
      <3> HIDE DEF longer
      <3> QED BY <1>1, <1>2 DEF Sums
    <2> QED BY <1>1, <2>1, <2>2 DEF Sums
  <1>5. PayloadOf(longer) = more[n + 1]
    BY <1>1, <1>4, PayloadIsSum
  <1>6. PayloadOf(longer) = sum[n] + Payload(e)
    BY <1>1, <1>5
  <1>7. PayloadOf(<<>>) = 0
    <2>1. <<>> \in File /\ Len(<<>>) = 0
      BY DEF File
    <2>2. Sums(<<>>, [i \in 0..0 |-> 0])
      BY <2>1 DEF Sums
    <2> QED BY <2>1, <2>2, PayloadIsSum
  <1> QED BY <1>3, <1>6, <1>7

-----------------------------------------------------------------------------
(* The files of a directory: what they hold, and in which order *)

LEMMA RangeOfAppend ==
    ASSUME NEW file \in File, NEW e \in EntryType
    PROVE  /\ Range(<<>>) = {} /\ Range(Append(file, e)) = Range(file) \cup {e}
           /\ Range(file) \subseteq EntryType
           /\ Append(file, e) \in File
  <1>1. /\ Append(file, e) \in Seq(EntryType)
        /\ Len(Append(file, e)) = Len(file) + 1 /\ Len(file) \in Nat
        /\ \A i \in 1..Len(file) : Append(file, e)[i] = file[i]
        /\ Append(file, e)[Len(file) + 1] = e
    BY AppendProperties DEF File
  <1>2. /\ Range(Append(file, e)) = {Append(file, e)[i] : i \in 1..Len(file) + 1}
        /\ Range(file) = {file[i] : i \in 1..Len(file)}
    BY <1>1, RangeEquality DEF File
  <1>3. Range(Append(file, e)) = Range(file) \cup {e}
    <2> DEFINE longer == Append(file, e)
    <2>1. \A i \in 1..Len(file) + 1 : i \in 1..Len(file) \/ i = Len(file) + 1
      BY <1>1
    <2>2. \A i \in 1..Len(file) : i \in 1..Len(file) + 1
      BY <1>1
    <2>3. Len(file) + 1 \in 1..Len(file) + 1
      BY <1>1
    <2> HIDE DEF longer
    <2> QED BY <1>1, <1>2, <2>1, <2>2, <2>3 DEF longer
  <1>4. Range(<<>>) = {}
    BY DEF Range
  <1> QED BY <1>1, <1>3, <1>4, RangeOfSeq DEF File

LEMMA IncreasingAppend ==
    ASSUME NEW file \in File, NEW e \in EntryType
    PROVE  /\ Increasing(<<>>)
           /\ Increasing(Append(file, e)) <=>
                  Increasing(file) /\ \A x \in Range(file) : x.n < e.n
  <1> DEFINE longer == Append(file, e)
  <1>1. /\ longer \in File /\ DOMAIN longer = 1..Len(file) + 1
        /\ Len(file) \in Nat /\ DOMAIN file = 1..Len(file)
        /\ \A i \in 1..Len(file) : longer[i] = file[i]
        /\ longer[Len(file) + 1] = e
    BY AppendProperties, LenProperties DEF File
  <1>2. \A x : x \in Range(file) <=> \E i \in 1..Len(file) : x = file[i]
    BY <1>1 DEF Range
  <1> HIDE DEF longer
  <1>3. ASSUME Increasing(longer)
        PROVE  Increasing(file) /\ \A x \in Range(file) : x.n < e.n
    <2>1. Increasing(file)
      BY <1>1, <1>3 DEF Increasing
    <2>2. \A i \in 1..Len(file) : file[i].n < e.n
      BY <1>1, <1>3 DEF Increasing
    <2> QED BY <1>2, <2>1, <2>2
  <1>4. ASSUME Increasing(file), \A x \in Range(file) : x.n < e.n
        PROVE  Increasing(longer)
    <2> SUFFICES ASSUME NEW i \in 1..Len(file) + 1, NEW j \in 1..Len(file) + 1, i < j
                 PROVE  longer[i].n < longer[j].n
      BY <1>1 DEF Increasing
    <2>1. i \in 1..Len(file) /\ longer[i] = file[i]
      BY <1>1
    <2>2. CASE j = Len(file) + 1
      BY <1>1, <1>2, <1>4, <2>1, <2>2
    <2>3. CASE j \in 1..Len(file)
      BY <1>1, <1>4, <2>1, <2>3 DEF Increasing
    <2> QED BY <1>1, <2>2, <2>3
  <1>5. Increasing(<<>>)
    BY DEF Increasing
  <1> QED BY <1>3, <1>4, <1>5 DEF longer

LEMMA BeforeIsOfEntries ==
    ASSUME NEW f \in File, NEW g \in File
    PROVE  Before(f, g) <=> \A x \in Range(f), y \in Range(g) : x.n < y.n
  BY DEF Before, Range

LEMMA FilesAppend ==
    ASSUME NEW files \in Seq(File), NEW file \in File
    PROVE  /\ Append(files, file) \in Seq(File)
           /\ EntriesOf(files) \subseteq EntryType
           /\ EntriesOf(Append(files, file)) = EntriesOf(files) \cup Range(file)
           /\ InOrder(Append(files, file)) <=>
                /\ InOrder(files) /\ Increasing(file)
                /\ \A x \in EntriesOf(files), y \in Range(file) : x.n < y.n
  <1> DEFINE longer == Append(files, file)
             n == Len(files)
  <1>1. /\ longer \in Seq(File) /\ DOMAIN longer = 1..n + 1
        /\ n \in Nat /\ DOMAIN files = 1..n
        /\ \A i \in 1..n : longer[i] = files[i] /\ files[i] \in File
        /\ longer[n + 1] = file
    BY AppendProperties, LenProperties, ElementOfSeq
  <1>2. \A x : x \in EntriesOf(files) <=> \E i \in 1..n : x \in Range(files[i])
    BY <1>1 DEF EntriesOf
  <1> HIDE DEF longer, n
  <1>3. \A x : x \in EntriesOf(longer) <=> \E i \in 1..n + 1 : x \in Range(longer[i])
    BY <1>1 DEF EntriesOf
  <1>4. EntriesOf(longer) = EntriesOf(files) \cup Range(file)
    <2>1. \A i \in 1..n + 1 : i \in 1..n \/ i = n + 1
      BY <1>1
    <2>2. n + 1 \in 1..n + 1 /\ \A i \in 1..n : i \in 1..n + 1
      BY <1>1
    <2> QED BY <1>1, <1>2, <1>3, <2>1, <2>2
  <1>5. EntriesOf(files) \subseteq EntryType
    BY <1>1, <1>2, RangeOfSeq DEF File
  <1>6. ASSUME InOrder(longer)
        PROVE  /\ InOrder(files) /\ Increasing(file)
               /\ \A x \in EntriesOf(files), y \in Range(file) : x.n < y.n
    <2>1. \A i \in 1..n : i \in 1..n + 1 /\ i < n + 1
      BY <1>1
    <2>2. n + 1 \in 1..n + 1
      BY <1>1
    <2>3. \A i \in 1..n : Increasing(files[i]) /\ Before(files[i], file)
      BY <1>1, <1>6, <2>1, <2>2 DEF InOrder
    <2>4. \A i, j \in 1..n : i < j => Before(files[i], files[j])
      BY <1>1, <1>6, <2>1 DEF InOrder
    <2>5. Increasing(file)
      BY <1>1, <1>6, <2>2 DEF InOrder
    <2>6. \A i \in 1..n : \A x \in Range(files[i]), y \in Range(file) : x.n < y.n
      BY <1>1, <2>3, BeforeIsOfEntries
    <2> QED BY <1>1, <1>2, <2>3, <2>4, <2>5, <2>6 DEF InOrder
  <1>7. ASSUME InOrder(files), Increasing(file),
               \A x \in EntriesOf(files), y \in Range(file) : x.n < y.n
        PROVE  InOrder(longer)
    <2>1. \A i \in 1..n : Before(files[i], file)
      BY <1>1, <1>2, <1>7, BeforeIsOfEntries
    <2>2. \A i \in 1..n + 1 : Increasing(longer[i])
      BY <1>1, <1>7 DEF InOrder
    <2>3. ASSUME NEW i \in 1..n + 1, NEW j \in 1..n + 1, i < j
          PROVE  Before(longer[i], longer[j])
      <3>1. i \in 1..n /\ longer[i] = files[i]
        BY <1>1, <2>3
      <3>2. CASE j = n + 1
        BY <1>1, <2>1, <3>1, <3>2
      <3>3. CASE j \in 1..n
        BY <1>1, <1>7, <2>3, <3>1, <3>3 DEF InOrder
      <3> QED BY <1>1, <3>2, <3>3
    <2> QED BY <1>1, <2>2, <2>3 DEF InOrder
  <1> QED BY <1>1, <1>4, <1>5, <1>6, <1>7 DEF longer

LEMMA FilesTail ==
    ASSUME NEW files \in Seq(File), files # <<>>
    PROVE  /\ Tail(files) \in Seq(File) /\ Len(Tail(files)) = Len(files) - 1
           /\ \A i \in 1..Len(files) - 1 : Tail(files)[i] = files[i + 1]
           /\ Head(files) \in File
           /\ EntriesOf(files) = Range(Head(files)) \cup EntriesOf(Tail(files))
           /\ InOrder(files) =>
                /\ InOrder(Tail(files))
                /\ \A x \in Range(Head(files)), y \in EntriesOf(Tail(files)) : x.n < y.n
  <1> DEFINE rest == Tail(files)
             n == Len(files)
  <1>1. /\ rest \in Seq(File) /\ DOMAIN rest = 1..n - 1 /\ Len(rest) = n - 1
        /\ n \in Nat \ {0} /\ DOMAIN files = 1..n
        /\ \A i \in 1..n - 1 : rest[i] = files[i + 1]
        /\ \A i \in 1..n : files[i] \in File
        /\ Head(files) = files[1] /\ files[1] \in File
    BY HeadTailProperties, LenProperties, ElementOfSeq, EmptySeq
  <1>2. \A x : x \in EntriesOf(files) <=> \E i \in 1..n : x \in Range(files[i])
    BY <1>1 DEF EntriesOf
  <1> HIDE DEF rest, n
  <1>3. \A x : x \in EntriesOf(rest) <=> \E i \in 1..n - 1 : x \in Range(files[i + 1])
    BY <1>1 DEF EntriesOf
  <1>4. EntriesOf(files) = Range(files[1]) \cup EntriesOf(rest)
    <2>1. \A i \in 1..n : i = 1 \/ (i - 1 \in 1..n - 1 /\ (i - 1) + 1 = i)
      BY <1>1
    <2>2. 1 \in 1..n /\ \A i \in 1..n - 1 : i + 1 \in 1..n
      BY <1>1
    <2> QED BY <1>2, <1>3, <2>1, <2>2
  <1>5. ASSUME InOrder(files)
        PROVE  /\ InOrder(rest)
               /\ \A x \in Range(files[1]), y \in EntriesOf(rest) : x.n < y.n
    <2>1. 1 \in 1..n /\ \A i \in 1..n - 1 : i + 1 \in 1..n /\ 1 < i + 1
      BY <1>1
    <2>2. \A i \in 1..n - 1 : Increasing(files[i + 1]) /\ Before(files[1], files[i + 1])
      BY <1>1, <1>5, <2>1 DEF InOrder
    <2>3. \A i, j \in 1..n - 1 : i < j => i + 1 < j + 1
      BY <1>1
    <2>4. \A i, j \in 1..n - 1 : i < j => Before(files[i + 1], files[j + 1])
      BY <1>1, <1>5, <2>1, <2>3 DEF InOrder
    <2>5. \A i \in 1..n - 1 : \A x \in Range(files[1]), y \in Range(files[i + 1]) : x.n < y.n
      BY <1>1, <2>1, <2>2, BeforeIsOfEntries
    <2> QED BY <1>1, <1>3, <2>2, <2>4, <2>5 DEF InOrder
  <1> QED BY <1>1, <1>4, <1>5 DEF rest, n

\* The last entry of a file, with and without its newline.
LEMMA LastEntry ==
    ASSUME NEW file \in File, file # <<>>
    PROVE  \E front \in File, e \in EntryType :
              /\ file = Append(front, e) /\ file[Len(file)] = e
              /\ [e EXCEPT !.whole = TRUE] \in EntryType
              /\ [file EXCEPT ![Len(file)].whole = TRUE]
                     = Append(front, [e EXCEPT !.whole = TRUE])
  <1>1. PICK front \in File, e \in EntryType : file = Append(front, e)
    BY SequenceEmptyOrAppend DEF File
  <1> DEFINE w == [e EXCEPT !.whole = TRUE]
             n == Len(front)
             ended == [file EXCEPT ![Len(file)].whole = TRUE]
  <1>2. w \in EntryType
    BY DEF EntryType
  <1>3. /\ n \in Nat /\ Len(file) = n + 1 /\ file[n + 1] = e
        /\ \A i \in 1..n : file[i] = front[i]
    BY <1>1, AppendProperties DEF File
  <1>4. ended = [file EXCEPT ![n + 1] = w]
    BY <1>3
  <1> HIDE DEF w, n
  <1>5. /\ ended \in File /\ Len(ended) = n + 1
        /\ \A i \in 1..n + 1 : ended[i] = IF i = n + 1 THEN w ELSE file[i]
    <2> DEFINE other == [file EXCEPT ![n + 1] = w]
    <2>1. n + 1 \in 1..Len(file) /\ file \in Seq(EntryType)
      BY <1>3 DEF File
    <2>2. /\ other \in Seq(EntryType) /\ Len(other) = Len(file)
          /\ \A i \in 1..Len(file) : other[i] = IF i = n + 1 THEN w ELSE file[i]
      <3> HIDE DEF ended
      <3> QED BY <1>2, <2>1, ExceptSeq
    <2>3. ended = other
      BY <1>4
    <2> HIDE DEF ended, other
    <2> QED BY <1>3, <2>2, <2>3 DEF File
  <1>6. /\ Append(front, w) \in File /\ Len(Append(front, w)) = n + 1
        /\ \A i \in 1..n : Append(front, w)[i] = front[i]
        /\ Append(front, w)[n + 1] = w
    BY <1>2, AppendProperties DEF File, n
  <1>7. \A i \in 1..n + 1 : ended[i] = Append(front, w)[i]
    <2>1. \A i \in 1..n + 1 : i = n + 1 \/ i \in 1..n
      BY <1>3
    <2>2. \A i \in 1..n : i # n + 1 /\ i \in 1..n + 1
      BY <1>3
    <2> HIDE DEF ended
    <2> QED BY <1>3, <1>5, <1>6, <2>1, <2>2
  <1>8. ended = Append(front, w)
    <2> HIDE DEF ended
    <2> QED BY <1>5, <1>6, <1>7, SeqEqual DEF File
  <1> QED BY <1>1, <1>2, <1>3, <1>8 DEF w

-----------------------------------------------------------------------------
(* The inductive invariant *)

Writing == {"check", "rename", "prune", "text", "newline"}

Types ==
    /\ pc \in {"off", "open", "read", "got"} \cup Writing
    /\ out \in Dirs
    /\ line \in [n : Nat, length : Nat \ {0}]
    /\ lines \in Nat /\ keep \in Nat /\ signals \in Nat /\ deaths \in Nat
    /\ current \in [Dirs -> File]
    /\ archives \in [Dirs -> Seq(File)]
    /\ size \in [Dirs -> Nat]
    /\ term \in BOOLEAN /\ hup \in BOOLEAN

\* The line read last is still to be written to the directory d.
InHand(d) ==
    \/ pc = "got"
    \/ pc \in Writing /\ d > out
    \/ pc \in Writing \ {"newline"} /\ d = out

Ordered == \A d \in Dirs : InOrder(Files(d)) /\ Numbers(d) \subseteq 1..lines

\* A directory has the line read last as soon as its turn has come.
Hand ==
    pc \in Writing \cup {"got"} =>
        /\ line.n = lines /\ lines > 0
        /\ \A d \in Dirs : InHand(d) <=> lines \notin Numbers(d)

AtNewline ==
    pc = "newline" => /\ current[out] # <<>>
                      /\ current[out][Len(current[out])] = Entry(line)

\* What is lost for good, and what each flag that is set may cost still.
Lost(d) == {n \in Missing(d) : ~(InHand(d) /\ n = lines)}
Count(flag) == IF flag THEN 1 ELSE 0
Losses ==
    \A d \in Dirs : Cardinality(Lost(d)) + Count(term) + Count(hup) <= signals + deaths

\* The size that is counted is no less than what the file holds.
Opened(d) ==
    \/ pc \in {"read", "got"} \cup (Writing \ {"newline"})
    \/ pc = "newline" /\ d # out
    \/ pc = "open" /\ d < out
Counted == \A d \in Dirs : Opened(d) => PayloadOf(current[d]) <= size[d]

AllShort ==
    \A d \in Dirs : /\ Short(current[d])
                    /\ \A i \in DOMAIN archives[d] : Short(archives[d][i])

\* The line in hand fits, or it has the file for itself.
Room ==
    /\ pc = "prune" => current[out] = <<>>
    /\ pc = "text" =>
          \/ current[out] = <<>>
          \/ \E limit \in Limits : size[out] + line.length <= limit
    /\ pc = "newline" =>
          /\ PayloadOf(current[out]) + 1 <= size[out] + line.length
          /\ \/ Len(current[out]) = 1
             \/ \E limit \in Limits : PayloadOf(current[out]) + 1 <= limit

FewTorn == TornByDeath /\ \A d \in Dirs : IsFiniteSet(Torn(d))

Pruned ==
    /\ pc \in {"rename", "prune"} => keep \in Keeps
    /\ \A d \in Dirs : \E k \in Keeps :
          Len(archives[d]) <= k + deaths + Count(pc = "prune" /\ d = out)

IInv ==
    /\ Types /\ Ordered /\ Hand /\ AtNewline /\ Losses
    /\ Counted /\ AllShort /\ Room /\ Pruned
    /\ FewTorn /\ FirstIsComplete

-----------------------------------------------------------------------------
(* What the steps do to the directories *)

LEMMA PayloadNat == \A file \in File : PayloadOf(file) \in Nat
  <1> [n |-> 0, length |-> 1, whole |-> TRUE] \in EntryType
    BY DEF EntryType
  <1> QED BY PayloadOfAppend

LEMMA Products == \A m, n, k \in Nat : m + n * k \in Nat
  OBVIOUS

LEMMA StepTypes == Types /\ [Next]_vars => Types'
  <1> SUFFICES ASSUME Types, [Next]_vars PROVE Types'
    OBVIOUS
  <1> USE LksyslogdAssumption DEF Types, Dirs, Writing
  <1>1. CASE Start
    BY <1>1 DEF Start, disk, others
  <1>2. CASE Open
    <2>1. PayloadOf(current[out]) \in Nat /\ Len(current[out]) \in Nat /\ Stamp \in Nat
      BY PayloadNat DEF File
    <2>2. BytesOf(current[out]) \in Nat
      BY <2>1, Products DEF BytesOf
    <2>3. size' = [size EXCEPT ![out] = BytesOf(current[out])]
      BY <1>2 DEF Open
    <2>4. size' \in [Dirs -> Nat]
      BY <2>2, <2>3
    <2>5. /\ pc' \in {"open", "read"} /\ out' \in Dirs
          /\ UNCHANGED <<disk, others, line, term, hup>>
      BY <1>2 DEF Open
    <2> QED BY <2>4, <2>5 DEF disk, others
  <1>3. CASE Read
    BY <1>3 DEF Read, disk
  <1>4. CASE EndOfInput
    <2>1. term' \in BOOLEAN /\ hup' \in BOOLEAN
      BY <1>4, Zenon DEF EndOfInput, Exits, disk, others
    <2> QED BY <1>4, <2>1 DEF EndOfInput, Exits, disk, others
  <1>5. CASE Flags
    <2>1. term' \in BOOLEAN /\ hup' \in BOOLEAN
      BY <1>5, Zenon DEF Flags, Exits, disk, others
    <2>2. /\ pc' \in {"off", "read", "check"} /\ (out' = out \/ out' = 1)
          /\ UNCHANGED <<disk, others, line, size>>
      BY <1>5, Zenon DEF Flags, Exits
    <2>3. 1 \in Dirs
      OBVIOUS
    <2> QED BY <2>1, <2>2, <2>3 DEF disk, others
  <1>6. CASE Check
    BY <1>6 DEF Check, disk
  <1>7. CASE Rename
    <2>1. Append(archives[out], current[out]) \in Seq(File) /\ <<>> \in File
      BY AppendProperties DEF File
    <2> QED BY <1>7, <2>1 DEF Rename, others
  <1>8. CASE Prune
    <2>1. archives[out] # <<>> => Tail(archives[out]) \in Seq(File)
      BY HeadTailProperties
    <2>2. archives[out] # <<>>
      BY <1>8 DEF Prune, Surplus
    <2> QED BY <1>8, <2>1, <2>2 DEF Prune, others
  <1>9. CASE Create
    BY <1>9 DEF Create, disk, others
  <1>10. CASE Text
    <2>1. Entry(line) \in EntryType
      BY DEF Entry, Part, EntryType
    <2>2. Append(current[out], Entry(line)) \in File
      BY <2>1, AppendProperties DEF File
    <2> QED BY <1>10, <2>2 DEF Text, others
  <1>11. CASE Newline
    <2>1. current[out] \in File
      OBVIOUS
    <2> DEFINE ended == [current[out] EXCEPT ![Len(current[out])].whole = TRUE]
    <2>2. ended \in File
      <3>1. CASE current[out] # <<>>
        <4>1. \A file \in File : file # <<>> =>
                 [file EXCEPT ![Len(file)].whole = TRUE] \in File
          <5> SUFFICES ASSUME NEW file \in File, file # <<>>
                       PROVE  [file EXCEPT ![Len(file)].whole = TRUE] \in File
            OBVIOUS
          <5>1. PICK front \in File, e \in EntryType :
                    /\ file = Append(front, e) /\ file[Len(file)] = e
                    /\ [e EXCEPT !.whole = TRUE] \in EntryType
                    /\ [file EXCEPT ![Len(file)].whole = TRUE]
                           = Append(front, [e EXCEPT !.whole = TRUE])
            BY LastEntry
          <5>2. \A w \in EntryType : Append(front, w) \in File
            BY RangeOfAppend
          <5> QED BY <5>1, <5>2
        <4> QED BY <2>1, <3>1, <4>1
      <3>2. CASE current[out] = <<>>
        <4>1. ended = <<>>
          BY <3>2
        <4> QED BY <3>2, <4>1, <2>1
      <3> QED BY <3>1, <3>2
    <2>3. current' = [current EXCEPT ![out] = ended]
      BY <1>11 DEF Newline
    <2>4. current' \in [Dirs -> File]
      <3> HIDE DEF ended
      <3> QED BY <2>2, <2>3
    <2>5. term' \in BOOLEAN /\ hup' \in BOOLEAN
      BY <1>11, Zenon DEF Newline
    <2>6. size' \in [Dirs -> Nat]
      <3>1. size' = [size EXCEPT ![out] = @ + line.length]
        BY <1>11 DEF Newline
      <3> QED BY <3>1
    <2>7. pc' \in {"off", "open", "read", "got"} \cup Writing /\ out' \in Dirs
      <3>1. GoesOn
        BY <1>11 DEF Newline
      <3> QED BY <3>1 DEF GoesOn
    <2> QED BY <1>11, <2>4, <2>5, <2>6, <2>7 DEF Newline, others
  <1>12. CASE Dies
    <2>1. term' \in BOOLEAN /\ hup' \in BOOLEAN
      BY <1>12, Zenon DEF Dies, DiesWriting, Death, disk
    <2> QED BY <1>12, <2>1 DEF Dies, DiesWriting, Death, disk
  <1>13. CASE Signal
    <2>1. term' \in BOOLEAN /\ hup' \in BOOLEAN
      BY <1>13, Zenon DEF Signal, disk
    <2> QED BY <1>13, <2>1 DEF Signal, disk
  <1>14. CASE UNCHANGED vars
    BY <1>14 DEF vars, disk
  <1>15. CASE DiesWriting
    <2>1. term' \in BOOLEAN /\ hup' \in BOOLEAN
      BY <1>15, Zenon DEF DiesWriting, Death
    <2>2. PICK bytes \in 0..line.length - 1 :
              current' = [current EXCEPT ![out] = Append(@, Part(line, bytes))]
      BY <1>15 DEF DiesWriting
    <2>3. Part(line, bytes) \in EntryType
      BY DEF Part, EntryType
    <2>4. Append(current[out], Part(line, bytes)) \in File
      BY <2>3, AppendProperties DEF File
    <2>5. current' \in [Dirs -> File]
      <3>1. PICK file \in File : file = Append(current[out], Part(line, bytes))
        BY <2>4
      <3>2. current' = [current EXCEPT ![out] = file]
        BY <2>2, <3>1
      <3> QED BY <3>2
    <2>6. pc' = "off" /\ deaths' \in Nat
          /\ UNCHANGED <<archives, out, line, lines, size, keep, signals>>
      BY <1>15 DEF DiesWriting, Death
    <2> QED BY <2>1, <2>5, <2>6
  <1> QED
    BY <1>1, <1>2, <1>3, <1>4, <1>5, <1>6, <1>7, <1>8, <1>9, <1>10, <1>11,
       <1>12, <1>13, <1>14, <1>15 DEF Next, Write

\* What there is in a directory, by its archives and its current.
LEMMA FilesType ==
    ASSUME NEW arch \in Seq(File), NEW file \in File
    PROVE  /\ EntriesOf(Append(arch, file)) = EntriesOf(arch) \cup Range(file)
           /\ EntriesOf(Append(arch, file)) \subseteq EntryType
           /\ Range(file) \subseteq EntryType
  BY FilesAppend, RangeOfAppend, RangeOfSeq DEF File

LEMMA EntriesType ==
    ASSUME Types, NEW d \in Dirs
    PROVE  /\ archives[d] \in Seq(File) /\ current[d] \in File
           /\ Entries(d) = EntriesOf(archives[d]) \cup Range(current[d])
           /\ Entries(d) \subseteq EntryType /\ Numbers(d) \subseteq Nat
  <1>1. archives[d] \in Seq(File) /\ current[d] \in File
    BY DEF Types
  <1>2. /\ Entries(d) = EntriesOf(archives[d]) \cup Range(current[d])
        /\ Entries(d) \subseteq EntryType
    BY <1>1, FilesType DEF Entries, Files
  <1>3. Numbers(d) \subseteq Nat
    BY <1>2 DEF Numbers, EntryType
  <1> QED BY <1>1, <1>2, <1>3

LEMMA SameFiles ==
    ASSUME NEW d, archives'[d] = archives[d], current'[d] = current[d]
    PROVE  /\ Files(d)' = Files(d) /\ Entries(d)' = Entries(d)
           /\ Numbers(d)' = Numbers(d) /\ Torn(d)' = Torn(d)
  BY DEF Files, Entries, Numbers, Torn

LEMMA RenameFiles ==
    ASSUME Types, \A d \in Dirs : InOrder(Files(d)), Rename
    PROVE  \A d \in Dirs : /\ InOrder(Files(d))' /\ Entries(d)' = Entries(d)
                           /\ Numbers(d)' = Numbers(d) /\ Torn(d)' = Torn(d)
  <1>1. out \in Dirs /\ archives \in [Dirs -> Seq(File)] /\ current \in [Dirs -> File]
    BY DEF Types
  <1> SUFFICES ASSUME NEW d \in Dirs
               PROVE  InOrder(Files(d))' /\ Entries(d)' = Entries(d)
    BY DEF Numbers, Torn
  <1>2. CASE d # out
    BY <1>1, <1>2, SameFiles DEF Rename
  <1>3. CASE d = out
    <2>1. Files(d)' = Append(Files(d), <<>>)
      BY <1>1, <1>3 DEF Rename, Files
    <2>2. Files(d) \in Seq(File) /\ InOrder(Files(d)) /\ <<>> \in File
      BY <1>1, FilesAppend DEF Files, File
    <2>3. Range(<<>>) = {} /\ Increasing(<<>>)
      BY DEF Range, Increasing
    <2>4. /\ EntriesOf(Append(Files(d), <<>>)) = EntriesOf(Files(d))
          /\ InOrder(Append(Files(d), <<>>))
      BY <2>2, <2>3, FilesAppend
    <2> QED BY <2>1, <2>4 DEF Entries
  <1> QED BY <1>2, <1>3

LEMMA PruneFiles ==
    ASSUME Types, \A d \in Dirs : InOrder(Files(d)), Prune
    PROVE  \A d \in Dirs :
              /\ InOrder(Files(d))'
              /\ Entries(d)' \subseteq Entries(d) /\ Numbers(d)' \subseteq Numbers(d)
              /\ Torn(d)' \subseteq Torn(d)
              /\ \A n \in Numbers(d) \ Numbers(d)' : \A m \in Numbers(d)' : n < m
              /\ d # out => Numbers(d)' = Numbers(d)
  <1>1. out \in Dirs /\ archives \in [Dirs -> Seq(File)] /\ current \in [Dirs -> File]
    BY DEF Types
  <1> SUFFICES ASSUME NEW d \in Dirs
               PROVE  /\ InOrder(Files(d))'
                      /\ Entries(d)' \subseteq Entries(d)
                      /\ Numbers(d)' \subseteq Numbers(d)
                      /\ Torn(d)' \subseteq Torn(d)
                      /\ \A n \in Numbers(d) \ Numbers(d)' : \A m \in Numbers(d)' : n < m
                      /\ d # out => Numbers(d)' = Numbers(d)
    OBVIOUS
  <1>2. CASE d # out
    <2>1. archives'[d] = archives[d] /\ current'[d] = current[d]
      BY <1>1, <1>2 DEF Prune
    <2>2. /\ Files(d)' = Files(d) /\ Entries(d)' = Entries(d)
          /\ Numbers(d)' = Numbers(d) /\ Torn(d)' = Torn(d)
      BY <2>1, SameFiles
    <2> QED BY <2>2
  <1>3. CASE d = out
    <2>1. archives[d] # <<>> /\ archives[d] \in Seq(File) /\ current[d] \in File
      BY <1>1, <1>3 DEF Prune, Surplus, Types
    <2>2. Files(d)' = Tail(Files(d))
      <3>1. Files(d)' = Append(Tail(archives[d]), current[d])
        BY <1>1, <1>3 DEF Prune, Files
      <3>2. Tail(Append(archives[d], current[d]))
              = Append(Tail(archives[d]), current[d])
        BY <2>1, HeadTailAppend
      <3> QED BY <3>1, <3>2 DEF Files
    <2>3. Files(d) \in Seq(File) /\ Files(d) # <<>>
      BY <2>1, AppendProperties DEF Files
    <2>4. /\ Entries(d) = Range(Head(Files(d))) \cup Entries(d)'
          /\ InOrder(Files(d))'
          /\ \A x \in Range(Head(Files(d))), y \in Entries(d)' : x.n < y.n
      BY <2>2, <2>3, FilesTail DEF Entries
    <2>5. /\ Entries(d)' \subseteq Entries(d) /\ Numbers(d)' \subseteq Numbers(d)
          /\ Torn(d)' \subseteq Torn(d)
      BY <2>4 DEF Numbers, Torn
    <2>6. \A n \in Numbers(d) \ Numbers(d)' : \A m \in Numbers(d)' : n < m
      BY <2>4 DEF Numbers
    <2> QED BY <1>3, <2>4, <2>5, <2>6
  <1> QED BY <1>2, <1>3

\* The steps that add an entry: the text of the line in hand, or, when the
\* logger dies at it, a part of it.
Puts == Text \/ DiesWriting

LEMMA PutsEntry ==
    ASSUME Types, Puts
    PROVE  \E e \in EntryType :
              /\ e.n = line.n /\ ~e.whole /\ Payload(e) + 1 <= line.length
              /\ Text => e = Entry(line) /\ Payload(e) + 1 = line.length
              /\ current' = [current EXCEPT ![out] = Append(@, e)]
              /\ archives' = archives /\ pc = "text" /\ lines' = lines
  <1>1. line \in [n : Nat, length : Nat \ {0}]
    BY DEF Types
  <1>2. ASSUME NEW bytes \in 0..line.length - 1
        PROVE  /\ Part(line, bytes) \in EntryType /\ Part(line, bytes).n = line.n
               /\ ~Part(line, bytes).whole /\ Payload(Part(line, bytes)) = bytes
               /\ Payload(Part(line, bytes)) + 1 <= line.length
    BY <1>1 DEF Part, EntryType, Payload
  <1>3. CASE Text
    <2>1. line.length - 1 \in 0..line.length - 1
      BY <1>1
    <2>2. /\ Entry(line) \in EntryType /\ Entry(line).n = line.n /\ ~Entry(line).whole
          /\ Payload(Entry(line)) = line.length - 1
      BY <1>2, <2>1 DEF Entry
    <2>3. /\ current' = [current EXCEPT ![out] = Append(@, Entry(line))]
          /\ archives' = archives /\ pc = "text" /\ lines' = lines
      BY <1>3 DEF Text, others
    <2>4. PICK e \in EntryType : e = Entry(line)
      BY <2>2
    <2>5. Payload(e) + 1 = line.length /\ Payload(e) + 1 <= line.length
      BY <1>1, <2>2, <2>4
    <2> QED BY <2>2, <2>3, <2>4, <2>5
  <1>4. CASE DiesWriting
    <2>1. PICK bytes \in 0..line.length - 1 :
              current' = [current EXCEPT ![out] = Append(@, Part(line, bytes))]
      BY <1>4 DEF DiesWriting
    <2>2. archives' = archives /\ pc = "text" /\ lines' = lines /\ ~Text
      BY <1>4 DEF DiesWriting, Death, Text
    <2> QED BY <1>2, <2>1, <2>2
  <1> QED BY <1>3, <1>4 DEF Puts

LEMMA PutsFiles ==
    ASSUME Types, \A d \in Dirs : InOrder(Files(d)), Puts,
           \A n \in Numbers(out) : n < line.n
    PROVE  \A d \in Dirs :
              /\ InOrder(Files(d))'
              /\ d # out => Numbers(d)' = Numbers(d) /\ Torn(d)' = Torn(d)
              /\ d = out => /\ Numbers(d)' = Numbers(d) \cup {line.n}
                            /\ \E e : Torn(d)' = Torn(d) \cup {e}
  <1>1. out \in Dirs /\ archives \in [Dirs -> Seq(File)] /\ current \in [Dirs -> File]
    BY DEF Types
  <1>2. PICK e \in EntryType :
            /\ e.n = line.n /\ ~e.whole /\ archives' = archives
            /\ current' = [current EXCEPT ![out] = Append(@, e)]
    BY PutsEntry
  <1> SUFFICES ASSUME NEW d \in Dirs
               PROVE  /\ InOrder(Files(d))'
                      /\ d # out => Numbers(d)' = Numbers(d) /\ Torn(d)' = Torn(d)
                      /\ d = out => /\ Numbers(d)' = Numbers(d) \cup {line.n}
                                    /\ Torn(d)' = Torn(d) \cup {e}
    OBVIOUS
  <1>3. CASE d # out
    <2>1. archives'[d] = archives[d] /\ current'[d] = current[d]
      BY <1>1, <1>2, <1>3
    <2>2. /\ Files(d)' = Files(d) /\ Entries(d)' = Entries(d)
          /\ Numbers(d)' = Numbers(d) /\ Torn(d)' = Torn(d)
      BY <2>1, SameFiles
    <2> QED BY <1>3, <2>2
  <1>4. CASE d = out
    <2>1. /\ archives[d] \in Seq(File) /\ current[d] \in File
          /\ archives'[d] = archives[d] /\ current'[d] = Append(current[d], e)
      BY <1>1, <1>2, <1>4
    <2>2. current'[d] \in File /\ Range(current'[d]) = Range(current[d]) \cup {e}
      BY <1>2, <2>1, RangeOfAppend
    <2>3. /\ Entries(d) = EntriesOf(archives[d]) \cup Range(current[d])
          /\ Entries(d)' = EntriesOf(archives[d]) \cup Range(current'[d])
      BY <2>1, <2>2, FilesType DEF Entries, Files
    <2>4. Entries(d)' = Entries(d) \cup {e}
      BY <2>2, <2>3
    <2>5. \A x \in Entries(d) : x.n < e.n
      BY <1>2, <1>4 DEF Numbers
    <2>6. InOrder(Files(d))'
      <3>1. /\ InOrder(archives[d]) /\ Increasing(current[d])
            /\ \A x \in EntriesOf(archives[d]), y \in Range(current[d]) : x.n < y.n
        <4>1. InOrder(Append(archives[d], current[d]))
          BY DEF Files
        <4> QED BY <2>1, <4>1, FilesAppend
      <3>2. Increasing(current'[d])
        BY <1>2, <2>1, <2>3, <2>5, <3>1, IncreasingAppend
      <3>3. \A x \in EntriesOf(archives[d]), y \in Range(current'[d]) : x.n < y.n
        BY <2>2, <2>3, <2>5, <3>1
      <3>4. InOrder(Append(archives[d], current'[d]))
        BY <2>1, <2>2, <3>1, <3>2, <3>3, FilesAppend
      <3> QED BY <2>1, <3>4 DEF Files
    <2> QED BY <1>2, <1>4, <2>4, <2>6 DEF Numbers, Torn
  <1> QED BY <1>3, <1>4

LEMMA NewlineFiles ==
    ASSUME Types, \A d \in Dirs : InOrder(Files(d)), Newline,
           current[out] # <<>>, current[out][Len(current[out])] = Entry(line)
    PROVE  \A d \in Dirs :
              /\ InOrder(Files(d))' /\ Numbers(d)' = Numbers(d)
              /\ d # out => Torn(d)' = Torn(d)
              /\ d = out => /\ Torn(d)' = Torn(d) \ {Entry(line)}
                            /\ Entry(line) \in Torn(d)
  <1>1. out \in Dirs /\ archives \in [Dirs -> Seq(File)] /\ current \in [Dirs -> File]
    BY DEF Types
  <1> SUFFICES ASSUME NEW d \in Dirs
               PROVE  /\ InOrder(Files(d))' /\ Numbers(d)' = Numbers(d)
                      /\ d # out => Torn(d)' = Torn(d)
                      /\ d = out => /\ Torn(d)' = Torn(d) \ {Entry(line)}
                                    /\ Entry(line) \in Torn(d)
    OBVIOUS
  <1>2. CASE d # out
    <2>1. archives'[d] = archives[d] /\ current'[d] = current[d]
      BY <1>1, <1>2 DEF Newline
    <2>2. /\ Files(d)' = Files(d) /\ Numbers(d)' = Numbers(d) /\ Torn(d)' = Torn(d)
      BY <2>1, SameFiles
    <2> QED BY <1>2, <2>2
  <1>3. CASE d = out
    <2>1. /\ archives[d] \in Seq(File) /\ current[d] \in File
          /\ archives'[d] = archives[d]
          /\ current'[d] = [current[d] EXCEPT ![Len(current[d])].whole = TRUE]
      BY <1>1, <1>3 DEF Newline
    <2>2. PICK front \in File, e \in EntryType :
              /\ current[d] = Append(front, e) /\ e = Entry(line)
              /\ [e EXCEPT !.whole = TRUE] \in EntryType
              /\ current'[d] = Append(front, [e EXCEPT !.whole = TRUE])
      <3>1. PICK file \in File : file = current[d]
        BY <2>1
      <3>2. PICK front \in File, e \in EntryType :
                /\ file = Append(front, e) /\ file[Len(file)] = e
                /\ [e EXCEPT !.whole = TRUE] \in EntryType
                /\ [file EXCEPT ![Len(file)].whole = TRUE]
                       = Append(front, [e EXCEPT !.whole = TRUE])
        BY <1>3, <3>1, LastEntry
      <3>3. e = Entry(line)
        BY <1>3, <3>1, <3>2
      <3>4. current'[d] = [file EXCEPT ![Len(file)].whole = TRUE]
        BY <2>1, <3>1
      <3> QED BY <3>1, <3>2, <3>3, <3>4
    <2> DEFINE w == [e EXCEPT !.whole = TRUE]
    <2>3. w.n = e.n /\ w.whole /\ w \in EntryType /\ ~e.whole
      BY <2>2 DEF EntryType, Entry, Part
    <2> HIDE DEF w
    <2>4. /\ current'[d] = Append(front, w) /\ current'[d] \in File
          /\ Range(current[d]) = Range(front) \cup {e}
          /\ Range(current'[d]) = Range(front) \cup {w}
      BY <2>2, <2>3, RangeOfAppend DEF w
    <2> DEFINE Older == EntriesOf(archives[d]) \cup Range(front)
    <2>5. Entries(d) = Older \cup {e} /\ Entries(d)' = Older \cup {w}
      <3>1. /\ Entries(d) = EntriesOf(archives[d]) \cup Range(current[d])
            /\ Entries(d)' = EntriesOf(archives[d]) \cup Range(current'[d])
        BY <2>1, <2>4, FilesType DEF Entries, Files
      <3> QED BY <2>4, <3>1
    <2>6. /\ InOrder(archives[d]) /\ Increasing(current[d])
          /\ \A x \in EntriesOf(archives[d]), y \in Range(current[d]) : x.n < y.n
      <3>1. InOrder(Append(archives[d], current[d]))
        BY DEF Files
      <3> QED BY <2>1, <3>1, FilesAppend
    <2>7. Increasing(front) /\ \A x \in Range(front) : x.n < e.n
      BY <2>2, <2>6, IncreasingAppend
    <2>8. InOrder(Files(d))'
      <3>1. Increasing(current'[d])
        BY <2>3, <2>4, <2>7, IncreasingAppend
      <3>2. \A x \in EntriesOf(archives[d]), y \in Range(current'[d]) : x.n < y.n
        BY <2>3, <2>4, <2>6
      <3>3. InOrder(Append(archives[d], current'[d]))
        BY <2>1, <2>4, <2>6, <3>1, <3>2, FilesAppend
      <3> QED BY <2>1, <3>3 DEF Files
    <2>9. e \notin Older
      <3>1. \A x \in Older : x.n < e.n
        BY <2>4, <2>6, <2>7
      <3>2. e.n \in Nat
        BY <2>2 DEF EntryType
      <3> HIDE DEF Older
      <3> QED BY <3>1, <3>2
    <2> HIDE DEF Older
    <2>10. Numbers(d)' = Numbers(d)
      BY <2>3, <2>5 DEF Numbers
    <2>11. Torn(d)' = Torn(d) \ {e} /\ e \in Torn(d)
      BY <2>3, <2>5, <2>9 DEF Torn
    <2> QED BY <1>3, <2>2, <2>8, <2>10, <2>11
  <1> QED BY <1>2, <1>3

-----------------------------------------------------------------------------
(* Every step keeps the invariant *)

\* What any step may do to the lines of a directory.
LEMMA StepNumbers ==
    ASSUME Types, Ordered, Hand, AtNewline, [Next]_vars
    PROVE  \A d \in Dirs :
              /\ InOrder(Files(d))'
              /\ \/ Numbers(d)' = Numbers(d) /\ ~(Puts /\ d = out)
                 \/ /\ Prune /\ d = out /\ Numbers(d)' \subseteq Numbers(d)
                    /\ \A n \in Numbers(d) \ Numbers(d)' : \A m \in Numbers(d)' : n < m
                 \/ Puts /\ d = out /\ Numbers(d)' = Numbers(d) \cup {lines}
  <1>1. \A d \in Dirs : InOrder(Files(d))
    BY DEF Ordered
  <1>2. CASE UNCHANGED disk
    <2>1. ~Puts
      <3>1. Puts => \E e \in EntryType : current' = [current EXCEPT ![out] = Append(@, e)]
        BY PutsEntry
      <3>2. Puts => current'[out] # current[out]
        <4>1. /\ out \in Dirs /\ current[out] \in File /\ current \in [Dirs -> File]
          BY DEF Types
        <4>2. \A e \in EntryType : Len(Append(current[out], e)) # Len(current[out])
          BY <4>1, AppendProperties DEF File
        <4>3. Puts => \E e \in EntryType : current'[out] = Append(current[out], e)
          BY <3>1, <4>1
        <4> QED BY <4>2, <4>3
      <3> QED BY <1>2, <3>2 DEF disk
    <2>2. \A d \in Dirs : Files(d)' = Files(d) /\ Numbers(d)' = Numbers(d)
      BY <1>2, SameFiles DEF disk
    <2> QED BY <1>1, <2>1, <2>2
  <1>3. CASE Rename
    <2>1. ~Puts
      BY <1>3 DEF Rename, Puts, Text, DiesWriting, Death
    <2> QED BY <1>1, <1>3, <2>1, RenameFiles
  <1>4. CASE Prune
    <2>1. ~Puts
      BY <1>4 DEF Prune, Puts, Text, DiesWriting, Death
    <2>2. \A d \in Dirs :
              /\ InOrder(Files(d))' /\ Numbers(d)' \subseteq Numbers(d)
              /\ \A n \in Numbers(d) \ Numbers(d)' : \A m \in Numbers(d)' : n < m
              /\ d # out => Numbers(d)' = Numbers(d)
      BY <1>1, <1>4, PruneFiles
    <2> QED BY <1>4, <2>1, <2>2
  <1>5. CASE Puts
    <2>1. /\ line.n = lines /\ lines \in Nat /\ out \in Dirs
          /\ Numbers(out) \subseteq 1..lines /\ lines \notin Numbers(out)
      BY <1>5 DEF Puts, Text, DiesWriting, Death, Types, Hand, InHand, Writing, Ordered
    <2>2. \A n \in Numbers(out) : n < line.n
      BY <2>1
    <2>3. \A d \in Dirs :
              /\ InOrder(Files(d))'
              /\ d # out => Numbers(d)' = Numbers(d)
              /\ d = out => Numbers(d)' = Numbers(d) \cup {line.n}
      BY <1>1, <1>5, <2>2, PutsFiles
    <2> QED BY <1>5, <2>1, <2>3
  <1>6. CASE Newline
    <2>1. ~Puts
      BY <1>6 DEF Newline, Puts, Text, DiesWriting, Death
    <2>2. current[out] # <<>> /\ current[out][Len(current[out])] = Entry(line)
      BY <1>6 DEF Newline, AtNewline
    <2>3. \A d \in Dirs : InOrder(Files(d))' /\ Numbers(d)' = Numbers(d)
      BY <1>1, <1>6, <2>2, NewlineFiles
    <2> QED BY <2>1, <2>3
  <1>7. UNCHANGED disk \/ Rename \/ Prune \/ Puts \/ Newline
    BY DEF Puts, Next, vars, disk, Start, Open, Read, EndOfInput, Exits, Flags, Write,
       Check, Create, Dies, Death, Signal
  <1> QED BY <1>2, <1>3, <1>4, <1>5, <1>6, <1>7

LEMMA StepOrdered ==
    ASSUME Types, Ordered, Hand, AtNewline, [Next]_vars
    PROVE  Ordered'
  <1>1. lines \in Nat /\ lines' \in Nat /\ lines <= lines'
    <2>1. lines' = lines \/ lines' = lines + 1
      BY DEF Next, vars, disk, others, Start, Open, Read, EndOfInput, Exits, Flags,
         Write, Check, Rename, Prune, Create, Text, DiesWriting, Death, Newline, Dies,
         Signal
    <2> QED BY <2>1 DEF Types
  <1> SUFFICES ASSUME NEW d \in Dirs
               PROVE  InOrder(Files(d))' /\ Numbers(d)' \subseteq 1..lines'
    BY DEF Ordered
  <1>2. InOrder(Files(d))'
    BY StepNumbers
  <1>3. \/ Numbers(d)' \subseteq Numbers(d)
        \/ Puts /\ Numbers(d)' = Numbers(d) \cup {lines}
    BY StepNumbers
  <1>4. Numbers(d) \subseteq 1..lines
    BY DEF Ordered
  <1>5. Puts => lines > 0
    BY DEF Hand, Writing, Puts, Text, DiesWriting, Death
  <1> QED BY <1>1, <1>2, <1>3, <1>4, <1>5

LEMMA StepHand ==
    ASSUME Types, Ordered, Hand, AtNewline, [Next]_vars
    PROVE  Hand'
  <1>1. \A d \in Dirs : Numbers(d)' = Numbers(d) \/ Prune \/ Puts
    BY StepNumbers
  <1>2. \A d \in Dirs : Numbers(d) \subseteq 1..lines
    BY DEF Ordered
  <1>3. out \in Dirs /\ Dirs \subseteq Nat /\ lines \in Nat /\ 1 \in Dirs
    BY LksyslogdAssumption DEF Types, Dirs
  <1>4. CASE Read
    <2>1. /\ pc' = "got" /\ lines' = lines + 1 /\ line'.n = lines' /\ ~Prune /\ ~Puts
      BY <1>4 DEF Read, Prune, Text, Puts, DiesWriting, Death
    <2>2. \A d \in Dirs : lines' \notin Numbers(d)'
      BY <1>1, <1>2, <1>3, <2>1
    <2> QED BY <1>3, <2>1, <2>2 DEF Hand, InHand
  <1>5. CASE Flags
    <2>1. ~Prune /\ ~Puts
      BY <1>5 DEF Flags, Prune, Text, Puts, DiesWriting, Death
    <2>2. CASE pc' = "check"
      <3>1. out' = 1 /\ UNCHANGED <<line, lines>> /\ pc = "got"
        BY <1>5, <2>2 DEF Flags, Exits, others
      <3>2. \A d \in Dirs : InHand(d) /\ InHand(d)'
        BY <1>3, <2>2, <3>1 DEF InHand, Writing, Dirs
      <3> QED BY <1>1, <2>1, <3>1, <3>2 DEF Hand
    <2>3. CASE pc' # "check"
      BY <1>5, <2>3 DEF Flags, Exits, Hand, Writing
    <2> QED BY <2>2, <2>3
  <1>6. CASE Check \/ Rename \/ Create
    <2>1. /\ pc \in Writing \ {"newline"} /\ pc' \in Writing \ {"newline"}
          /\ UNCHANGED <<out, line, lines>> /\ ~Prune /\ ~Puts
      BY <1>6 DEF Check, Rename, Create, Prune, Text, Puts, DiesWriting, Death, Writing, others
    <2>2. \A d \in Dirs : InHand(d)' <=> InHand(d)
      BY <2>1 DEF InHand, Writing
    <2>3. \A d \in Dirs : Numbers(d)' = Numbers(d)
      BY <1>1, <2>1
    <2>4. /\ line.n = lines /\ lines > 0
          /\ \A d \in Dirs : InHand(d) <=> lines \notin Numbers(d)
      BY <2>1 DEF Hand
    <2> QED BY <2>1, <2>2, <2>3, <2>4 DEF Hand
  <1>7. CASE Prune
    <2>1. /\ pc = "prune" /\ pc' = pc /\ UNCHANGED <<out, line, lines>> /\ ~Puts
      BY <1>7 DEF Prune, Text, Puts, DiesWriting, Death, others
    <2>2. \A d \in Dirs : InHand(d)' <=> InHand(d)
      BY <2>1 DEF InHand
    <2>3. /\ line.n = lines /\ lines > 0
          /\ \A d \in Dirs : InHand(d) <=> lines \notin Numbers(d)
      BY <2>1 DEF Hand, Writing
    <2>4. \A d \in Dirs : \/ Numbers(d)' = Numbers(d)
                          \/ d = out /\ Numbers(d)' \subseteq Numbers(d)
      BY <2>1, StepNumbers
    <2>5. InHand(out)
      BY <2>1 DEF InHand, Writing
    <2>6. \A d \in Dirs : InHand(d) <=> lines \notin Numbers(d)'
      BY <1>3, <2>3, <2>4, <2>5
    <2> QED BY <2>1, <2>2, <2>3, <2>6 DEF Hand
  <1>8. CASE Text
    <2>1. pc = "text" /\ pc' = "newline" /\ UNCHANGED <<out, line, lines>> /\ ~Prune
      BY <1>8 DEF Prune, Text, Puts, DiesWriting, Death, others
    <2>2. \A d \in Dirs : InHand(d)' <=> InHand(d) /\ d # out
      BY <1>3, <2>1 DEF InHand, Writing
    <2>3. /\ line.n = lines /\ lines > 0
          /\ \A d \in Dirs : InHand(d) <=> lines \notin Numbers(d)
      BY <2>1 DEF Hand, Writing
    <2>4. \A d \in Dirs : \/ Numbers(d)' = Numbers(d) /\ d # out
                          \/ d = out /\ Numbers(d)' = Numbers(d) \cup {lines}
      BY <1>8, <2>1, StepNumbers DEF Puts
    <2>5. \A d \in Dirs : InHand(d)' <=> lines \notin Numbers(d)'
      BY <2>2, <2>3, <2>4
    <2> QED BY <2>1, <2>3, <2>5 DEF Hand
  <1>9. CASE Newline
    <2>1. pc = "newline" /\ UNCHANGED <<line, lines>> /\ ~Prune /\ ~Puts /\ GoesOn
      BY <1>9 DEF Newline, Prune, Text, Puts, DiesWriting, Death, others
    <2>2. CASE out < Outputs
      <3>1. out' = out + 1 /\ pc' = "check"
        BY <2>1, <2>2 DEF GoesOn
      <3>2. \A d \in Dirs : InHand(d)' <=> InHand(d)
        BY <1>3, <2>1, <3>1 DEF InHand, Writing
      <3>3. /\ line.n = lines /\ lines > 0
            /\ \A d \in Dirs : InHand(d) <=> lines \notin Numbers(d)
        BY <2>1 DEF Hand, Writing
      <3>4. \A d \in Dirs : Numbers(d)' = Numbers(d)
        BY <1>1, <2>1
      <3> QED BY <2>1, <3>2, <3>3, <3>4 DEF Hand
    <2>3. CASE ~(out < Outputs)
      BY <2>1, <2>3 DEF GoesOn, Hand, Writing
    <2> QED BY <2>2, <2>3
  <1>10. CASE Signal \/ UNCHANGED vars
    <2>1. UNCHANGED <<pc, out, line, lines>> /\ UNCHANGED disk
      BY <1>10 DEF Signal, vars, disk
    <2>2. \A d \in Dirs : Numbers(d)' = Numbers(d)
      BY <2>1, SameFiles DEF disk
    <2>3. \A d \in Dirs : InHand(d)' <=> InHand(d)
      BY <2>1 DEF InHand
    <2> QED BY <2>1, <2>2, <2>3 DEF Hand
  <1>11. CASE Start \/ Open \/ EndOfInput \/ Dies \/ DiesWriting
    <2>1. pc' \in {"off", "open", "read"}
      BY <1>11 DEF Start, Open, EndOfInput, Exits, Dies, DiesWriting, Death
    <2> QED BY <2>1 DEF Hand, Writing
  <1> QED
    BY <1>4, <1>5, <1>6, <1>7, <1>8, <1>9, <1>10, <1>11 DEF Next, Write

LEMMA StepAtNewline ==
    ASSUME Types, AtNewline, [Next]_vars
    PROVE  AtNewline'
  <1>1. CASE Text
    <2>1. /\ out \in Dirs /\ current[out] \in File /\ Entry(line) \in EntryType
          /\ current \in [Dirs -> File]
      BY DEF Types, Entry, Part, EntryType
    <2>2. /\ out' = out /\ line' = line
          /\ current'[out] = Append(current[out], Entry(line))
      BY <1>1, <2>1 DEF Text
    <2>3. /\ Append(current[out], Entry(line)) # <<>>
          /\ Len(Append(current[out], Entry(line))) = Len(current[out]) + 1
          /\ Append(current[out], Entry(line))[Len(current[out]) + 1] = Entry(line)
      BY <2>1, AppendProperties DEF File
    <2> QED BY <2>2, <2>3 DEF AtNewline, Entry, Part
  <1>2. CASE Signal \/ UNCHANGED vars
    BY <1>2 DEF Signal, vars, disk, AtNewline, Entry, Part
  <1>3. CASE ~Text /\ ~Signal /\ ~UNCHANGED vars
    <2>1. pc' # "newline"
      BY <1>3 DEF Next, Write, Start, Open, Read, EndOfInput, Exits, Flags, Check,
         Rename, Prune, Create, Newline, GoesOn, Dies, DiesWriting, Death, others
    <2> QED BY <2>1 DEF AtNewline
  <1> QED BY <1>1, <1>2, <1>3

LEMMA StepFirst ==
    ASSUME Types, Ordered, Hand, AtNewline, FirstIsComplete, [Next]_vars
    PROVE  FirstIsComplete'
  <1> SUFFICES ASSUME NEW d \in Dirs, NEW e \in Dirs, d < e, NEW n \in Numbers(e)'
               PROVE  n \in Numbers(d)' \/ \A m \in Numbers(d)' : n < m
    BY DEF FirstIsComplete
  <1>1. /\ d \in Nat /\ e \in Nat /\ out \in Nat /\ lines \in Nat
        /\ Numbers(d) \subseteq 1..lines /\ Numbers(e) \subseteq 1..lines
    BY DEF Dirs, Types, Ordered
  <1>2. \A k \in Numbers(e) : k \in Numbers(d) \/ \A m \in Numbers(d) : k < m
    BY DEF FirstIsComplete
  <1>3. CASE Numbers(d)' = Numbers(d) /\ Numbers(e)' \subseteq Numbers(e)
    BY <1>2, <1>3
  <1>4. CASE Prune /\ d = out
    <2>1. Numbers(e)' = Numbers(e)
      <3>1. ~Puts /\ e # out
        BY <1>1, <1>4 DEF Prune, Puts, Text, DiesWriting, Death
      <3> QED BY <3>1, StepNumbers
    <2>2. /\ Numbers(d)' \subseteq Numbers(d)
          /\ \A k \in Numbers(d) \ Numbers(d)' : \A m \in Numbers(d)' : k < m
      <3>1. ~Puts
        BY <1>4 DEF Prune, Puts, Text, DiesWriting, Death
      <3> QED BY <1>4, <3>1, StepNumbers
    <2> QED BY <1>2, <2>1, <2>2
  <1>5. CASE Puts /\ d = out
    <2>1. Numbers(e)' = Numbers(e) /\ Numbers(d)' = Numbers(d) \cup {lines}
      <3>1. ~Prune /\ e # out
        BY <1>1, <1>5 DEF Prune, Puts, Text, DiesWriting, Death
      <3> QED BY <1>5, <3>1, StepNumbers
    <2>2. lines \notin Numbers(e)
      BY <1>1, <1>5 DEF Puts, Text, DiesWriting, Death, Hand, InHand, Writing
    <2>3. n < lines
      BY <1>1, <2>1, <2>2
    <2> QED BY <1>2, <2>1, <2>3
  <1>6. CASE Puts /\ e = out
    <2>1. Numbers(d)' = Numbers(d) /\ Numbers(e)' = Numbers(e) \cup {lines}
      <3>1. ~Prune /\ d # out
        BY <1>1, <1>6 DEF Prune, Puts, Text, DiesWriting, Death
      <3> QED BY <1>6, <3>1, StepNumbers
    <2>2. lines \in Numbers(d)
      BY <1>1, <1>6 DEF Puts, Text, DiesWriting, Death, Hand, InHand, Writing
    <2> QED BY <1>2, <2>1, <2>2
  <1>7. /\ \/ Numbers(d)' = Numbers(d)
           \/ d = out /\ (Prune \/ Puts)
        /\ \/ Numbers(e)' \subseteq Numbers(e)
           \/ e = out /\ Puts
    BY StepNumbers
  <1> QED BY <1>3, <1>4, <1>5, <1>6, <1>7

LEMMA OneMore ==
    ASSUME NEW S, IsFiniteSet(S), NEW x
    PROVE  /\ IsFiniteSet(S \cup {x}) /\ Cardinality(S) \in Nat
           /\ Cardinality(S \cup {x}) \in Nat
           /\ Cardinality(S \cup {x}) <= Cardinality(S) + 1
  <1>1. Cardinality(S) \in Nat
    BY FS_CardinalityType
  <1>2. /\ IsFiniteSet(S \cup {x})
        /\ Cardinality(S \cup {x}) = IF x \in S THEN Cardinality(S) ELSE Cardinality(S) + 1
    BY FS_AddElement
  <1> QED BY <1>1, <1>2

LEMMA StepFewTorn ==
    ASSUME Types, Ordered, Hand, AtNewline, FewTorn, [Next]_vars
    PROVE  FewTorn'
  <1> DEFINE Allowed(d) == IF pc = "newline" /\ d = out THEN 1 ELSE 0
  <1> SUFFICES ASSUME NEW d \in Dirs
               PROVE  /\ IsFiniteSet(Torn(d)')
                      /\ Cardinality(Torn(d)') <= deaths' + Allowed(d)'
    BY DEF FewTorn, TornByDeath
  <1>1. /\ IsFiniteSet(Torn(d)) /\ Cardinality(Torn(d)) \in Nat
        /\ Cardinality(Torn(d)) <= deaths + Allowed(d)
    BY FS_CardinalityType DEF FewTorn, TornByDeath
  <1>2. \A x \in Dirs : InOrder(Files(x))
    BY DEF Ordered
  <1>3. deaths \in Nat /\ deaths' \in Nat
    BY StepTypes DEF Types
  <1>4. ASSUME Torn(d)' \subseteq Torn(d), deaths + Allowed(d) <= deaths' + Allowed(d)'
        PROVE  /\ IsFiniteSet(Torn(d)')
               /\ Cardinality(Torn(d)') <= deaths' + Allowed(d)'
    <2>1. /\ IsFiniteSet(Torn(d)') /\ Cardinality(Torn(d)') \in Nat
          /\ Cardinality(Torn(d)') <= Cardinality(Torn(d))
      BY <1>1, <1>4, FS_Subset, FS_CardinalityType
    <2> HIDE DEF Allowed
    <2>2. Allowed(d) \in Int /\ Allowed(d)' \in Int
      BY DEF Allowed
    <2> QED BY <1>1, <1>3, <1>4, <2>1, <2>2
  <1>5. CASE \/ Start \/ Open \/ Read \/ EndOfInput \/ Flags \/ Check \/ Create
             \/ Signal \/ UNCHANGED vars
    <2>1. /\ UNCHANGED disk /\ deaths' = deaths
          /\ \/ pc # "newline" /\ pc' # "newline"
             \/ pc' = pc /\ out' = out
      BY <1>5 DEF Start, Open, Read, EndOfInput, Exits, Flags, Check, Create, Signal,
         vars, others, disk
    <2>2. Torn(d)' = Torn(d)
      BY <2>1, SameFiles DEF disk
    <2>3. deaths + Allowed(d) <= deaths' + Allowed(d)'
      BY <1>3, <2>1
    <2> QED BY <1>4, <2>2, <2>3
  <1>6. CASE Dies
    <2>1. UNCHANGED disk /\ deaths' = deaths + 1
      BY <1>6 DEF Dies, Death, disk
    <2>2. Torn(d)' = Torn(d)
      BY <2>1, SameFiles DEF disk
    <2>3. deaths + Allowed(d) <= deaths' + Allowed(d)'
      BY <1>3, <2>1
    <2> QED BY <1>4, <2>2, <2>3
  <1>7. CASE Rename \/ Prune
    <2>1. deaths' = deaths /\ pc # "newline" /\ pc' # "newline"
      BY <1>7 DEF Rename, Prune, others
    <2>2. Torn(d)' \subseteq Torn(d)
      BY <1>2, <1>7, RenameFiles, PruneFiles
    <2>3. deaths + Allowed(d) <= deaths' + Allowed(d)'
      BY <1>3, <2>1
    <2> QED BY <1>4, <2>2, <2>3
  <1>8. CASE Puts
    <2>1. /\ pc = "text" /\ deaths + Allowed(d) <= deaths' + Allowed(d)'
          /\ Allowed(d) = 0 /\ (d = out => deaths + 1 <= deaths' + Allowed(d)')
      <3>1. CASE Text
        BY <1>3, <3>1 DEF Text, others
      <3>2. CASE DiesWriting
        BY <1>3, <3>2 DEF DiesWriting, Death
      <3> QED BY <1>8, <3>1, <3>2 DEF Puts
    <2>2. /\ line.n = lines /\ lines \in Nat /\ out \in Dirs
          /\ Numbers(out) \subseteq 1..lines /\ lines \notin Numbers(out)
      BY <2>1 DEF Types, Hand, InHand, Writing, Ordered
    <2>3. \A n \in Numbers(out) : n < line.n
      BY <2>2
    <2>4. /\ d # out => Torn(d)' = Torn(d)
          /\ d = out => \E e : Torn(d)' = Torn(d) \cup {e}
      BY <1>2, <1>8, <2>3, PutsFiles
    <2>5. CASE d # out
      BY <1>4, <2>1, <2>4, <2>5
    <2>6. CASE d = out
      <3>1. /\ IsFiniteSet(Torn(d)')
            /\ Cardinality(Torn(d)') <= Cardinality(Torn(d)) + 1
        <4>1. \A x : /\ IsFiniteSet(Torn(d) \cup {x})
                     /\ Cardinality(Torn(d) \cup {x}) <= Cardinality(Torn(d)) + 1
          BY <1>1, OneMore
        <4> QED BY <2>4, <2>6, <4>1
      <3>2. Cardinality(Torn(d)') \in Nat
        BY <3>1, FS_CardinalityType
      <3>3. Allowed(d)' \in {0, 1}
        OBVIOUS
      <3> HIDE DEF Allowed
      <3> QED BY <1>1, <1>3, <2>1, <2>6, <3>1, <3>2, <3>3
    <2> QED BY <2>5, <2>6
  <1>9. CASE Newline
    <2>1. deaths' = deaths /\ pc = "newline" /\ pc' # "newline"
      BY <1>9 DEF Newline, GoesOn, others
    <2>2. current[out] # <<>> /\ current[out][Len(current[out])] = Entry(line)
      BY <2>1 DEF AtNewline
    <2>3. /\ d # out => Torn(d)' = Torn(d)
          /\ d = out => Torn(d)' = Torn(d) \ {Entry(line)} /\ Entry(line) \in Torn(d)
      BY <1>2, <1>9, <2>2, NewlineFiles
    <2>4. CASE d # out
      <3>1. deaths + Allowed(d) <= deaths' + Allowed(d)'
        BY <1>3, <2>1, <2>4
      <3> QED BY <1>4, <2>3, <2>4, <3>1
    <2>5. CASE d = out
      <3>1. /\ IsFiniteSet(Torn(d)')
            /\ Cardinality(Torn(d)') = Cardinality(Torn(d)) - 1
        BY <1>1, <2>3, <2>5, FS_RemoveElement
      <3> QED BY <1>1, <1>3, <2>1, <2>5, <3>1
    <2> QED BY <2>4, <2>5
  <1> QED
    BY <1>5, <1>6, <1>7, <1>8, <1>9 DEF Next, Write, Puts

\* A flag counts for one.
LEMMA CountType ==
    /\ \A flag \in BOOLEAN : Count(flag) \in {0, 1}
    /\ Count(TRUE) = 1 /\ Count(FALSE) = 0
  BY DEF Count

LEMMA LostIsFinite ==
    ASSUME Types, NEW d
    PROVE  IsFiniteSet(Lost(d)) /\ Cardinality(Lost(d)) \in Nat
  <1>1. IsFiniteSet(1..lines)
    BY FS_Interval DEF Types
  <1>2. Lost(d) \subseteq 1..lines
    BY DEF Lost, Missing
  <1> QED BY <1>1, <1>2, FS_Subset, FS_CardinalityType

\* Only where a line is dropped that is in hand one more can be lost.
LEMMA StepLost ==
    ASSUME Types, Ordered, Hand, AtNewline, [Next]_vars, NEW d \in Dirs
    PROVE  /\ Lost(d)' \subseteq Lost(d) \cup {lines}
           /\ \/ Lost(d)' \subseteq Lost(d)
              \/ Dies \/ DiesWriting
              \/ Flags /\ (term \/ hup)
  <1>1. /\ lines \in Nat /\ d \in Nat /\ out \in Nat
        /\ Numbers(d) \subseteq 1..lines /\ Numbers(d)' \subseteq 1..lines'
    BY StepOrdered DEF Types, Ordered, Dirs
  <1>2. \A n : n \in Lost(d) <=>
            /\ n \in 1..lines /\ n \notin Numbers(d) /\ \E m \in Numbers(d) : m < n
            /\ ~(InHand(d) /\ n = lines)
    BY DEF Lost, Missing
  <1>3. \A n : n \in Lost(d)' <=>
            /\ n \in 1..lines' /\ n \notin Numbers(d)'
            /\ \E m \in Numbers(d)' : m < n
            /\ ~(InHand(d)' /\ n = lines')
    BY DEF Lost, Missing
  <1>4. CASE Read
    <2>1. Numbers(d)' = Numbers(d)
      BY <1>4, SameFiles DEF Read, disk
    <2>2. lines' = lines + 1 /\ InHand(d)' /\ ~InHand(d)
      BY <1>4 DEF Read, InHand, Writing
    <2>3. Lost(d)' \subseteq Lost(d)
      BY <1>1, <1>2, <1>3, <2>1, <2>2
    <2> QED BY <2>3
  <1>5. CASE Prune
    <2>1. /\ Numbers(d)' \subseteq Numbers(d)
          /\ \A n \in Numbers(d) \ Numbers(d)' : \A m \in Numbers(d)' : n < m
      BY <1>5, PruneFiles DEF Ordered
    <2>2. lines' = lines /\ (InHand(d)' <=> InHand(d))
      BY <1>5 DEF Prune, InHand, others
    <2>3. Lost(d)' \subseteq Lost(d)
      <3> SUFFICES ASSUME NEW n \in Lost(d)' PROVE n \in Lost(d)
        OBVIOUS
      <3>1. n \notin Numbers(d)
        BY <1>1, <1>3, <2>1
      <3> QED BY <1>2, <1>3, <2>1, <2>2, <3>1
    <2> QED BY <2>3
  <1>6. CASE Text
    <2>1. /\ lines' = lines /\ pc = "text" /\ pc' = "newline" /\ out' = out
      BY <1>6 DEF Text, others
    <2>2. d # out => /\ Numbers(d)' = Numbers(d) /\ (InHand(d)' <=> InHand(d))
      <3>1. d # out => Numbers(d)' = Numbers(d)
        BY StepNumbers
      <3> QED BY <2>1, <3>1 DEF InHand, Writing
    <2>3. d = out => Numbers(d)' = Numbers(d) \cup {lines}
      <3>1. Puts /\ ~Prune
        BY <1>6 DEF Text, Prune, Puts
      <3> QED BY <3>1, StepNumbers
    <2>4. Lost(d)' \subseteq Lost(d)
      <3> SUFFICES ASSUME NEW n \in Lost(d)' PROVE n \in Lost(d)
        OBVIOUS
      <3>1. CASE d # out
        BY <1>2, <1>3, <2>1, <2>2, <3>1
      <3>2. CASE d = out
        <4>1. /\ n \in 1..lines /\ n \notin Numbers(d) /\ n # lines
          BY <1>3, <2>1, <2>3, <3>2
        <4>2. PICK m \in Numbers(d)' : m < n
          BY <1>3
        <4>3. m \in Numbers(d)
          BY <1>1, <2>3, <3>2, <4>1, <4>2
        <4> QED BY <1>2, <4>1, <4>2, <4>3
      <3> QED BY <3>1, <3>2
    <2> QED BY <2>4
  <1>7. CASE Newline
    <2>1. /\ lines' = lines /\ pc = "newline" /\ GoesOn
      BY <1>7 DEF Newline, others
    <2>2. Numbers(d)' = Numbers(d)
      <3>1. ~Prune /\ ~Puts
        BY <1>7 DEF Newline, Text, Prune, Puts, DiesWriting
      <3> QED BY <3>1, StepNumbers
    <2>3. InHand(d)' <=> InHand(d)
      <3>1. out \in 1..Outputs /\ d \in 1..Outputs /\ Outputs \in Nat
        BY LksyslogdAssumption DEF Types, Dirs
      <3>2. CASE out < Outputs
        <4>1. out' = out + 1 /\ pc' = "check"
          BY <2>1, <3>2 DEF GoesOn
        <4> QED BY <1>1, <2>1, <4>1 DEF InHand, Writing
      <3>3. CASE ~(out < Outputs)
        <4>1. pc' = "read" /\ out = Outputs
          BY <2>1, <3>1, <3>3 DEF GoesOn
        <4> QED BY <2>1, <3>1, <4>1 DEF InHand, Writing
      <3> QED BY <3>2, <3>3
    <2> QED BY <1>2, <1>3, <2>1, <2>2, <2>3
  <1>8. CASE Dies \/ Flags
    <2>1. UNCHANGED disk /\ lines' = lines
      BY <1>8 DEF Dies, Death, Flags, Exits, disk, others
    <2>2. Numbers(d)' = Numbers(d)
      BY <2>1, SameFiles DEF disk
    <2>3. Lost(d)' \subseteq Lost(d) \cup {lines}
      BY <1>2, <1>3, <2>1, <2>2
    <2>4. CASE Flags /\ ~term /\ ~hup
      <3>1. pc' = "check" /\ out' = 1
        BY <2>4 DEF Flags
      <3>2. InHand(d)'
        BY <1>1, <3>1 DEF InHand, Writing, Dirs
      <3>3. Lost(d)' \subseteq Lost(d)
        BY <1>2, <1>3, <2>1, <2>2, <3>2
      <3> QED BY <2>3, <3>3
    <2> QED BY <1>8, <2>3, <2>4
  <1>9. CASE \/ Start \/ Open \/ EndOfInput \/ Check \/ Rename \/ Create
             \/ Signal \/ UNCHANGED vars
    <2>1. Numbers(d)' = Numbers(d)
      <3>1. CASE Rename
        BY <3>1, RenameFiles DEF Ordered
      <3>2. CASE UNCHANGED disk
        BY <3>2, SameFiles DEF disk
      <3>3. Rename \/ UNCHANGED disk
        BY <1>9 DEF Start, Open, EndOfInput, Exits, Check, Create, Signal, vars, disk
      <3> QED BY <3>1, <3>2, <3>3
    <2>2. lines' = lines /\ (InHand(d)' <=> InHand(d))
      BY <1>9 DEF Start, Open, EndOfInput, Exits, Check, Rename, Create, Signal, vars,
         others, InHand, Writing
    <2> QED BY <1>2, <1>3, <2>1, <2>2
  <1>10. CASE DiesWriting
    <2>1. /\ lines' = lines /\ ~Prune
          /\ (Numbers(d)' = Numbers(d) \/ Numbers(d)' = Numbers(d) \cup {lines})
      <3>1. lines' = lines /\ ~Prune
        BY <1>10 DEF DiesWriting, Death, Prune
      <3> QED BY <3>1, StepNumbers
    <2>2. Lost(d)' \subseteq Lost(d) \cup {lines}
      <3> SUFFICES ASSUME NEW n \in Lost(d)', n # lines PROVE n \in Lost(d)
        OBVIOUS
      <3>1. n \in 1..lines /\ n \notin Numbers(d)
        BY <1>3, <2>1
      <3>2. PICK m \in Numbers(d)' : m < n
        BY <1>3
      <3>3. m \in Numbers(d)
        BY <1>1, <2>1, <3>1, <3>2
      <3> QED BY <1>2, <3>1, <3>2, <3>3
    <2> QED BY <1>10, <2>2
  <1> QED
    BY <1>4, <1>5, <1>6, <1>7, <1>8, <1>9, <1>10 DEF Next, Write

LEMMA StepLosses ==
    ASSUME Types, Ordered, Hand, AtNewline, Losses, [Next]_vars
    PROVE  Losses'
  <1> SUFFICES ASSUME NEW d \in Dirs
               PROVE  Cardinality(Lost(d)') + Count(term') + Count(hup')
                          <= signals' + deaths'
    BY DEF Losses
  <1> DEFINE before == Cardinality(Lost(d))
             after == Cardinality(Lost(d)')
  <1>1. /\ term \in BOOLEAN /\ hup \in BOOLEAN /\ term' \in BOOLEAN /\ hup' \in BOOLEAN
        /\ signals \in Nat /\ deaths \in Nat
    BY StepTypes, Zenon DEF Types
  <1>2. /\ Count(term) \in {0, 1} /\ Count(hup) \in {0, 1}
        /\ Count(term') \in {0, 1} /\ Count(hup') \in {0, 1}
    BY <1>1, CountType, Zenon
  <1>3. before \in Nat /\ IsFiniteSet(Lost(d))
    BY LostIsFinite
  <1>4. after \in Nat /\ after <= before + 1
    <2>1. Lost(d)' \subseteq Lost(d) \cup {lines}
      BY StepLost
    <2>2. /\ IsFiniteSet(Lost(d) \cup {lines})
          /\ Cardinality(Lost(d) \cup {lines}) \in Nat
          /\ Cardinality(Lost(d) \cup {lines}) <= before + 1
      BY <1>3, OneMore
    <2>3. /\ IsFiniteSet(Lost(d)')
          /\ Cardinality(Lost(d)') <= Cardinality(Lost(d) \cup {lines})
      BY <2>1, <2>2, FS_Subset
    <2> QED BY <1>3, <2>2, <2>3, FS_CardinalityType
  <1>5. Lost(d)' \subseteq Lost(d) => after <= before
    BY <1>3, FS_Subset
  <1>6. before + Count(term) + Count(hup) <= signals + deaths
    BY DEF Losses
  <1>7. \/ Lost(d)' \subseteq Lost(d)
        \/ Dies \/ DiesWriting
        \/ Flags /\ (term \/ hup)
    BY StepLost
  <1> HIDE DEF before, after
  <1>8. CASE Dies \/ DiesWriting
    <2>1. deaths' = deaths + 1 /\ signals' = signals
      BY <1>8 DEF Dies, DiesWriting, Death
    <2>2. Count(term') = 0 /\ Count(hup') = 0
      BY <1>8, CountType, Zenon DEF Dies, DiesWriting, Death
    <2> QED BY <1>1, <1>2, <1>3, <1>4, <1>6, <2>1, <2>2 DEF before, after
  <1>9. CASE Flags /\ (term \/ hup)
    <2>1. deaths' = deaths /\ signals' = signals
      BY <1>9 DEF Flags, Exits, others
    <2>2. Count(term') + Count(hup') + 1 <= Count(term) + Count(hup)
      <3>1. CASE term
        <4>1. Count(term) = 1 /\ Count(term') = 0 /\ Count(hup') = 0
          BY <1>1, <1>9, <3>1, CountType, Zenon DEF Flags, Exits
        <4> QED BY <1>2, <4>1
      <3>2. CASE ~term
        <4>1. Count(hup) = 1 /\ Count(hup') = 0 /\ Count(term') = Count(term)
          BY <1>1, <1>9, <3>2, CountType, Zenon DEF Flags
        <4> QED BY <1>2, <4>1
      <3> QED BY <3>1, <3>2
    <2> QED BY <1>1, <1>2, <1>3, <1>4, <1>6, <2>1, <2>2 DEF before, after
  <1>10. CASE Lost(d)' \subseteq Lost(d) /\ Signal
    <2>1. deaths' = deaths /\ signals' = signals + 1
      BY <1>10 DEF Signal
    <2>2. \/ Count(term') = Count(term)
          \/ Count(hup') = Count(hup)
      BY <1>10, Zenon DEF Signal
    <2>3. Count(term') + Count(hup') <= Count(term) + Count(hup) + 1
      BY <1>2, <2>2
    <2> QED BY <1>1, <1>2, <1>3, <1>4, <1>5, <1>6, <1>10, <2>1, <2>3 DEF before, after
  <1>11. CASE Lost(d)' \subseteq Lost(d) /\ ~Signal /\ ~Dies /\ ~DiesWriting
               /\ ~(Flags /\ (term \/ hup))
    <2>1. deaths' = deaths /\ signals' = signals
      BY <1>11 DEF Next, Write, Start, Open, Read, EndOfInput, Exits, Flags, Check,
         Rename, Prune, Create, Text, Newline, vars, others
    <2>2. \/ Count(term') = Count(term) /\ Count(hup') = Count(hup)
          \/ Count(term') = 0 /\ Count(hup') = 0
      <3>1. CASE EndOfInput
        BY <3>1, CountType, Zenon DEF EndOfInput, Exits
      <3>2. CASE Flags
        BY <1>1, <1>11, <3>2, Zenon DEF Flags
      <3>3. CASE \/ Start \/ Open \/ Read \/ Check \/ Rename \/ Prune \/ Create
                 \/ Text \/ Newline \/ UNCHANGED vars
        BY <3>3 DEF Start, Open, Read, Check, Rename, Prune, Create, Text, Newline, vars
      <3> QED BY <1>11, <3>1, <3>2, <3>3 DEF Next, Write
    <2>3. Count(term') + Count(hup') <= Count(term) + Count(hup)
      BY <1>2, <2>2
    <2> QED BY <1>1, <1>2, <1>3, <1>4, <1>5, <1>6, <1>11, <2>1, <2>3 DEF before, after
  <1> QED BY <1>7, <1>8, <1>9, <1>10, <1>11

\* The newline is one byte of a line.
LEMMA EndedFile ==
    ASSUME NEW file \in File, file # <<>>, ~file[Len(file)].whole
    PROVE  /\ PayloadOf([file EXCEPT ![Len(file)].whole = TRUE]) = PayloadOf(file) + 1
           /\ Len([file EXCEPT ![Len(file)].whole = TRUE]) = Len(file)
  <1>1. PICK front \in File, e \in EntryType :
            /\ file = Append(front, e) /\ file[Len(file)] = e
            /\ [e EXCEPT !.whole = TRUE] \in EntryType
            /\ [file EXCEPT ![Len(file)].whole = TRUE]
                   = Append(front, [e EXCEPT !.whole = TRUE])
    BY LastEntry
  <1> DEFINE w == [e EXCEPT !.whole = TRUE]
  <1>2. w \in EntryType /\ w.whole /\ w.length = e.length /\ e.length \in Nat /\ ~e.whole
    BY <1>1 DEF EntryType
  <1> HIDE DEF w
  <1>3. /\ PayloadOf(file) = PayloadOf(front) + Payload(e)
        /\ PayloadOf(Append(front, w)) = PayloadOf(front) + Payload(w)
        /\ PayloadOf(front) \in Nat
    BY <1>1, <1>2, PayloadOfAppend
  <1>4. Payload(w) = Payload(e) + 1 /\ Payload(e) \in Int
    <2>1. Payload(w) = e.length /\ Payload(e) = e.length - 1
      BY <1>2 DEF Payload
    <2> QED BY <1>2, <2>1
  <1>5. Len(Append(front, w)) = Len(front) + 1 /\ Len(file) = Len(front) + 1
    BY <1>1, <1>2, AppendProperties DEF File
  <1>6. [file EXCEPT ![Len(file)].whole = TRUE] = Append(front, w)
    BY <1>1 DEF w
  <1>7. PayloadOf(Append(front, w)) = PayloadOf(file) + 1
    BY <1>3, <1>4
  <1> QED BY <1>5, <1>6, <1>7

\* Text and newline, in one place.
LEMMA WrittenFile ==
    ASSUME Types, AtNewline, NEW d \in Dirs
    PROVE  /\ current[d] \in File /\ PayloadOf(current[d]) \in Nat
           /\ Len(current[d]) \in Nat /\ size[d] \in Nat
           /\ line.length \in Nat \ {0} /\ PayloadOf(<<>>) = 0
           /\ Text => IF d # out THEN current'[d] = current[d]
                      ELSE /\ PayloadOf(current'[d]) + 1 = PayloadOf(current[d]) + line.length
                           /\ Len(current'[d]) = Len(current[d]) + 1
           /\ Puts => IF d # out THEN current'[d] = current[d]
                      ELSE /\ PayloadOf(current'[d]) + 1 <= PayloadOf(current[d]) + line.length
                           /\ Len(current'[d]) = Len(current[d]) + 1
           /\ Newline => IF d # out THEN current'[d] = current[d]
                         ELSE /\ PayloadOf(current'[d]) = PayloadOf(current[d]) + 1
                              /\ Len(current'[d]) = Len(current[d])
  <1>1. /\ current \in [Dirs -> File] /\ size \in [Dirs -> Nat] /\ out \in Dirs
        /\ current[d] \in File /\ line.length \in Nat \ {0}
        /\ Entry(line) \in EntryType
    BY DEF Types, Entry, Part, EntryType
  <1>2. PayloadOf(<<>>) = 0 /\ PayloadOf(current[d]) \in Nat /\ Len(current[d]) \in Nat
    BY <1>1, PayloadOfAppend DEF File
  <1>3. ASSUME Puts, d = out
        PROVE  /\ PayloadOf(current'[d]) + 1 <= PayloadOf(current[d]) + line.length
               /\ Text => PayloadOf(current'[d]) + 1 = PayloadOf(current[d]) + line.length
               /\ Len(current'[d]) = Len(current[d]) + 1
    <2>1. PICK e \in EntryType :
              /\ Payload(e) + 1 <= line.length
              /\ Text => Payload(e) + 1 = line.length
              /\ current' = [current EXCEPT ![out] = Append(@, e)]
      BY <1>3, PutsEntry
    <2>2. current'[d] = Append(current[d], e)
      BY <1>1, <1>3, <2>1
    <2>3. /\ PayloadOf(current'[d]) = PayloadOf(current[d]) + Payload(e)
          /\ Len(current'[d]) = Len(current[d]) + 1
      BY <1>1, <2>2, PayloadOfAppend, AppendProperties DEF File
    <2>4. Payload(e) \in Nat
      BY PayloadType
    <2>5. PayloadOf(current'[d]) + 1 <= PayloadOf(current[d]) + line.length
      BY <1>1, <1>2, <2>1, <2>3, <2>4
    <2>6. Text => PayloadOf(current'[d]) + 1 = PayloadOf(current[d]) + line.length
      <3>1. CASE Text
        <4>1. Payload(e) + 1 = line.length
          BY <2>1, <3>1
        <4> QED BY <1>1, <1>2, <2>3, <2>4, <4>1
      <3> QED BY <3>1
    <2> QED BY <2>3, <2>5, <2>6
  <1>4. ASSUME Newline, d = out
        PROVE  /\ PayloadOf(current'[d]) = PayloadOf(current[d]) + 1
               /\ Len(current'[d]) = Len(current[d])
    <2>1. current'[d] = [current[d] EXCEPT ![Len(current[d])].whole = TRUE]
      BY <1>1, <1>4 DEF Newline
    <2>2. current[d] # <<>> /\ ~current[d][Len(current[d])].whole
      BY <1>4 DEF Newline, AtNewline, Entry, Part
    <2>3. PICK file \in File : file = current[d]
      BY <1>1
    <2>4. /\ PayloadOf([file EXCEPT ![Len(file)].whole = TRUE]) = PayloadOf(file) + 1
          /\ Len([file EXCEPT ![Len(file)].whole = TRUE]) = Len(file)
      BY <2>2, <2>3, EndedFile
    <2>5. current'[d] = [file EXCEPT ![Len(file)].whole = TRUE]
      BY <2>1, <2>3
    <2> QED BY <2>3, <2>4, <2>5
  <1>5. (Puts \/ Newline) /\ d # out => current'[d] = current[d]
    BY <1>1, PutsEntry DEF Newline
  <1> QED BY <1>1, <1>2, <1>3, <1>4, <1>5 DEF Puts

LEMMA StepCounted ==
    ASSUME Types, AtNewline, Counted, Room, [Next]_vars
    PROVE  Counted'
  <1> SUFFICES ASSUME NEW d \in Dirs, Opened(d)'
               PROVE  PayloadOf(current'[d]) <= size'[d]
    BY DEF Counted
  <1>1. /\ out \in Nat /\ d \in Nat /\ Outputs \in Nat /\ d <= Outputs /\ out \in Dirs
        /\ out <= Outputs
        /\ current \in [Dirs -> File] /\ size \in [Dirs -> Nat]
    BY LksyslogdAssumption DEF Types, Dirs
  <1>2. /\ PayloadOf(current[d]) \in Nat /\ size[d] \in Nat /\ PayloadOf(<<>>) = 0
        /\ Len(current[d]) \in Nat /\ line.length \in Nat \ {0}
    BY WrittenFile
  <1>3. Opened(d) => PayloadOf(current[d]) <= size[d]
    BY DEF Counted
  <1>4. CASE Open
    <2>1. CASE d = out
      <3>1. size'[d] = PayloadOf(current[d]) + Stamp * Len(current[d])
        BY <1>1, <1>4, <2>1 DEF Open, BytesOf
      <3>2. Stamp * Len(current[d]) \in Nat
        <4>1. Stamp \in Nat
          BY LksyslogdAssumption
        <4> QED BY <1>2, <4>1
      <3>3. current' = current
        BY <1>4 DEF Open, disk
      <3> HIDE DEF Opened
      <3> QED BY <1>2, <3>1, <3>2, <3>3
    <2>2. CASE d # out
      <3>1. Opened(d)
        BY <1>1, <1>4, <2>2 DEF Open, Opened, Writing
      <3>2. size'[d] = size[d] /\ current' = current
        BY <1>1, <1>4, <2>2 DEF Open, disk
      <3> QED BY <1>3, <3>1, <3>2
    <2> QED BY <2>1, <2>2
  <1>5. CASE Rename
    <2>1. Opened(d) /\ size' = size
      BY <1>5 DEF Rename, Opened, Writing
    <2>2. current'[d] = current[d] \/ current'[d] = <<>>
      BY <1>1, <1>5 DEF Rename
    <2> QED BY <1>2, <1>3, <2>1, <2>2
  <1>6. CASE Create
    <2>1. Opened(d) /\ current' = current
      BY <1>6 DEF Create, Opened, Writing, disk
    <2>2. CASE d = out
      <3>1. current[d] = <<>> /\ size'[d] = 0
        BY <1>1, <1>6, <2>2 DEF Create, Room
      <3> QED BY <1>2, <2>1, <3>1
    <2>3. CASE d # out
      <3>1. size'[d] = size[d]
        BY <1>1, <1>6, <2>3 DEF Create
      <3> QED BY <1>3, <2>1, <3>1
    <2> QED BY <2>2, <2>3
  <1>7. CASE Text
    <2>1. d # out /\ size' = size /\ Opened(d)
      BY <1>7 DEF Text, Opened, Writing
    <2>2. current'[d] = current[d]
      BY <1>7, <2>1, WrittenFile
    <2> QED BY <1>3, <2>1, <2>2
  <1>8. CASE Newline
    <2>1. size' = [size EXCEPT ![out] = @ + line.length] /\ pc = "newline"
      BY <1>8 DEF Newline
    <2>2. CASE d = out
      <3>1. PayloadOf(current'[d]) = PayloadOf(current[d]) + 1
        BY <1>8, <2>2, WrittenFile
      <3>2. PayloadOf(current[d]) + 1 <= size[d] + line.length
        BY <2>1, <2>2 DEF Room
      <3>3. size'[d] = size[d] + line.length
        BY <1>1, <2>1, <2>2
      <3> QED BY <3>1, <3>2, <3>3
    <2>3. CASE d # out
      <3>1. Opened(d) /\ size'[d] = size[d]
        BY <1>1, <2>1, <2>3 DEF Opened
      <3>2. current'[d] = current[d]
        BY <1>8, <2>3, WrittenFile
      <3> QED BY <1>3, <3>1, <3>2
    <2> QED BY <2>2, <2>3
  <1>9. CASE Read \/ Flags \/ Check \/ Prune \/ Signal \/ UNCHANGED vars
    <2>1. current' = current /\ size' = size /\ Opened(d)
      BY <1>9 DEF Read, Flags, Exits, Check, Prune, Signal, vars, disk, others, Opened,
         Writing
    <2> QED BY <1>3, <2>1
  <1>10. CASE Start \/ EndOfInput \/ Dies \/ DiesWriting
    <2>1. pc' = "off" \/ (pc' = "open" /\ out' = 1)
      BY <1>10 DEF Start, EndOfInput, Exits, Dies, DiesWriting, Death
    <2> QED BY <1>1, <2>1 DEF Opened, Writing, Dirs
  <1> QED
    BY <1>4, <1>5, <1>6, <1>7, <1>8, <1>9, <1>10 DEF Next, Write

\* The bound on the bytes of a file is one on its bytes without time stamps.
LEMMA ShortIsPayload ==
    \A file \in File :
        Short(file) <=> \/ Len(file) <= 1
                        \/ \E limit \in Limits : PayloadOf(file) <= limit
  <1> SUFFICES ASSUME NEW file \in File
               PROVE  \A limit \in Limits :
                          BytesOf(file) <= limit + Stamp * Len(file)
                              <=> PayloadOf(file) <= limit
    BY DEF Short
  <1>1. /\ PayloadOf(file) \in Nat /\ Len(file) \in Nat /\ Stamp \in Nat
        /\ Limits \subseteq Nat
    BY PayloadNat, LksyslogdAssumption DEF File
  <1>2. PICK stamps \in Nat : stamps = Stamp * Len(file)
    BY <1>1
  <1>3. BytesOf(file) = PayloadOf(file) + stamps
    BY <1>2 DEF BytesOf
  <1> QED BY <1>1, <1>2, <1>3

LEMMA StepAllShort ==
    ASSUME Types, AtNewline, Counted, AllShort, Room, [Next]_vars
    PROVE  AllShort'
  <1> SUFFICES ASSUME NEW d \in Dirs
               PROVE  /\ Short(current'[d])
                      /\ \A i \in DOMAIN archives'[d] : Short(archives'[d][i])
    BY DEF AllShort, Short
  <1>1. /\ current \in [Dirs -> File] /\ archives \in [Dirs -> Seq(File)]
        /\ size \in [Dirs -> Nat] /\ out \in Dirs /\ Limits \subseteq Nat
    BY LksyslogdAssumption DEF Types
  <1>2. /\ Short(current[d]) /\ \A i \in DOMAIN archives[d] : Short(archives[d][i])
        /\ Short(<<>>)
    BY DEF AllShort, Short
  <1>3. /\ PayloadOf(current[d]) \in Nat /\ size[d] \in Nat /\ Len(current[d]) \in Nat
        /\ line.length \in Nat \ {0}
    BY WrittenFile
  <1>4. PayloadOf(current'[d]) \in Nat
    BY StepTypes, PayloadNat DEF Types
  <1>11. current'[d] \in File
    BY StepTypes DEF Types
  <1>10. CASE UNCHANGED disk
    BY <1>2, <1>10 DEF disk
  <1>5. CASE Rename
    <2>1. CASE d = out
      <3>1. /\ current'[d] = <<>> /\ archives'[d] = Append(archives[d], current[d])
            /\ archives[d] \in Seq(File) /\ current[d] \in File
        BY <1>1, <1>5, <2>1 DEF Rename
      <3>2. /\ DOMAIN archives'[d] = 1..Len(archives[d]) + 1 /\ Len(archives[d]) \in Nat
            /\ DOMAIN archives[d] = 1..Len(archives[d])
            /\ \A i \in 1..Len(archives[d]) : archives'[d][i] = archives[d][i]
            /\ archives'[d][Len(archives[d]) + 1] = current[d]
        BY <3>1, AppendProperties, LenProperties
      <3>3. \A i \in DOMAIN archives'[d] : i \in DOMAIN archives[d] \/ i = Len(archives[d]) + 1
        BY <3>2
      <3> QED BY <1>2, <3>1, <3>2, <3>3
    <2>2. CASE d # out
      BY <1>1, <1>2, <1>5, <2>2 DEF Rename
    <2> QED BY <2>1, <2>2
  <1>6. CASE Prune
    <2>1. current'[d] = current[d]
      BY <1>6 DEF Prune
    <2>2. CASE d = out
      <3>1. /\ archives'[d] = Tail(archives[d]) /\ archives[d] # <<>>
            /\ archives[d] \in Seq(File)
        BY <1>1, <1>6, <2>2 DEF Prune, Surplus, Types
      <3>2. /\ DOMAIN archives'[d] = 1..Len(archives[d]) - 1 /\ Len(archives[d]) \in Nat
            /\ DOMAIN archives[d] = 1..Len(archives[d])
            /\ \A i \in 1..Len(archives[d]) - 1 : archives'[d][i] = archives[d][i + 1]
        BY <3>1, HeadTailProperties, LenProperties
      <3>3. \A i \in 1..Len(archives[d]) - 1 : i + 1 \in 1..Len(archives[d])
        BY <3>2
      <3> QED BY <1>2, <2>1, <3>2, <3>3
    <2>3. CASE d # out
      BY <1>1, <1>2, <1>6, <2>3 DEF Prune
    <2> QED BY <2>2, <2>3
  <1>7. CASE Puts
    <2>1. archives' = archives /\ pc = "text"
      BY <1>7, PutsEntry
    <2>2. CASE d = out
      <3>1. /\ PayloadOf(current'[d]) + 1 <= PayloadOf(current[d]) + line.length
            /\ Len(current'[d]) = Len(current[d]) + 1
        BY <1>7, <2>2, WrittenFile
      <3>2. PayloadOf(current[d]) <= size[d]
        BY <2>1, <2>2 DEF Counted, Opened, Writing
      <3>3. CASE current[d] = <<>>
        <4>1. Len(current'[d]) = 1
          BY <3>1, <3>3
        <4> QED BY <1>2, <2>1, <4>1 DEF Short
      <3>4. CASE \E limit \in Limits : size[d] + line.length <= limit
        <4>1. PICK limit \in Limits : size[d] + line.length <= limit
          BY <3>4
        <4>2. PayloadOf(current'[d]) <= limit
          BY <1>1, <1>3, <1>4, <3>1, <3>2, <4>1
        <4>3. Short(current'[d])
          BY <1>11, <4>2, ShortIsPayload
        <4> QED BY <1>2, <2>1, <4>3
      <3> QED BY <2>1, <2>2, <3>3, <3>4 DEF Room
    <2>3. CASE d # out
      <3>1. current'[d] = current[d]
        BY <1>7, <2>3, WrittenFile
      <3> QED BY <1>2, <2>1, <3>1
    <2> QED BY <2>2, <2>3
  <1>8. CASE Newline
    <2>1. archives' = archives /\ pc = "newline"
      BY <1>8 DEF Newline
    <2>2. CASE d = out
      <3>1. /\ PayloadOf(current'[d]) = PayloadOf(current[d]) + 1
            /\ Len(current'[d]) = Len(current[d])
        BY <1>8, <2>2, WrittenFile
      <3>2. \/ Len(current[d]) = 1
            \/ \E limit \in Limits : PayloadOf(current[d]) + 1 <= limit
        BY <2>1, <2>2 DEF Room
      <3>3. Short(current'[d])
        <4>1. CASE Len(current[d]) = 1
          BY <3>1, <4>1 DEF Short
        <4>2. CASE \E limit \in Limits : PayloadOf(current[d]) + 1 <= limit
          <5>1. \E limit \in Limits : PayloadOf(current'[d]) <= limit
            BY <3>1, <4>2
          <5> QED BY <1>11, <5>1, ShortIsPayload
        <4> QED BY <3>2, <4>1, <4>2
      <3> QED BY <1>2, <2>1, <3>3
    <2>3. CASE d # out
      <3>1. current'[d] = current[d]
        BY <1>8, <2>3, WrittenFile
      <3> QED BY <1>2, <2>1, <3>1
    <2> QED BY <2>2, <2>3
  <1>9. UNCHANGED disk \/ Rename \/ Prune \/ Puts \/ Newline
    BY DEF Puts, Next, vars, disk, Start, Open, Read, EndOfInput, Exits, Flags, Write,
       Check, Create, Dies, DiesWriting, Death, Signal
  <1> QED BY <1>5, <1>6, <1>7, <1>8, <1>9, <1>10

LEMMA StepRoom ==
    ASSUME Types, AtNewline, Counted, Room, [Next]_vars
    PROVE  Room'
  <1>1. /\ current \in [Dirs -> File] /\ size \in [Dirs -> Nat] /\ out \in Dirs
        /\ Limits \subseteq Nat
    BY LksyslogdAssumption DEF Types
  <1>2. /\ PayloadOf(current[out]) \in Nat /\ size[out] \in Nat
        /\ Len(current[out]) \in Nat /\ line.length \in Nat \ {0}
    BY <1>1, WrittenFile
  <1>3. CASE Check
    <2>1. PICK limit \in Limits : \/ pc' = "rename"
                                  \/ pc' = "text" /\ size[out] + line.length <= limit
      BY <1>1, <1>2, <1>3 DEF Check
    <2>2. UNCHANGED <<out, size, line>>
      BY <1>3 DEF Check
    <2> QED BY <2>1, <2>2 DEF Room
  <1>4. CASE Rename
    BY <1>1, <1>4 DEF Rename, Room
  <1>5. CASE Prune
    BY <1>5 DEF Prune, Room
  <1>6. CASE Create
    BY <1>6 DEF Create, Room, disk
  <1>7. CASE Text
    <2>1. pc = "text" /\ pc' = "newline" /\ UNCHANGED <<out, size, line>>
      BY <1>7 DEF Text
    <2>2. /\ PayloadOf(current'[out]) + 1 = PayloadOf(current[out]) + line.length
          /\ Len(current'[out]) = Len(current[out]) + 1
      BY <1>1, <1>7, WrittenFile
    <2>3. PayloadOf(current[out]) <= size[out]
      BY <1>1, <2>1 DEF Counted, Opened, Writing
    <2>4. PayloadOf(current'[out]) + 1 <= size[out] + line.length
      BY <1>2, <2>2, <2>3
    <2>5. CASE current[out] = <<>>
      <3>1. Len(current'[out]) = 1
        BY <2>2, <2>5
      <3> QED BY <2>1, <2>4, <3>1 DEF Room
    <2>6. CASE \E limit \in Limits : size[out] + line.length <= limit
      <3>1. \E limit \in Limits : PayloadOf(current'[out]) + 1 <= limit
        BY <1>1, <1>2, <2>2, <2>3, <2>6
      <3> QED BY <2>1, <2>4, <3>1 DEF Room
    <2> QED BY <2>1, <2>5, <2>6 DEF Room
  <1>8. CASE Signal \/ UNCHANGED vars
    BY <1>8 DEF Signal, vars, disk, Room
  <1>9. CASE \/ Start \/ Open \/ Read \/ EndOfInput \/ Flags \/ Newline
             \/ Dies \/ DiesWriting
    <2>1. pc' \notin {"prune", "text", "newline"}
      BY <1>9 DEF Start, Open, Read, EndOfInput, Exits, Flags, Newline, GoesOn, Dies,
         DiesWriting, Death
    <2> QED BY <2>1 DEF Room
  <1> QED
    BY <1>3, <1>4, <1>5, <1>6, <1>7, <1>8, <1>9 DEF Next, Write

LEMMA StepPruned ==
    ASSUME Types, Pruned, [Next]_vars
    PROVE  Pruned'
  <1> DEFINE Extra(d) == Count(pc = "prune" /\ d = out)
  <1>1. /\ archives \in [Dirs -> Seq(File)] /\ out \in Dirs /\ deaths \in Nat
        /\ Keeps \subseteq Nat /\ \A d \in Dirs : Len(archives[d]) \in Nat
    BY LksyslogdAssumption DEF Types
  <1>2. pc' \in {"rename", "prune"} => keep' \in Keeps
    BY DEF Pruned, Next, Write, Start, Open, Read, EndOfInput, Exits, Flags, Check,
       Rename, Prune, Create, Text, Newline, GoesOn, Dies, DiesWriting, Death, Signal, vars, others
  <1> SUFFICES ASSUME NEW d \in Dirs
               PROVE  \E k \in Keeps : Len(archives'[d]) <= k + deaths' + Extra(d)'
    BY <1>2 DEF Pruned
  <1>3. PICK k \in Keeps : Len(archives[d]) <= k + deaths + Extra(d)
    BY DEF Pruned
  <1>4. /\ Extra(d) \in {0, 1} /\ Extra(d)' \in {0, 1} /\ k \in Nat
        /\ ~(pc = "prune" /\ d = out) => Extra(d) = 0
        /\ (pc' = "prune" /\ d = out') => Extra(d)' = 1
    BY <1>1 DEF Count
  <1> HIDE DEF Extra
  <1>5. CASE Rename
    <2>1. pc = "rename" /\ pc' = "prune" /\ out' = out /\ deaths' = deaths
      BY <1>5 DEF Rename, others
    <2>2. Len(archives'[d]) <= Len(archives[d]) + Extra(d)'
      <3>1. CASE d = out
        <4>1. archives'[d] = Append(archives[d], current[d])
          BY <1>1, <1>5, <3>1 DEF Rename
        <4>2. Len(archives'[d]) = Len(archives[d]) + 1
          <5>1. current[d] \in File /\ archives[d] \in Seq(File)
            BY DEF Types
          <5> QED BY <4>1, <5>1, AppendProperties
        <4> QED BY <1>4, <2>1, <3>1, <4>2
      <3>2. CASE d # out
        <4>1. archives'[d] = archives[d]
          BY <1>1, <1>5, <3>2 DEF Rename
        <4> QED BY <1>1, <1>4, <4>1
      <3> QED BY <3>1, <3>2
    <2>3. Extra(d) = 0
      BY <1>4, <2>1
    <2>4. Len(archives'[d]) \in Nat
      BY StepTypes DEF Types
    <2> QED BY <1>1, <1>3, <1>4, <2>1, <2>2, <2>3, <2>4
  <1>6. CASE Prune
    <2>1. pc = "prune" /\ pc' = pc /\ out' = out /\ deaths' = deaths
      BY <1>6 DEF Prune, others
    <2>2. Len(archives'[d]) <= Len(archives[d]) /\ Len(archives'[d]) \in Nat
      <3>1. CASE d = out
        <4>1. archives'[d] = Tail(archives[d]) /\ archives[d] # <<>>
          BY <1>1, <1>6, <3>1 DEF Prune, Surplus, Types
        <4> QED BY <1>1, <4>1, HeadTailProperties
      <3>2. CASE d # out
        BY <1>1, <1>6, <3>2 DEF Prune
      <3> QED BY <3>1, <3>2
    <2>3. Extra(d)' = Extra(d)
      BY <2>1 DEF Extra
    <2> QED BY <1>1, <1>3, <1>4, <2>1, <2>2, <2>3
  <1>7. CASE Create
    <2>1. /\ pc = "prune" /\ ~Surplus(out) /\ archives' = archives /\ deaths' = deaths
          /\ keep \in Keeps /\ keep \in Nat
      BY <1>1, <1>7 DEF Create, Pruned, disk, others
    <2>2. CASE d = out
      <3>1. Len(archives'[d]) <= keep
        BY <1>1, <2>1, <2>2 DEF Surplus
      <3> QED BY <1>1, <1>4, <2>1, <3>1
    <2>3. CASE d # out
      <3>1. Extra(d) = 0
        BY <1>4, <2>3
      <3> QED BY <1>1, <1>3, <1>4, <2>1, <3>1
    <2> QED BY <2>2, <2>3
  <1>8. CASE Dies \/ DiesWriting
    <2>1. archives' = archives /\ deaths' = deaths + 1
      BY <1>8 DEF Dies, DiesWriting, Death, disk
    <2> QED BY <1>1, <1>3, <1>4, <2>1
  <1>9. CASE Signal \/ UNCHANGED vars
    <2>1. archives' = archives /\ deaths' = deaths /\ pc' = pc /\ out' = out
      BY <1>9 DEF Signal, vars, disk
    <2>2. Extra(d)' = Extra(d)
      BY <2>1 DEF Extra
    <2> QED BY <1>1, <1>3, <1>4, <2>1, <2>2
  <1>10. CASE \/ Start \/ Open \/ Read \/ EndOfInput \/ Flags \/ Check \/ Text \/ Newline
    <2>1. archives' = archives /\ deaths' = deaths /\ pc # "prune"
      BY <1>10 DEF Start, Open, Read, EndOfInput, Exits, Flags, Check, Text, Newline,
         disk, others
    <2>2. Extra(d) = 0
      BY <1>4, <2>1
    <2> QED BY <1>1, <1>3, <1>4, <2>1, <2>2
  <1> QED
    BY <1>5, <1>6, <1>7, <1>8, <1>9, <1>10 DEF Next, Write

-----------------------------------------------------------------------------
(* The theorems *)

LEMMA InitIInv == Init => IInv
  <1> SUFFICES ASSUME Init PROVE IInv
    OBVIOUS
  <1>1. /\ Outputs \in Nat \ {0} /\ Keeps \subseteq Nat /\ Keeps # {}
        /\ <<>> \in File /\ <<>> \in Seq(File)
    BY LksyslogdAssumption DEF File
  <1>2. Types
    <2>1. term \in BOOLEAN /\ hup \in BOOLEAN
      BY Zenon DEF Init
    <2> QED BY <1>1, <2>1 DEF Init, Types, Dirs
  <1>3. pc = "off" /\ deaths = 0 /\ signals = 0 /\ lines = 0 /\ term = FALSE /\ hup = FALSE
    BY Zenon DEF Init
  <1>4. \A d \in Dirs : archives[d] = <<>> /\ current[d] = <<>>
    BY DEF Init
  <1>5. ASSUME NEW d \in Dirs
        PROVE  /\ InOrder(Files(d)) /\ Entries(d) = {} /\ Numbers(d) = {} /\ Torn(d) = {}
               /\ Lost(d) = {}
    <2>1. /\ EntriesOf(<<>>) = {} /\ InOrder(<<>>) /\ Range(<<>>) = {}
          /\ Increasing(<<>>)
      BY DEF EntriesOf, InOrder, Range, Increasing
    <2>2. InOrder(Append(<<>>, <<>>)) /\ EntriesOf(Append(<<>>, <<>>)) = {}
      BY <1>1, <2>1, FilesAppend
    <2>3. InOrder(Files(d)) /\ Entries(d) = {}
      BY <1>4, <2>2 DEF Files, Entries
    <2> QED BY <1>3, <2>3 DEF Numbers, Torn, Lost, Missing
  <1>6. Ordered /\ Hand /\ AtNewline /\ FirstIsComplete
    BY <1>3, <1>5 DEF Ordered, Hand, AtNewline, FirstIsComplete, Writing
  <1>7. Losses
    <2>1. Cardinality({}) = 0 /\ Count(term) = 0 /\ Count(hup) = 0
      BY <1>3, FS_EmptySet, CountType
    <2> QED BY <1>3, <1>5, <2>1 DEF Losses
  <1>8. Counted /\ Room
    BY <1>3 DEF Counted, Room, Opened, Writing
  <1>9. AllShort
    BY <1>4 DEF AllShort, Short
  <1>10. Pruned
    <2>1. Count(FALSE) = 0 /\ ~(pc = "prune")
      BY <1>3, CountType
    <2>2. \A d \in Dirs : Len(archives[d]) = 0
      BY <1>4
    <2>3. PICK k \in Keeps : TRUE
      BY <1>1
    <2>4. \A d \in Dirs : Len(archives[d]) <= k + deaths + Count(pc = "prune" /\ d = out)
      <3>1. \A d \in Dirs : Count(pc = "prune" /\ d = out) = 0
        BY <2>1 DEF Count
      <3> QED BY <1>1, <1>3, <2>2, <2>3, <3>1
    <2> QED BY <1>3, <2>3, <2>4 DEF Pruned
  <1>11. FewTorn
    <2>1. \A d \in Dirs : Cardinality(Torn(d)) = 0 /\ IsFiniteSet(Torn(d))
      BY <1>5, FS_EmptySet
    <2>2. deaths = 0 /\ ~(pc = "newline")
      BY <1>3
    <2> QED BY <2>1, <2>2 DEF FewTorn, TornByDeath
  <1> QED BY <1>2, <1>6, <1>7, <1>8, <1>9, <1>10, <1>11 DEF IInv

LEMMA StepIInv == IInv /\ [Next]_vars => IInv'
  <1> SUFFICES ASSUME IInv, [Next]_vars PROVE IInv'
    OBVIOUS
  <1>1. Types' /\ Ordered' /\ Hand' /\ AtNewline'
    BY StepTypes, StepOrdered, StepHand, StepAtNewline DEF IInv
  <1>2. Losses' /\ FewTorn' /\ FirstIsComplete'
    BY StepLosses, StepFewTorn, StepFirst DEF IInv
  <1>3. Counted' /\ AllShort' /\ Room' /\ Pruned'
    BY StepCounted, StepAllShort, StepRoom, StepPruned DEF IInv
  <1> QED BY <1>1, <1>2, <1>3 DEF IInv

THEOREM Invariance == Spec => []IInv
  BY InitIInv, StepIInv, PTL DEF Spec

\* Any number of loggers, killed anywhere, lose the oldest lines only, and in
\* between at most one for each signal and each death: for any directories,
\* line lengths and settings.
THEOREM OldestAreLost == Spec => []OnlyOldestLost
  <1>1. IInv => OnlyOldestLost
    <2> SUFFICES ASSUME IInv, NEW d \in Dirs
                 PROVE  /\ InOrder(Files(d))
                        /\ pc = "read" => Cardinality(Missing(d)) <= signals + deaths
      BY DEF OnlyOldestLost
    <2>1. Types /\ InOrder(Files(d))
      BY DEF IInv, Ordered
    <2>2. Cardinality(Lost(d)) + Count(term) + Count(hup) <= signals + deaths
      BY DEF IInv, Losses
    <2>3. Count(term) \in {0, 1} /\ Count(hup) \in {0, 1}
      BY <2>1, CountType, Zenon DEF Types
    <2>4. Cardinality(Lost(d)) \in Nat /\ signals \in Nat /\ deaths \in Nat
      BY <2>1, LostIsFinite DEF Types
    <2>5. pc = "read" => Missing(d) = Lost(d)
      BY DEF Lost, InHand, Writing, Missing
    <2> QED BY <2>1, <2>2, <2>3, <2>4, <2>5
  <1> QED BY <1>1, Invariance, PTL

\* Files and directories stay small, whatever the settings are from line to
\* line and wherever loggers die: a file of several lines has no more bytes than
\* the largest limit and the time stamps of its lines, which are not counted.
THEOREM StaysBounded == Spec => []Bounded
  <1>1. IInv => Bounded
    <2> SUFFICES ASSUME IInv, NEW d \in Dirs
                 PROVE  /\ \A i \in DOMAIN Files(d) : Short(Files(d)[i])
                        /\ \E k \in Keeps : Len(archives[d]) <= k + 1 + deaths
      BY DEF Bounded
    <2>1. archives[d] \in Seq(File) /\ current[d] \in File /\ deaths \in Nat
      BY DEF IInv, Types
    <2>2. \A i \in DOMAIN Files(d) : Short(Files(d)[i])
      <3>1. /\ DOMAIN Files(d) = 1..Len(archives[d]) + 1 /\ Len(archives[d]) \in Nat
            /\ DOMAIN archives[d] = 1..Len(archives[d])
            /\ \A i \in 1..Len(archives[d]) : Files(d)[i] = archives[d][i]
            /\ Files(d)[Len(archives[d]) + 1] = current[d]
        BY <2>1, AppendProperties, LenProperties DEF Files
      <3>2. \A i \in DOMAIN Files(d) : i \in DOMAIN archives[d] \/ i = Len(archives[d]) + 1
        BY <3>1
      <3> QED BY <3>1, <3>2 DEF IInv, AllShort
    <2>3. \E k \in Keeps : Len(archives[d]) <= k + 1 + deaths
      <3>1. PICK k \in Keeps :
                Len(archives[d]) <= k + deaths + Count(pc = "prune" /\ d = out)
        BY DEF IInv, Pruned
      <3>2. Count(pc = "prune" /\ d = out) \in {0, 1} /\ k \in Nat
        BY LksyslogdAssumption DEF Count
      <3>3. Len(archives[d]) <= k + 1 + deaths
        BY <2>1, <3>1, <3>2
      <3> QED BY <3>3
    <2> QED BY <2>2, <2>3
  <1> QED BY <1>1, Invariance, PTL

\* A line is without its newline only where a logger has died, or is at it.
THEOREM DeathsTear == Spec => []TornByDeath
  BY Invariance, PTL DEF IInv, FewTorn

\* What a later directory has, an earlier one has or has pruned.
THEOREM FirstHasAll == Spec => []FirstIsComplete
  BY Invariance, PTL DEF IInv

-----------------------------------------------------------------------------
(* The refinement: a step of the logger that changes the lines of a directory *)
(* is a step of RollingLog, and any other one but Read leaves it as it was    *)

LEMMA PruneDrops ==
    ASSUME Types, Ordered, Hand, AtNewline, Prune
    PROVE  Rolling!DropOldest(out)
  <1>1. out \in Dirs /\ lines' = lines /\ ~Puts
    BY DEF Types, Prune, Puts, Text, DiesWriting, Death, others
  <1>2. PICK d \in Dirs : d = out
    BY <1>1
  <1>3. \A e \in Dirs : InOrder(Files(e))
    BY DEF Ordered
  <1>4. \A e \in Dirs :
            /\ Numbers(e)' \subseteq Numbers(e)
            /\ \A n \in Numbers(e) \ Numbers(e)' : \A m \in Numbers(e)' : n < m
            /\ e # d => Numbers(e)' = Numbers(e)
    BY <1>2, <1>3, PruneFiles
  <1> DEFINE log == [e \in Dirs |-> Numbers(e)]
             gone == Numbers(d) \ Numbers(d)'
  <1>5. /\ gone \in SUBSET log[d] /\ log[d] \ gone = Numbers(d)'
        /\ \A n \in gone, m \in log[d] \ gone : n < m
    BY <1>4
  <1>6. log' = [log EXCEPT ![d] = @ \ gone]
    BY <1>4
  <1> HIDE DEF gone
  <1>7. \E g \in SUBSET log[d] :
            /\ \A n \in g, m \in log[d] \ g : n < m
            /\ log' = [log EXCEPT ![d] = @ \ g]
    BY <1>5, <1>6
  <1> QED BY <1>1, <1>2, <1>7 DEF Rolling!DropOldest

LEMMA PutsWrites ==
    ASSUME Types, Ordered, Hand, AtNewline, Puts
    PROVE  Rolling!Write(out)
  <1>1. /\ out \in Dirs /\ out \in Nat /\ lines' = lines /\ ~Prune /\ pc = "text"
        /\ lines \in Nat /\ Dirs = 1..Outputs /\ Outputs \in Nat
    BY LksyslogdAssumption DEF Types, Prune, Puts, Text, DiesWriting, Death, others, Dirs
  <1>2. PICK d \in Dirs : d = out
    BY <1>1
  <1>3. /\ lines > 0
        /\ \A e \in Dirs : InHand(e) <=> lines \notin Numbers(e)
    BY <1>1 DEF Hand, Writing
  <1>4. \A e \in Dirs : Numbers(e) \subseteq 1..lines
    BY DEF Ordered
  <1>5. \A n \in Numbers(d) : n < lines
    <2>1. InHand(d)
      BY <1>1, <1>2 DEF InHand, Writing
    <2> QED BY <1>1, <1>3, <1>4, <2>1
  <1>6. \A e \in 1..d - 1 : e \in Dirs /\ lines \in Numbers(e)
    <2>1. \A e \in 1..d - 1 : e \in Dirs /\ e \in Nat /\ ~(e > d) /\ e # d
      BY <1>1, <1>2
    <2>2. \A e \in 1..d - 1 : ~InHand(e)
      BY <1>1, <1>2, <2>1 DEF InHand
    <2> QED BY <1>3, <2>1, <2>2
  <1>7. \A e \in Dirs : \/ e # d /\ Numbers(e)' = Numbers(e)
                        \/ e = d /\ Numbers(e)' = Numbers(e) \cup {lines}
    <2>1. [Next]_vars
      BY DEF Next, Write, Puts
    <2> QED BY <1>1, <1>2, <2>1, StepNumbers
  <1> DEFINE log == [e \in Dirs |-> Numbers(e)]
  <1>8. log' = [log EXCEPT ![d] = @ \cup {lines}]
    BY <1>7
  <1>9. (\A n \in log[d] : n < lines) /\ \A e \in 1..d - 1 : lines \in log[e]
    BY <1>5, <1>6
  <1> HIDE DEF log
  <1> QED BY <1>1, <1>2, <1>3, <1>8, <1>9 DEF Rolling!Write, log

LEMMA StepRolling ==
    ASSUME IInv, [Next]_vars
    PROVE  [Rolling!Next]_(Rolling!vars)
  <1> DEFINE log == [d \in Dirs |-> Numbers(d)]
  <1>1. Types /\ Ordered /\ Hand /\ AtNewline /\ out \in 1..Outputs
    BY DEF IInv, Types, Dirs
  <1>2. CASE Read
    <2>1. lines' = lines + 1 /\ \A d \in Dirs : Numbers(d)' = Numbers(d)
      BY <1>2, SameFiles DEF Read, disk
    <2>2. log' = log
      BY <2>1
    <2>3. Rolling!Read
      BY <2>1, <2>2 DEF Rolling!Read
    <2> QED BY <2>3 DEF Rolling!Next
  <1>3. CASE Prune
    BY <1>1, <1>3, PruneDrops DEF Rolling!Next
  <1>4. CASE Puts
    BY <1>1, <1>4, PutsWrites DEF Rolling!Next
  <1>5. CASE ~Read /\ ~Prune /\ ~Puts
    <2>1. lines' = lines
      BY <1>5 DEF Next, vars, others, Start, Open, EndOfInput, Exits, Flags, Write,
         Check, Rename, Create, Newline, Dies, Death, Signal, Puts
    <2>2. \A d \in Dirs : Numbers(d)' = Numbers(d)
      BY <1>1, <1>5, StepNumbers
    <2>3. log' = log
      BY <2>2
    <2> QED BY <2>1, <2>3 DEF Rolling!vars
  <1> QED BY <1>2, <1>3, <1>4, <1>5

\* The loggers, killed anywhere and started again, implement RollingLog: a
\* line goes to each directory once and after the ones before it, and nothing
\* that was written is lost but the oldest.
THEOREM KeepsRolling == Spec => RollingSpec
  <1>1. Init => Rolling!Init
    <2> SUFFICES ASSUME Init PROVE Rolling!Init
      OBVIOUS
    <2>1. lines = 0 /\ Ordered
      BY InitIInv DEF Init, IInv
    <2>2. \A d \in Dirs : Numbers(d) = {}
      BY <2>1 DEF Ordered
    <2> QED BY <2>1, <2>2 DEF Rolling!Init, Dirs
  <1>2. IInv /\ [Next]_vars => [Rolling!Next]_(Rolling!vars)
    BY StepRolling
  <1> QED BY <1>1, <1>2, Invariance, PTL DEF Spec, RollingSpec, Rolling!Spec
=============================================================================
