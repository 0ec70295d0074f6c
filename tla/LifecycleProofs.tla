-------------------------- MODULE LifecycleProofs ---------------------------
(***************************************************************************)
(* What survives a session and a crash, proved for every number of fonts,  *)
(* every set of settings and every history of statistics: the plugin's     *)
(* file, the fonts it draws with, the configuration and the statistics.    *)
(***************************************************************************)
EXTENDS Lifecycle, SequenceTheorems, WellFoundedInduction, TLAPS

\* The configuration in memory and in the file.
SettingsInv ==
  /\ main_file = None => saved = Embedded
  /\ main_file \notin {None, Cut} => saved = Merged(main_file)
  /\ phase \in {"off"} \cup Loader => meant = saved
  /\ phase \in Session \cup {"creating", "leaving", "closing"} => main_json = meant

\* A font whose file is not whole is spoiled, or in the thread's hands; frames
\* are drawn in a session only, after the thread is done.
FontsInv ==
  /\ \A f \in Fonts : fonts[f] = "cut" => f \in spoiled \/ f = downloading
  /\ phase \in Session => \A f \in Fonts : fonts[f] = "none" => f \in spoiled \cup missing_fonts
  /\ rendering => missing_fonts = {} /\ phase \in Session
  /\ phase \notin Session => missing_fonts = {}

\* What is renamed is a download that has ended, and what is noted has replaced the
\* old plugin.
UpdaterInv ==
  /\ UpdateInOrder
  /\ phase \in {"renaming", "copying"} => temp_file \in Downloaded
  /\ phase = "noting" => plugin_file # "old"

\* What a session that begins now would count on
OnDisk == IF statistics_file = None THEN <<>> ELSE Read(statistics_file)

\* The entries in memory, in the file and in truth
StatisticsInv ==
  /\ StatisticsTypeOK
  /\ statistics_file = None => written = <<>>
  /\ statistics_file # None =>
       Read(statistics_file) \in Seq(DateEntries) /\ PartOf(Read(statistics_file), written)
  /\ phase \in Session \cup {"leaving", "closing"} => date_entries = counted
  /\ phase \in {"leaving", "closing"} => date_entries = written
  /\ phase \in {"off", "creating", "closing"} \cup Loader => counted = OnDisk

IInv == TypeOK /\ SettingsInv /\ FontsInv /\ UpdaterInv /\ StatisticsInv

-----------------------------------------------------------------------------
(* The recursive functions of the statistics' file                         *)

LEMMA Least ==
  ASSUME NEW T, T \subseteq Nat, T # {}
  PROVE  \E n \in T : \A m \in T : n <= m
<1>1. IsWellFoundedOn(OpToRel(<, Nat), Nat)
  BY NatLessThanWellFounded
<1>2. PICK n \in T : \A m \in T : ~(<<m, n>> \in OpToRel(<, Nat))
  BY <1>1, WFMin
<1>3. ASSUME NEW m \in T
      PROVE  n <= m
  <2>1. m \in Nat /\ n \in Nat
    OBVIOUS
  <2>2. ~(m < n)
    BY <1>2, <2>1 DEF OpToRel
  <2> QED
    BY <2>1, <2>2
<1> QED
  BY <1>3

LEMMA UpTo ==
  ASSUME NEW n \in Nat, NEW T \in SUBSET (0..n), 0 \in T,
         \A i \in 1..n : i - 1 \in T => i \in T
  PROVE  T = 0..n
<1> SUFFICES ASSUME (0..n) \ T # {}
             PROVE  FALSE
  OBVIOUS
<1>1. (0..n) \ T \subseteq Nat
  OBVIOUS
<1>2. PICK i \in (0..n) \ T : \A m \in (0..n) \ T : i <= m
  BY <1>1, Least
<1>3. i \in 1..n /\ i - 1 \in 0..n
  BY <1>2
<1>4. i - 1 \in T
  BY <1>2, <1>3
<1> QED
  BY <1>2, <1>3, <1>4

\* The reader's state after each token
LEMMA ReadingsAre ==
  ASSUME NEW S, NEW file \in Seq(S)
  PROVE  /\ Readings(file)[0] = Reading
         /\ \A n \in 1..Len(file) :
              Readings(file)[n] = Token(Readings(file)[n - 1], file[n])
<1> DEFINE P(g, k) == g = [n \in 0..k |-> IF n = 0 THEN Reading
                                          ELSE Token(g[n - 1], file[n])]
           T == {k \in 0..Len(file) : \E g : P(g, k)}
<1>0. Len(file) \in Nat
  BY LenProperties
<1>1. 0 \in T
  <2> DEFINE g == [n \in 0..0 |-> Reading]
  <2>1. P(g, 0)
    OBVIOUS
  <2> HIDE DEF g, P
  <2> QED
    BY <1>0, <2>1
<1>2. ASSUME NEW k \in 1..Len(file), k - 1 \in T
      PROVE  k \in T
  <2>1. PICK g : P(g, k - 1)
    BY <1>2
  <2> DEFINE h == [n \in 0..k |-> IF n = k THEN Token(g[k - 1], file[k]) ELSE g[n]]
  <2>2. ASSUME NEW n \in 0..k
        PROVE  h[n] = IF n = 0 THEN Reading ELSE Token(h[n - 1], file[n])
    <3>1. k - 1 \in 0..k /\ k - 1 # k /\ k # 0
      BY <1>2, <1>0
    <3>2. CASE n = k
      BY <3>1, <3>2
    <3>3. CASE n # k /\ n = 0
      BY <2>1, <3>1, <3>3
    <3>4. CASE n # k /\ n # 0
      <4>1. n \in 0..(k - 1) /\ n - 1 \in 0..k /\ n - 1 # k
        BY <1>2, <3>4, <1>0
      <4>2. h[n] = g[n] /\ h[n - 1] = g[n - 1]
        BY <3>4, <4>1
      <4>3. g[n] = Token(g[n - 1], file[n])
        BY <2>1, <3>4, <4>1
      <4> HIDE DEF h
      <4> QED
        BY <3>4, <4>2, <4>3
    <3> QED
      BY <3>2, <3>3, <3>4
  <2>3. P(h, k)
    BY <2>2
  <2> HIDE DEF h, P
  <2> QED
    BY <2>3
<1>3. T = 0..Len(file)
  <2>1. T \in SUBSET (0..Len(file))
    OBVIOUS
  <2> HIDE DEF T
  <2> QED
    BY <1>0, <1>1, <1>2, <2>1, UpTo
<1>4. \E g : P(g, Len(file))
  <2>1. Len(file) \in 0..Len(file)
    BY <1>0
  <2> HIDE DEF P
  <2> QED
    BY <1>3, <2>1
<1> DEFINE f == Readings(file)
<1>5. f = [n \in 0..Len(file) |-> IF n = 0 THEN Reading ELSE Token(f[n - 1], file[n])]
  BY <1>4 DEF Readings
<1> HIDE DEF f
<1>6. 0 \in 0..Len(file) /\ \A n \in 1..Len(file) : n \in 0..Len(file) /\ n # 0
  BY <1>0
<1>7. f[0] = Reading /\ \A n \in 1..Len(file) : f[n] = Token(f[n - 1], file[n])
  BY <1>5, <1>6
<1> QED
  BY <1>7 DEF f

\* The tokens of a date, type by type
LEMMA EntriesAre ==
  ASSUME NEW entry
  PROVE  /\ WrittenEntries(entry)[0] = <<<<"date", entry.date>>>>
         /\ \A n \in 1..TypeCount :
              WrittenEntries(entry)[n]
                        = WrittenEntries(entry)[n - 1] \o WrittenEntry(n, entry.entries[n])
<1> DEFINE P(g, k) == g = [n \in 0..k |-> IF n = 0 THEN <<<<"date", entry.date>>>>
                                          ELSE g[n - 1]
                                                    \o WrittenEntry(n, entry.entries[n])]
           T == {k \in 0..TypeCount : \E g : P(g, k)}
<1>0. TypeCount \in Nat
  BY StorageAssumption
<1>1. 0 \in T
  <2> DEFINE g == [n \in 0..0 |-> <<<<"date", entry.date>>>>]
  <2>1. P(g, 0)
    OBVIOUS
  <2> HIDE DEF g, P
  <2> QED
    BY <1>0, <2>1
<1>2. ASSUME NEW k \in 1..TypeCount, k - 1 \in T
      PROVE  k \in T
  <2>1. PICK g : P(g, k - 1)
    BY <1>2
  <2> DEFINE h ==
            [n \in 0..k |-> IF n = k THEN g[k - 1] \o WrittenEntry(k, entry.entries[k]) ELSE g[n]]
  <2>2. ASSUME NEW n \in 0..k
        PROVE  h[n] = IF n = 0 THEN <<<<"date", entry.date>>>>
                  ELSE h[n - 1] \o WrittenEntry(n, entry.entries[n])
    <3>1. k - 1 \in 0..k /\ k - 1 # k /\ k # 0
      BY <1>2, <1>0
    <3>2. CASE n = k
      BY <3>1, <3>2
    <3>3. CASE n # k /\ n = 0
      BY <2>1, <3>1, <3>3
    <3>4. CASE n # k /\ n # 0
      <4>1. n \in 0..(k - 1) /\ n - 1 \in 0..k /\ n - 1 # k
        BY <1>2, <3>4, <1>0
      <4>2. h[n] = g[n] /\ h[n - 1] = g[n - 1]
        BY <3>4, <4>1
      <4>3. g[n] = g[n - 1] \o WrittenEntry(n, entry.entries[n])
        BY <2>1, <3>4, <4>1
      <4> HIDE DEF h
      <4> QED
        BY <3>4, <4>2, <4>3
    <3> QED
      BY <3>2, <3>3, <3>4
  <2>3. P(h, k)
    BY <2>2
  <2> HIDE DEF h, P
  <2> QED
    BY <2>3
<1>3. T = 0..TypeCount
  <2>1. T \in SUBSET (0..TypeCount)
    OBVIOUS
  <2> HIDE DEF T
  <2> QED
    BY <1>0, <1>1, <1>2, <2>1, UpTo
<1>4. \E g : P(g, TypeCount)
  <2>1. TypeCount \in 0..TypeCount
    BY <1>0
  <2> HIDE DEF P
  <2> QED
    BY <1>3, <2>1
<1> DEFINE f == WrittenEntries(entry)
<1>5. f = [n \in 0..TypeCount |-> IF n = 0 THEN <<<<"date", entry.date>>>>
          ELSE f[n - 1] \o WrittenEntry(n, entry.entries[n])]
  BY <1>4 DEF WrittenEntries
<1> HIDE DEF f
<1>6. 0 \in 0..TypeCount /\ \A n \in 1..TypeCount : n \in 0..TypeCount /\ n # 0
  BY <1>0
<1>7. f[0] = <<<<"date", entry.date>>>>
      /\ \A n \in 1..TypeCount : f[n] = f[n - 1] \o WrittenEntry(n, entry.entries[n])
  BY <1>5, <1>6
<1> QED
  BY <1>7 DEF f

\* The tokens of all dates, date by date
LEMMA DatesAre ==
  ASSUME NEW S, NEW dates \in Seq(S)
  PROVE  /\ WrittenDates(dates)[0] = <<>>
         /\ \A n \in 1..Len(dates) :
              WrittenDates(dates)[n]
                        = WrittenDates(dates)[n - 1] \o WrittenEntries(dates[n])[TypeCount]
<1> DEFINE P(g, k) == g = [n \in 0..k |-> IF n = 0 THEN <<>>
                                          ELSE g[n - 1]
                                                    \o WrittenEntries(dates[n])[TypeCount]]
           T == {k \in 0..Len(dates) : \E g : P(g, k)}
<1>0. Len(dates) \in Nat
  BY LenProperties
<1>1. 0 \in T
  <2> DEFINE g == [n \in 0..0 |-> <<>>]
  <2>1. P(g, 0)
    OBVIOUS
  <2> HIDE DEF g, P
  <2> QED
    BY <1>0, <2>1
<1>2. ASSUME NEW k \in 1..Len(dates), k - 1 \in T
      PROVE  k \in T
  <2>1. PICK g : P(g, k - 1)
    BY <1>2
  <2> DEFINE h ==
            [n \in 0..k |-> IF n = k THEN g[k - 1] \o WrittenEntries(dates[k])[TypeCount] ELSE g[n]]
  <2>2. ASSUME NEW n \in 0..k
        PROVE  h[n] = IF n = 0 THEN <<>>
                  ELSE h[n - 1] \o WrittenEntries(dates[n])[TypeCount]
    <3>1. k - 1 \in 0..k /\ k - 1 # k /\ k # 0
      BY <1>2, <1>0
    <3>2. CASE n = k
      BY <3>1, <3>2
    <3>3. CASE n # k /\ n = 0
      BY <2>1, <3>1, <3>3
    <3>4. CASE n # k /\ n # 0
      <4>1. n \in 0..(k - 1) /\ n - 1 \in 0..k /\ n - 1 # k
        BY <1>2, <3>4, <1>0
      <4>2. h[n] = g[n] /\ h[n - 1] = g[n - 1]
        BY <3>4, <4>1
      <4>3. g[n] = g[n - 1] \o WrittenEntries(dates[n])[TypeCount]
        BY <2>1, <3>4, <4>1
      <4> HIDE DEF h
      <4> QED
        BY <3>4, <4>2, <4>3
    <3> QED
      BY <3>2, <3>3, <3>4
  <2>3. P(h, k)
    BY <2>2
  <2> HIDE DEF h, P
  <2> QED
    BY <2>3
<1>3. T = 0..Len(dates)
  <2>1. T \in SUBSET (0..Len(dates))
    OBVIOUS
  <2> HIDE DEF T
  <2> QED
    BY <1>0, <1>1, <1>2, <2>1, UpTo
<1>4. \E g : P(g, Len(dates))
  <2>1. Len(dates) \in 0..Len(dates)
    BY <1>0
  <2> HIDE DEF P
  <2> QED
    BY <1>3, <2>1
<1> DEFINE f == WrittenDates(dates)
<1>5. f = [n \in 0..Len(dates) |-> IF n = 0 THEN <<>>
          ELSE f[n - 1] \o WrittenEntries(dates[n])[TypeCount]]
  BY <1>4 DEF WrittenDates
<1> HIDE DEF f
<1>6. 0 \in 0..Len(dates) /\ \A n \in 1..Len(dates) : n \in 0..Len(dates) /\ n # 0
  BY <1>0
<1>7. f[0] = <<>>
      /\ \A n \in 1..Len(dates) : f[n] = f[n - 1] \o WrittenEntries(dates[n])[TypeCount]
  BY <1>5, <1>6
<1> QED
  BY <1>7 DEF f

-----------------------------------------------------------------------------
(* The statistics' file: what its reader has after each token              *)

\* s is in a file behind its first k tokens.
At(file, k, s) == k + Len(s) <= Len(file) /\ \A i \in 1..Len(s) : file[k + i] = s[i]

LEMMA AtConcat ==
  ASSUME NEW S, NEW file \in Seq(S), NEW k \in Nat, NEW s \in Seq(S), NEW t \in Seq(S),
         At(file, k, s \o t)
  PROVE  At(file, k, s) /\ At(file, k + Len(s), t)
<1>1. /\ Len(file) \in Nat /\ Len(s) \in Nat /\ Len(t) \in Nat
      /\ Len(s \o t) = Len(s) + Len(t)
      /\ \A i \in 1..(Len(s) + Len(t)) :
           (s \o t)[i] = IF i <= Len(s) THEN s[i] ELSE t[i - Len(s)]
  BY LenProperties, ConcatProperties
<1>2. /\ k + Len(s) + Len(t) <= Len(file)
      /\ \A i \in 1..(Len(s) + Len(t)) :
           file[k + i] = IF i <= Len(s) THEN s[i] ELSE t[i - Len(s)]
  BY <1>1 DEF At
<1>3. ASSUME NEW i \in 1..Len(s)
      PROVE  file[k + i] = s[i]
  <2>1. i \in 1..(Len(s) + Len(t)) /\ i <= Len(s)
    BY <1>1
  <2> QED
    BY <1>2, <2>1
<1>4. ASSUME NEW i \in 1..Len(t)
      PROVE  file[(k + Len(s)) + i] = t[i]
  <2>1. /\ Len(s) + i \in 1..(Len(s) + Len(t)) /\ ~(Len(s) + i <= Len(s))
        /\ (Len(s) + i) - Len(s) = i /\ k + (Len(s) + i) = (k + Len(s)) + i
    BY <1>1
  <2> QED
    BY <1>2, <2>1
<1> QED
  BY <1>1, <1>2, <1>3, <1>4 DEF At

\* What is written of an entry
LEMMA EntryTokens ==
  ASSUME NEW type \in Types, NEW values \in Seq(Counters), values # <<>>
  PROVE  /\ WrittenEntry(type, values) \in Seq(Tokens)
         /\ Len(WrittenEntry(type, values)) = Len(values) + 2
         /\ WrittenEntry(type, values)[1] = <<"entry", type>>
         /\ WrittenEntry(type, values)[2] = <<"count", Len(values)>>
         /\ \A j \in 1..Len(values) :
              WrittenEntry(type, values)[j + 2] = <<"value", values[j]>>
<1> DEFINE head == <<<<"entry", type>>, <<"count", Len(values)>>>>
           body == [i \in DOMAIN values |-> <<"value", values[i]>>]
<1>1. Len(values) \in Nat /\ DOMAIN values = 1..Len(values)
      /\ \A i \in 1..Len(values) : values[i] \in Counters
  BY LenProperties, ElementOfSeq
<1>2. <<"entry", type>> \in Tokens /\ <<"count", Len(values)>> \in Tokens
  BY <1>1 DEF Tokens
<1>3. head \in Seq(Tokens) /\ Len(head) = 2 /\ head[1] = <<"entry", type>>
      /\ head[2] = <<"count", Len(values)>>
  BY <1>2
<1>4. \A i \in 1..Len(values) : <<"value", values[i]>> \in Tokens
  BY <1>1 DEF Tokens
<1>5. body \in Seq(Tokens) /\ Len(body) = Len(values)
      /\ \A j \in 1..Len(values) : body[j] = <<"value", values[j]>>
  BY <1>1, <1>4
<1>6. WrittenEntry(type, values) = head \o body
  BY DEF WrittenEntry
<1> HIDE DEF head, body
<1>7. /\ head \o body \in Seq(Tokens) /\ Len(head \o body) = Len(head) + Len(body)
      /\ \A i \in 1..(Len(head) + Len(body)) :
           (head \o body)[i] = IF i <= Len(head) THEN head[i] ELSE body[i - Len(head)]
  <2>1. head \in Seq(Tokens) /\ body \in Seq(Tokens)
    BY <1>3, <1>5
  <2> QED
    BY <2>1, ConcatProperties
<1>8. ASSUME NEW j \in 1..Len(values)
      PROVE  (head \o body)[j + 2] = <<"value", values[j]>>
  <2>1. j + 2 \in 1..(Len(head) + Len(body)) /\ ~(j + 2 <= Len(head))
        /\ (j + 2) - Len(head) = j
    BY <1>1, <1>3, <1>5
  <2> QED
    BY <1>5, <1>7, <2>1
<1>9. (head \o body)[1] = head[1] /\ (head \o body)[2] = head[2]
  <2>1. 1 \in 1..(Len(head) + Len(body)) /\ 2 \in 1..(Len(head) + Len(body))
        /\ 1 <= Len(head) /\ 2 <= Len(head)
    BY <1>1, <1>3, <1>5
  <2> QED
    BY <1>7, <2>1
<1>10. Len(head) + Len(body) = Len(values) + 2
  BY <1>1, <1>3, <1>5
<1> QED
  BY <1>3, <1>6, <1>7, <1>8, <1>9, <1>10

\* The reader within a date, and the date with one more value, or the first values
ReadingOf(dates, o, type, left) ==
          [dates |-> dates, open |-> <<o>>, type |-> type, left |-> left]
Added(e, type, value) == [e EXCEPT !.entries[type] = Append(@, value)]
FirstOf(e, type, values, j) == [e EXCEPT !.entries[type] = SubSeq(values, 1, j)]

LEMMA ValueToken ==
  ASSUME NEW dates, NEW e, NEW type, NEW left, NEW value
  PROVE  Token(ReadingOf(dates, e, type, left), <<"value", value>>)
           = ReadingOf(dates, Added(e, type, value), type, left - 1)
<1> DEFINE r == ReadingOf(dates, e, type, left)
           next == Added(e, type, value)
<1>1. Token(r, <<"value", value>>)
        = [r EXCEPT !.open[1].entries[r.type] = Append(@, value), !.left = @ - 1]
  BY DEF Token
<1>2. r.type = type /\ r.left = left /\ r.open = <<e>> /\ r.dates = dates
  BY DEF ReadingOf
<1>3. [r.open EXCEPT ![1].entries[type] = Append(@, value)] = <<next>>
  <2>1. [<<e>> EXCEPT ![1] = next] = <<next>>
    OBVIOUS
  <2> QED
    BY <1>2, <2>1 DEF Added
<1> QED
  BY <1>1, <1>2, <1>3 DEF ReadingOf

\* An entry is read value by value, behind a date that has none of its type.
LEMMA EntryRead ==
  ASSUME NEW file \in Seq(Tokens), NEW k \in Nat, NEW e \in DateEntries, NEW type \in Types,
         NEW values \in Seq(Counters), values # <<>>, At(file, k, WrittenEntry(type, values)),
         NEW dates, NEW old, Readings(file)[k] = ReadingOf(dates, e, old, 0),
         e.entries[type] = <<>>
  PROVE  /\ Readings(file)[k + 1] = ReadingOf(dates, e, type, 1)
         /\ \A j \in 0..Len(values) :
              Readings(file)[k + 2 + j] =
                ReadingOf(dates, FirstOf(e, type, values, j), type, Len(values) - j)
<1> DEFINE R == Readings(file)
           L == Len(values)
           With(j) == FirstOf(e, type, values, j)
           Fine(j) == R[k + 2 + j] = ReadingOf(dates, With(j), type, L - j)
           T == {j \in 0..L : Fine(j)}
<1>1. L \in Nat /\ Len(file) \in Nat
  BY LenProperties
<1>2. /\ k + (L + 2) <= Len(file)
      /\ file[k + 1] = <<"entry", type>> /\ file[k + 2] = <<"count", L>>
      /\ \A j \in 1..L : file[k + (j + 2)] = <<"value", values[j]>>
  <2>1. /\ Len(WrittenEntry(type, values)) = L + 2
        /\ WrittenEntry(type, values)[1] = <<"entry", type>>
        /\ WrittenEntry(type, values)[2] = <<"count", L>>
        /\ \A j \in 1..L : WrittenEntry(type, values)[j + 2] = <<"value", values[j]>>
    BY EntryTokens
  <2>2. 1 \in 1..(L + 2) /\ 2 \in 1..(L + 2) /\ \A j \in 1..L : j + 2 \in 1..(L + 2)
    BY <1>1
  <2> QED
    BY <2>1, <2>2 DEF At
<1>3. \A n \in 1..Len(file) : R[n] = Token(R[n - 1], file[n])
  BY ReadingsAre
<1>4. R[k + 1] = ReadingOf(dates, e, type, 1)
  <2>1. k + 1 \in 1..Len(file) /\ (k + 1) - 1 = k
    BY <1>1, <1>2
  <2>2. R[k + 1] = Token(ReadingOf(dates, e, old, 0), <<"entry", type>>)
    BY <1>2, <1>3, <2>1
  <2> HIDE DEF R
  <2> QED
    BY <2>2 DEF Token, ReadingOf
<1>5. R[k + 2] = ReadingOf(dates, e, type, L)
  <2>1. k + 2 \in 1..Len(file) /\ (k + 2) - 1 = k + 1
    BY <1>1, <1>2
  <2>2. R[k + 2] = Token(ReadingOf(dates, e, type, 1), <<"count", L>>)
    BY <1>2, <1>3, <1>4, <2>1
  <2> HIDE DEF R
  <2> QED
    BY <2>2 DEF Token, ReadingOf
<1>6. With(0) = e
  <2>1. SubSeq(values, 1, 0) = <<>>
    BY SubSeqEmpty
  <2>2. e.entries[type] = SubSeq(values, 1, 0)
    BY <2>1
  <2> QED
    BY <2>2 DEF DateEntries, FirstOf
<1>7. 0 \in T
  <2>1. k + 2 + 0 = k + 2 /\ L - 0 = L /\ 0 \in 0..L
    BY <1>1
  <2>2. Fine(0)
    BY <1>5, <1>6, <2>1
  <2> HIDE DEF Fine
  <2> QED
    BY <2>1, <2>2
<1>8. ASSUME NEW j \in 1..L, j - 1 \in T
      PROVE  j \in T
  <2>1. Fine(j - 1)
    BY <1>8
  <2>2. /\ k + 2 + j \in 1..Len(file) /\ (k + 2 + j) - 1 = k + 2 + (j - 1)
        /\ k + (j + 2) = k + 2 + j /\ (L - (j - 1)) - 1 = L - j /\ j \in 0..L
    BY <1>1, <1>2
  <2>3. R[k + 2 + j] = Token(R[k + 2 + (j - 1)], file[k + 2 + j])
    BY <1>3, <2>2
  <2>4. file[k + 2 + j] = <<"value", values[j]>>
    BY <1>2, <2>2
  <2>5. R[k + 2 + j]
            = Token(ReadingOf(dates, With(j - 1), type, L - (j - 1)), <<"value", values[j]>>)
    BY <2>1, <2>3, <2>4
  <2>6. SubSeq(values, 1, j) = Append(SubSeq(values, 1, j - 1), values[j])
    <3>1. values[j] \in Counters /\ 1 \in 1..L
      BY <1>1, ElementOfSeq
    <3>2. SubSeq(values, 1, j) = SubSeq(values, 1, j - 1) \o <<values[j]>>
      BY <1>1, <3>1, SubSeqRecursiveSecond
    <3>3. SubSeq(values, 1, j - 1) \in Seq(Counters)
      <4>1. \A i \in 1..(j - 1) : values[i] \in Counters
        BY <1>1, ElementOfSeq
      <4> QED
        BY <1>1, <4>1, SubSeqProperties
    <3> QED
      BY <3>1, <3>2, <3>3
  <2>7. With(j) = Added(With(j - 1), type, values[j])
    <3>1. With(j - 1).entries[type] = SubSeq(values, 1, j - 1)
      BY DEF DateEntries, FirstOf
    <3> QED
      BY <2>6, <3>1 DEF DateEntries, Added, FirstOf
  <2>8. R[k + 2 + j] = ReadingOf(dates, With(j), type, L - j)
    <3> HIDE DEF R, With
    <3>1. Token(ReadingOf(dates, With(j - 1), type, L - (j - 1)), <<"value", values[j]>>)
            = ReadingOf(dates, Added(With(j - 1), type, values[j]), type, (L - (j - 1)) - 1)
      BY ValueToken
    <3> QED
      BY <2>2, <2>5, <2>7, <3>1
  <2>9. Fine(j)
    BY <2>8
  <2> HIDE DEF Fine
  <2> QED
    BY <2>2, <2>9
<1>9. T = 0..L
  <2> HIDE DEF Fine, L
  <2>1. T \in SUBSET (0..L)
    OBVIOUS
  <2> HIDE DEF T
  <2> QED
    BY <1>1, <1>7, <1>8, <2>1, UpTo
<1>10. \A j \in 0..L : Fine(j)
  <2> HIDE DEF Fine
  <2> QED
    BY <1>9
<1> QED
  BY <1>4, <1>10

\* The first types of a date; a date of which each entry is whole or missing; and the
\* reader within a date, which it may give up.
Sofar(e, t) ==
  [date |-> e.date, entries |-> [u \in Types |-> IF u <= t THEN e.entries[u] ELSE <<>>]]
PieceOf(o, e) ==
  /\ o \in DateEntries /\ o.date = e.date
  /\ \A u \in Types : o.entries[u] \in {<<>>, e.entries[u]}
Within(r, dates, e) ==
  /\ r.dates = dates
  /\ r.left = 0 => \E o : r.open = <<o>> /\ PieceOf(o, e)

LEMMA SofarIsPiece ==
  ASSUME NEW e \in DateEntries, NEW t \in Nat
  PROVE  PieceOf(Sofar(e, t), e)
<1>1. /\ e.date \in Nat /\ \A u \in Types : e.entries[u] \in Seq(Counters)
      /\ <<>> \in Seq(Counters)
  BY DEF DateEntries
<1> DEFINE f == [u \in Types |-> IF u <= t THEN e.entries[u] ELSE <<>>]
<1>2. f \in [Types -> Seq(Counters)] /\ \A u \in Types : f[u] \in {<<>>, e.entries[u]}
  BY <1>1
<1>3. Sofar(e, t) = [date |-> e.date, entries |-> f]
  BY DEF Sofar
<1> HIDE DEF f
<1> QED
  BY <1>1, <1>2, <1>3 DEF PieceOf, DateEntries

LEMMA SofarGrows ==
  ASSUME NEW e \in DateEntries, NEW t \in 1..TypeCount
  PROVE  /\ Sofar(e, t - 1).entries[t] = <<>>
         /\ [Sofar(e, t - 1) EXCEPT !.entries[t] = e.entries[t]] = Sofar(e, t)
         /\ e.entries[t] = <<>> => Sofar(e, t) = Sofar(e, t - 1)
<1> DEFINE f(n) == [u \in Types |-> IF u <= n THEN e.entries[u] ELSE <<>>]
<1>1. t \in Types /\ ~(t <= t - 1) /\ t <= t
      /\ \A u \in Types : u # t => (u <= t <=> u <= t - 1)
  BY StorageAssumption DEF Types
<1>2. f(t - 1)[t] = <<>>
  BY <1>1
<1>3. [f(t - 1) EXCEPT ![t] = e.entries[t]] = f(t)
  BY <1>1
<1>4. e.entries[t] = <<>> => f(t) = f(t - 1)
  BY <1>1
<1>5. \A n : Sofar(e, n) = [date |-> e.date, entries |-> f(n)]
  BY DEF Sofar
<1> HIDE DEF f
<1> QED
  BY <1>2, <1>3, <1>4, <1>5

LEMMA SofarEnds ==
  ASSUME NEW e \in DateEntries
  PROVE  Sofar(e, TypeCount) = e
<1>1. \A u \in Types : u <= TypeCount
  BY StorageAssumption DEF Types
<1>2. [u \in Types |-> IF u <= TypeCount THEN e.entries[u] ELSE <<>>] = e.entries
  BY <1>1 DEF DateEntries
<1> QED
  BY <1>2 DEF Sofar, DateEntries

\* The reader behind the first t types of a date that begins behind k tokens
ReadTo(file, k, dates, e, t) ==
  LET W == WrittenEntries(e)[t]
  IN At(file, k, W) =>
       /\ \A n \in 1..Len(W) : Within(Readings(file)[k + n], dates, e)
       /\ \E old : Readings(file)[k + Len(W)] = ReadingOf(dates, Sofar(e, t), old, 0)

LEMMA DateToken ==
  ASSUME NEW dates, NEW open, NEW type, NEW date
  PROVE  Token([dates |-> dates, open |-> open, type |-> type, left |-> 0], <<"date", date>>)
           = ReadingOf(dates \o open, [date |-> date, entries |-> NoEntries], type, 0)
  BY DEF Token, ReadingOf

LEMMA DateBegins ==
  ASSUME NEW file \in Seq(Tokens), NEW k \in Nat, NEW e \in DateEntries,
         NEW dates, NEW open, NEW type,
         Readings(file)[k] = [dates |-> dates, open |-> open, type |-> type, left |-> 0]
  PROVE  ReadTo(file, k, dates \o open, e, 0)
<1> DEFINE R == Readings(file)
<1>1. WrittenEntries(e)[0] = <<<<"date", e.date>>>>
  BY EntriesAre
<1> SUFFICES ASSUME At(file, k, <<<<"date", e.date>>>>)
             PROVE  R[k + 1] = ReadingOf(dates \o open, Sofar(e, 0), type, 0)
  <2>1. PieceOf(Sofar(e, 0), e) /\ Len(<<<<"date", e.date>>>>) = 1 /\ \A n \in 1..1 : n = 1
    BY SofarIsPiece
  <2>2. ReadingOf(dates \o open, Sofar(e, 0), type, 0).dates = dates \o open
        /\ ReadingOf(dates \o open, Sofar(e, 0), type, 0).open = <<Sofar(e, 0)>>
    BY DEF ReadingOf
  <2> HIDE DEF R
  <2>3. ASSUME At(file, k, <<<<"date", e.date>>>>),
               R[k + 1] = ReadingOf(dates \o open, Sofar(e, 0), type, 0)
        PROVE  Within(R[k + 1], dates \o open, e)
    BY <2>1, <2>2, <2>3 DEF Within
  <2> QED
    BY <1>1, <2>1, <2>3 DEF ReadTo, R
<1>2. k + 1 \in 1..Len(file) /\ file[k + 1] = <<"date", e.date>> /\ (k + 1) - 1 = k
  <2>1. Len(file) \in Nat /\ Len(<<<<"date", e.date>>>>) = 1 /\ 1 \in 1..1
    BY LenProperties
  <2> QED
    BY <2>1 DEF At
<1>3. R[k + 1] = Token(R[k], <<"date", e.date>>)
  BY <1>2, ReadingsAre
<1>4. [date |-> e.date, entries |-> NoEntries] = Sofar(e, 0)
  <2>1. \A u \in Types : ~(u <= 0)
    BY StorageAssumption DEF Types
  <2> QED
    BY <2>1 DEF Sofar, NoEntries
<1>5. R[k + 1] = ReadingOf(dates \o open, [date |-> e.date, entries |-> NoEntries], type, 0)
  BY <1>3, DateToken
<1> QED
  BY <1>4, <1>5

LEMMA EntriesTokens ==
  ASSUME NEW e \in DateEntries
  PROVE  \A t \in 0..TypeCount : /\ WrittenEntries(e)[t] \in Seq(Tokens)
                                 /\ Len(WrittenEntries(e)[t]) \in Nat \ {0}
<1> DEFINE W == WrittenEntries(e)
           Fine(t) == W[t] \in Seq(Tokens) /\ Len(W[t]) \in Nat \ {0}
           T == {t \in 0..TypeCount : Fine(t)}
<1>1. TypeCount \in Nat
  BY StorageAssumption
<1>2. W[0] = <<<<"date", e.date>>>>
      /\ \A t \in 1..TypeCount : W[t] = W[t - 1] \o WrittenEntry(t, e.entries[t])
  BY EntriesAre
<1>3. 0 \in T
  <2>1. <<"date", e.date>> \in Tokens
    BY DEF Tokens, DateEntries
  <2>2. W[0] \in Seq(Tokens) /\ Len(W[0]) = 1
    BY <1>2, <2>1
  <2>3. Fine(0)
    BY <2>2
  <2> HIDE DEF Fine
  <2> QED
    BY <1>1, <2>3
<1>4. ASSUME NEW t \in 1..TypeCount, t - 1 \in T
      PROVE  t \in T
  <2>1. W[t - 1] \in Seq(Tokens) /\ Len(W[t - 1]) \in Nat \ {0}
    BY <1>4
  <2>2. t \in Types /\ e.entries[t] \in Seq(Counters)
    BY DEF Types, DateEntries
  <2> DEFINE values == e.entries[t]
             tokens == WrittenEntry(t, values)
  <2>3. tokens \in Seq(Tokens)
    <3>1. CASE values = <<>>
      BY <3>1 DEF WrittenEntry
    <3>2. CASE values # <<>>
      BY <2>2, <3>2, EntryTokens
    <3> QED
      BY <3>1, <3>2
  <2>4. W[t] = W[t - 1] \o tokens
    BY <1>2
  <2> HIDE DEF W, tokens
  <2>5. W[t - 1] \o tokens \in Seq(Tokens)
        /\ Len(W[t - 1] \o tokens) = Len(W[t - 1]) + Len(tokens) /\ Len(tokens) \in Nat
    BY <2>1, <2>3, ConcatProperties, LenProperties
  <2>6. Fine(t)
    BY <2>1, <2>4, <2>5
  <2>7. t \in 0..TypeCount
    BY <1>1
  <2> HIDE DEF Fine
  <2> QED
    BY <2>6, <2>7
<1>5. T = 0..TypeCount
  <2> HIDE DEF Fine
  <2>1. T \in SUBSET (0..TypeCount)
    OBVIOUS
  <2> HIDE DEF T
  <2> QED
    BY <1>1, <1>3, <1>4, <2>1, UpTo
<1> QED
  BY <1>5

LEMMA DateGoesOn ==
  ASSUME NEW file \in Seq(Tokens), NEW k \in Nat, NEW e \in DateEntries, NEW dates,
         NEW t \in 1..TypeCount, ReadTo(file, k, dates, e, t - 1)
  PROVE  ReadTo(file, k, dates, e, t)
<1> DEFINE W == WrittenEntries(e)
           values == e.entries[t]
           tokens == WrittenEntry(t, values)
           R == Readings(file)
           a == Len(W[t - 1])
           b == Len(W[t])
           m == k + a
           L == Len(values)
<1>1. t \in Types /\ values \in Seq(Counters) /\ t - 1 \in Nat /\ t - 1 \in 0..TypeCount
      /\ t \in 0..TypeCount /\ L \in Nat
  BY StorageAssumption, LenProperties DEF Types, DateEntries
<1>2. W[t - 1] \in Seq(Tokens) /\ Len(W[t - 1]) \in Nat \ {0}
      /\ W[t] \in Seq(Tokens) /\ Len(W[t]) \in Nat
  BY <1>1, EntriesTokens
<1>3. W[t] = W[t - 1] \o tokens
  BY EntriesAre
<1> SUFFICES ASSUME At(file, k, W[t])
             PROVE  /\ \A n \in 1..Len(W[t]) : Within(R[k + n], dates, e)
                    /\ \E old : R[k + Len(W[t])] = ReadingOf(dates, Sofar(e, t), old, 0)
  BY DEF ReadTo
<1>4. CASE values = <<>>
  <2>1. tokens = <<>>
    BY <1>4 DEF WrittenEntry
  <2>2. W[t] = W[t - 1]
    <3> HIDE DEF W, tokens
    <3> QED
      BY <1>2, <1>3, <2>1, ConcatEmptySeq
  <2>3. Sofar(e, t) = Sofar(e, t - 1)
    BY <1>4, SofarGrows
  <2> QED
    BY <2>2, <2>3 DEF ReadTo
<1>5. CASE values # <<>>
  <2>1. tokens \in Seq(Tokens) /\ Len(tokens) = L + 2
    BY <1>1, <1>5, EntryTokens
  <2>2. At(file, k, W[t - 1]) /\ At(file, m, tokens) /\ Len(W[t]) = Len(W[t - 1]) + (L + 2)
    <3> HIDE DEF W, tokens, L
    <3>1. At(file, k, W[t - 1] \o tokens)
      BY <1>3
    <3>2. Len(W[t - 1] \o tokens) = Len(W[t - 1]) + Len(tokens)
      BY <1>2, <2>1, ConcatProperties
    <3> QED
      BY <1>2, <1>3, <2>1, <3>1, <3>2, AtConcat
  <2>l. b = a + (L + 2) /\ L \in Nat /\ a \in Nat
    BY <1>1, <1>2, <2>2
  <2>3. PICK old : R[m] = ReadingOf(dates, Sofar(e, t - 1), old, 0)
    BY <2>2 DEF ReadTo
  <2>4. \A n \in 1..Len(W[t - 1]) : Within(R[k + n], dates, e)
    BY <2>2 DEF ReadTo
  <2>5. Sofar(e, t - 1) \in DateEntries /\ Sofar(e, t - 1).entries[t] = <<>>
    BY <1>1, SofarIsPiece, SofarGrows DEF PieceOf
  <2> DEFINE With(j) == FirstOf(Sofar(e, t - 1), t, values, j)
  <2>6. /\ R[m + 1] = ReadingOf(dates, Sofar(e, t - 1), t, 1)
        /\ \A j \in 0..L : R[m + 2 + j] = ReadingOf(dates, With(j), t, L - j)
    <3>1. m \in Nat
      BY <1>2
    <3> DEFINE s == Sofar(e, t - 1)
    <3>2. /\ s \in DateEntries /\ s.entries[t] = <<>> /\ t \in Types /\ values # <<>>
          /\ values \in Seq(Counters) /\ At(file, m, WrittenEntry(t, values))
          /\ Readings(file)[m] = ReadingOf(dates, s, old, 0)
      BY <1>1, <1>5, <2>2, <2>3, <2>5
    <3> HIDE DEF m, s, values
    <3>3. /\ Readings(file)[m + 1] = ReadingOf(dates, s, t, 1)
          /\ \A j \in 0..Len(values) :
               Readings(file)[m + 2 + j]
                 = ReadingOf(dates, FirstOf(s, t, values, j), t, Len(values) - j)
      BY <3>1, <3>2, EntryRead
    <3> QED
      BY <3>3 DEF s, values
  <2>7. With(L) = Sofar(e, t)
    <3>1. SubSeq(values, 1, L) = values
      BY <1>1, SubSeqFull
    <3> QED
      BY <3>1, SofarGrows DEF FirstOf
  <2>8. R[k + b] = ReadingOf(dates, Sofar(e, t), t, 0)
    <3> HIDE DEF L, R, W, With, a, b
    <3>1. k + b = m + 2 + L /\ L \in 0..L /\ L - L = 0
      BY <2>l
    <3> HIDE DEF m
    <3> QED
      BY <2>6, <2>7, <3>1
  <2>9. ASSUME NEW n \in 1..Len(W[t])
        PROVE  Within(R[k + n], dates, e)
    <3>1. CASE n <= Len(W[t - 1])
      <4>1. n \in 1..Len(W[t - 1])
        BY <1>2, <3>1
      <4> QED
        BY <2>4, <4>1
    <3>2. CASE n = Len(W[t - 1]) + 1
      <4>1. k + n = m + 1
        BY <1>2, <3>2
      <4>2. R[k + n] = ReadingOf(dates, Sofar(e, t - 1), t, 1)
        BY <2>6, <4>1
      <4> HIDE DEF R
      <4> QED
        BY <4>2 DEF Within, ReadingOf
    <3>3. CASE n > Len(W[t - 1]) + 1
      <4> DEFINE j == n - a - 2
      <4>0. n \in 1..b /\ n > a + 1
        BY <3>3
      <4> HIDE DEF L, W, a, b
      <4>1. j \in 0..L /\ k + n = m + 2 + j
        BY <2>l, <4>0
      <4>2. R[k + n] = ReadingOf(dates, With(j), t, L - j)
        BY <2>6, <4>1
      <4>3. PieceOf(Sofar(e, t), e)
        BY <1>1, SofarIsPiece
      <4>4. j # L => L - j # 0
        BY <2>l, <4>1
      <4>5. j = L => R[k + n] = ReadingOf(dates, Sofar(e, t), t, L - j)
        BY <2>7, <4>2
      <4> HIDE DEF R, With, j, L
      <4> QED
        BY <4>2, <4>3, <4>4, <4>5 DEF Within, ReadingOf
    <3> QED
      BY <1>2, <3>1, <3>2, <3>3
  <2> QED
    BY <2>8, <2>9
<1> QED
  BY <1>4, <1>5

\* A date is read whole; within it, the reader gives up what it has not in full.
LEMMA DateRead ==
  ASSUME NEW file \in Seq(Tokens), NEW k \in Nat, NEW e \in DateEntries,
         NEW dates, NEW open, NEW type,
         Readings(file)[k] = [dates |-> dates, open |-> open, type |-> type, left |-> 0],
         At(file, k, WrittenEntries(e)[TypeCount])
  PROVE  /\ \A n \in 1..Len(WrittenEntries(e)[TypeCount]) :
              Within(Readings(file)[k + n], dates \o open, e)
         /\ \E old : Readings(file)[k + Len(WrittenEntries(e)[TypeCount])]
                       = ReadingOf(dates \o open, e, old, 0)
<1> DEFINE T == {t \in 0..TypeCount : ReadTo(file, k, dates \o open, e, t)}
<1>1. TypeCount \in Nat
  BY StorageAssumption
<1>2. 0 \in T
  BY <1>1, DateBegins
<1>3. ASSUME NEW t \in 1..TypeCount, t - 1 \in T
      PROVE  t \in T
  <2>1. t \in 0..TypeCount
    BY <1>1
  <2> QED
    BY <1>3, <2>1, DateGoesOn
<1>4. T = 0..TypeCount
  <2>1. T \in SUBSET (0..TypeCount)
    OBVIOUS
  <2> HIDE DEF T
  <2> QED
    BY <1>1, <1>2, <1>3, <2>1, UpTo
<1>5. ReadTo(file, k, dates \o open, e, TypeCount)
  BY <1>1, <1>4
<1>6. Sofar(e, TypeCount) = e
  BY SofarEnds
<1> QED
  BY <1>5, <1>6 DEF ReadTo

LEMMA DatesTokens ==
  ASSUME NEW dates \in Seq(DateEntries)
  PROVE  \A i \in 0..Len(dates) : WrittenDates(dates)[i] \in Seq(Tokens)
<1> DEFINE F == WrittenDates(dates)
           T == {i \in 0..Len(dates) : F[i] \in Seq(Tokens)}
<1>1. Len(dates) \in Nat
  BY LenProperties
<1>2. F[0] = <<>>
      /\ \A i \in 1..Len(dates) : F[i] = F[i - 1] \o WrittenEntries(dates[i])[TypeCount]
  BY DatesAre
<1>3. 0 \in T
  <2>1. F[0] = <<>> /\ <<>> \in Seq(Tokens) /\ 0 \in 0..Len(dates)
    BY <1>1, <1>2
  <2> HIDE DEF F
  <2> QED
    BY <2>1
<1>4. ASSUME NEW i \in 1..Len(dates), i - 1 \in T
      PROVE  i \in T
  <2>1. dates[i] \in DateEntries /\ TypeCount \in 0..TypeCount
    BY ElementOfSeq, StorageAssumption
  <2>2. WrittenEntries(dates[i])[TypeCount] \in Seq(Tokens) /\ F[i - 1] \in Seq(Tokens)
    BY <1>4, <2>1, EntriesTokens
  <2>3. F[i] = F[i - 1] \o WrittenEntries(dates[i])[TypeCount]
    BY <1>2
  <2> HIDE DEF F
  <2>4. F[i - 1] \o WrittenEntries(dates[i])[TypeCount] \in Seq(Tokens)
    BY <2>2, ConcatProperties
  <2>5. i \in 0..Len(dates)
    BY <1>1
  <2> QED
    BY <2>3, <2>4, <2>5
<1>5. T = 0..Len(dates)
  <2>1. T \in SUBSET (0..Len(dates))
    OBVIOUS
  <2> HIDE DEF T
  <2> QED
    BY <1>1, <1>3, <1>4, <2>1, UpTo
<1> QED
  BY <1>5

\* The first dates, and those with a piece of the next, are what a cut file may tell.
LEMMA FirstDates ==
  ASSUME NEW dates \in Seq(DateEntries), NEW i \in 0..Len(dates)
  PROVE  SubSeq(dates, 1, i) \in Seq(DateEntries) /\ PartOf(SubSeq(dates, 1, i), dates)
<1> DEFINE s == SubSeq(dates, 1, i)
<1>1. Len(dates) \in Nat /\ \A j \in 1..Len(dates) : dates[j] \in DateEntries
  BY LenProperties, ElementOfSeq
<1>2. s \in Seq(DateEntries) /\ Len(s) = i /\ \A j \in 1..i : s[j] = dates[j]
  <2>1. \A j \in 1..i : dates[j] \in DateEntries
    BY <1>1
  <2> QED
    BY <1>1, <2>1, SubSeqProperties
<1> HIDE DEF s
<1>3. DOMAIN s = 1..i
  BY <1>2, LenProperties
<1>4. PartOf(s, dates)
  BY <1>1, <1>2, <1>3 DEF PartOf
<1> QED
  BY <1>2, <1>4 DEF s

LEMMA AndAPiece ==
  ASSUME NEW dates \in Seq(DateEntries), NEW i \in 1..Len(dates), NEW o, PieceOf(o, dates[i])
  PROVE  /\ SubSeq(dates, 1, i - 1) \o <<o>> \in Seq(DateEntries)
         /\ PartOf(SubSeq(dates, 1, i - 1) \o <<o>>, dates)
<1> DEFINE s == SubSeq(dates, 1, i - 1)
           t == s \o <<o>>
<1>1. Len(dates) \in Nat /\ \A j \in 1..Len(dates) : dates[j] \in DateEntries
  BY LenProperties, ElementOfSeq
<1>2. s \in Seq(DateEntries) /\ Len(s) = i - 1 /\ \A j \in 1..(i - 1) : s[j] = dates[j]
  <2>1. \A j \in 1..(i - 1) : dates[j] \in DateEntries
    BY <1>1
  <2> QED
    BY <1>1, <2>1, SubSeqProperties
<1>3. o \in DateEntries /\ <<o>> \in Seq(DateEntries) /\ Len(<<o>>) = 1 /\ <<o>>[1] = o
  BY DEF PieceOf
<1> HIDE DEF s
<1>4. /\ s \o <<o>> \in Seq(DateEntries) /\ Len(s \o <<o>>) = Len(s) + Len(<<o>>)
      /\ \A j \in 1..(Len(s) + Len(<<o>>)) :
           (s \o <<o>>)[j] = IF j <= Len(s) THEN s[j] ELSE <<o>>[j - Len(s)]
  BY <1>2, <1>3, ConcatProperties
<1>5. Len(t) = i /\ (\A j \in 1..(i - 1) : t[j] = dates[j]) /\ t[i] = o
  <2>1. (i - 1) + 1 = i /\ i - (i - 1) = 1 /\ i \in 1..i /\ ~(i <= i - 1)
        /\ \A j \in 1..(i - 1) : j \in 1..i /\ j <= i - 1
    BY <1>1
  <2> QED
    BY <1>2, <1>3, <1>4, <2>1
<1>6. t \in Seq(DateEntries)
  BY <1>4
<1> HIDE DEF t
<1>7. DOMAIN t = 1..i
  BY <1>5, <1>6, LenProperties
<1>8. PartOf(t, dates)
  <2>1. Len(t) <= Len(dates)
    BY <1>1, <1>5
  <2>2. ASSUME NEW j \in DOMAIN t
        PROVE  /\ j < Len(t) => t[j] = dates[j]
               /\ t[j].date = dates[j].date
               /\ \A u \in Types : t[j].entries[u] \in {<<>>, dates[j].entries[u]}
    <3>1. j = i \/ j \in 1..(i - 1)
      BY <1>1, <1>7
    <3>2. CASE j = i
      BY <1>1, <1>5, <3>2 DEF PieceOf
    <3>3. CASE j \in 1..(i - 1)
      BY <1>5, <3>3
    <3> QED
      BY <3>1, <3>2, <3>3
  <2> QED
    BY <2>1, <2>2 DEF PartOf
<1> QED
  BY <1>6, <1>8 DEF t, s

\* What the reader tells of the file it has before it, if it ends here
Tells(r, dates) == KeptAtEnd(r) \in Seq(DateEntries) /\ PartOf(KeptAtEnd(r), dates)

LEMMA WithinTells ==
  ASSUME NEW dates \in Seq(DateEntries), NEW i \in 1..Len(dates), NEW r,
         Within(r, SubSeq(dates, 1, i - 1), dates[i])
  PROVE  Tells(r, dates)
<1> DEFINE s == SubSeq(dates, 1, i - 1)
<1>1. i - 1 \in 0..Len(dates)
  BY LenProperties
<1>2. s \in Seq(DateEntries) /\ PartOf(s, dates)
  BY <1>1, FirstDates
<1>3. CASE r.left = 0
  <2>1. PICK o : r.open = <<o>> /\ PieceOf(o, dates[i])
    BY <1>3 DEF Within
  <2>2. KeptAtEnd(r) = s \o <<o>>
    BY <1>3, <2>1 DEF KeptAtEnd, Within
  <2> QED
    BY <2>1, <2>2, AndAPiece DEF Tells
<1>4. CASE r.left # 0
  <2>1. KeptAtEnd(r) = s \o <<>>
    BY <1>4 DEF KeptAtEnd, Within
  <2> HIDE DEF s
  <2>2. s \o <<>> = s
    BY <1>2, ConcatEmptySeq
  <2> QED
    BY <1>2, <2>1, <2>2 DEF Tells
<1> QED
  BY <1>3, <1>4

\* The reader behind the first i dates of a file
FileTo(dates, i) ==
  LET file == Written(dates)
      F == WrittenDates(dates)[i]
  IN At(file, 0, F) =>
       /\ \A n \in 0..Len(F) : Tells(Readings(file)[n], dates)
       /\ \E read, open, type :
            /\ Readings(file)[Len(F)]
                 = [dates |-> read, open |-> open, type |-> type, left |-> 0]
            /\ read \o open = SubSeq(dates, 1, i)

LEMMA FileBegins ==
  ASSUME NEW dates \in Seq(DateEntries)
  PROVE  FileTo(dates, 0)
<1> DEFINE R == Readings(Written(dates))
<1>1. WrittenDates(dates)[0] = <<>> /\ Len(dates) \in Nat
  BY DatesAre, LenProperties
<1>2. Written(dates) \in Seq(Tokens)
  BY <1>1, DatesTokens DEF Written
<1>3. R[0] = [dates |-> <<>>, open |-> <<>>, type |-> 0, left |-> 0]
  BY <1>2, ReadingsAre DEF Reading
<1>4. SubSeq(dates, 1, 0) = <<>> /\ <<>> \o <<>> = <<>>
  BY SubSeqEmpty
<1>5. Tells(R[0], dates)
  <2>1. KeptAtEnd(R[0]) = <<>>
    <3> HIDE DEF R
    <3> QED
      BY <1>3, <1>4 DEF KeptAtEnd
  <2>2. SubSeq(dates, 1, 0) \in Seq(DateEntries) /\ PartOf(SubSeq(dates, 1, 0), dates)
    BY <1>1, FirstDates
  <2> QED
    BY <1>4, <2>1, <2>2 DEF Tells
<1> HIDE DEF R
<1>6. Len(<<>>) = 0 /\ \A n \in 0..0 : n = 0
  OBVIOUS
<1> QED
  BY <1>1, <1>3, <1>4, <1>5, <1>6 DEF FileTo, R

LEMMA FileGoesOn ==
  ASSUME NEW dates \in Seq(DateEntries), NEW i \in 1..Len(dates), FileTo(dates, i - 1)
  PROVE  FileTo(dates, i)
<1> DEFINE file == Written(dates)
           R == Readings(file)
           F == WrittenDates(dates)
           e == dates[i]
           tokens == WrittenEntries(e)[TypeCount]
           k == Len(F[i - 1])
           s == SubSeq(dates, 1, i - 1)
           a == Len(tokens)
<1>1. Len(dates) \in Nat /\ i - 1 \in 0..Len(dates) /\ i \in 0..Len(dates)
      /\ Len(dates) \in 0..Len(dates) /\ TypeCount \in 0..TypeCount /\ e \in DateEntries
      /\ 1 \in 1..Len(dates) /\ i \in 1..Len(dates)
  BY LenProperties, StorageAssumption, ElementOfSeq
<1>2. file \in Seq(Tokens) /\ F[i - 1] \in Seq(Tokens) /\ k \in Nat
      /\ tokens \in Seq(Tokens) /\ a \in Nat
  BY <1>1, DatesTokens, EntriesTokens, LenProperties DEF Written
<1>3. F[i] = F[i - 1] \o tokens
  BY DatesAre
<1> SUFFICES ASSUME At(file, 0, F[i])
             PROVE  /\ \A n \in 0..Len(F[i]) : Tells(R[n], dates)
                    /\ \E read, open, type :
                         /\ R[Len(F[i])]
                              = [dates |-> read, open |-> open, type |-> type, left |-> 0]
                         /\ read \o open = SubSeq(dates, 1, i)
  BY DEF FileTo
<1>4. At(file, 0, F[i - 1]) /\ At(file, k, tokens) /\ Len(F[i]) = k + a
  <2> HIDE DEF F, tokens, file
  <2>1. At(file, 0, F[i - 1] \o tokens)
    BY <1>3
  <2>2. At(file, 0, F[i - 1]) /\ At(file, 0 + Len(F[i - 1]), tokens)
    BY <1>2, <2>1, AtConcat
  <2>3. Len(F[i - 1] \o tokens) = Len(F[i - 1]) + Len(tokens)
    BY <1>2, ConcatProperties
  <2>4. 0 + Len(F[i - 1]) = Len(F[i - 1])
    BY <1>2
  <2> QED
    BY <1>3, <2>2, <2>3, <2>4
<1>5. \A n \in 0..k : Tells(R[n], dates)
  BY <1>4 DEF FileTo
<1>6. PICK read, open, type :
        /\ R[k] = [dates |-> read, open |-> open, type |-> type, left |-> 0]
        /\ read \o open = s
  BY <1>4 DEF FileTo
<1>7. /\ \A n \in 1..a : Within(R[k + n], s, e)
      /\ \E old : R[k + a] = ReadingOf(s, e, old, 0)
  <2> HIDE DEF file, e, s, k
  <2>1. /\ file \in Seq(Tokens) /\ k \in Nat /\ e \in DateEntries
        /\ At(file, k, WrittenEntries(e)[TypeCount])
        /\ Readings(file)[k] = [dates |-> read, open |-> open, type |-> type, left |-> 0]
    BY <1>1, <1>2, <1>4, <1>6
  <2>2. \A n \in 1..Len(WrittenEntries(e)[TypeCount]) :
          Within(Readings(file)[k + n], read \o open, e)
    BY <2>1, DateRead
  <2>3. \E old : Readings(file)[k + Len(WrittenEntries(e)[TypeCount])]
                    = ReadingOf(read \o open, e, old, 0)
    BY <2>1, DateRead
  <2> QED
    BY <1>6, <2>2, <2>3
<1>8. ASSUME NEW n \in 0..(k + a)
      PROVE  Tells(R[n], dates)
  <2>1. CASE n <= k
    <3>1. n \in 0..k
      BY <1>2, <2>1
    <3> QED
      BY <1>5, <3>1
  <2>2. CASE n > k
    <3> DEFINE m == n - k
    <3>1. m \in 1..a /\ k + m = n
      <4> HIDE DEF k, a
      <4> QED
        BY <1>2, <2>2
    <3>2. Within(R[k + m], s, e)
      BY <1>7, <3>1
    <3>3. Within(R[n], s, e)
      <4> HIDE DEF R, s, e, k, m
      <4> QED
        BY <3>1, <3>2
    <3> QED
      BY <3>3, WithinTells
  <2> QED
    <3> HIDE DEF k, a
    <3> QED
      BY <1>2, <2>1, <2>2
<1>9. s \o <<e>> = SubSeq(dates, 1, i)
  BY <1>1, SubSeqRecursiveSecond
<1>10. PICK old : R[k + a] = ReadingOf(s, e, old, 0)
  BY <1>7
<1>11. R[k + a] = [dates |-> s, open |-> <<e>>, type |-> old, left |-> 0]
  BY <1>10 DEF ReadingOf
<1> HIDE DEF R, F, k, a, s, e
<1> QED
  BY <1>4, <1>8, <1>9, <1>11

\* What a reader has after the first tokens does not depend on the rest.
LEMMA FirstReadings ==
  ASSUME NEW file \in Seq(Tokens), NEW n \in 0..Len(file)
  PROVE  /\ SubSeq(file, 1, n) \in Seq(Tokens) /\ Len(SubSeq(file, 1, n)) = n
         /\ Readings(SubSeq(file, 1, n))[n] = Readings(file)[n]
<1> DEFINE cut == SubSeq(file, 1, n)
           R == Readings(file)
           C == Readings(cut)
           T == {m \in 0..n : C[m] = R[m]}
<1>1. Len(file) \in Nat /\ n \in Nat /\ \A m \in 1..Len(file) : file[m] \in Tokens
  BY LenProperties, ElementOfSeq
<1>2. cut \in Seq(Tokens) /\ Len(cut) = n /\ \A m \in 1..n : cut[m] = file[m]
  <2>1. \A m \in 1..n : file[m] \in Tokens
    BY <1>1
  <2> QED
    BY <1>1, <2>1, SubSeqProperties
<1> HIDE DEF cut
<1>3. /\ R[0] = Reading /\ C[0] = Reading
      /\ \A m \in 1..Len(file) : R[m] = Token(R[m - 1], file[m])
      /\ \A m \in 1..n : C[m] = Token(C[m - 1], cut[m])
  BY <1>2, ReadingsAre
<1> HIDE DEF R, C
<1>4. 0 \in T
  BY <1>1, <1>3
<1>5. ASSUME NEW m \in 1..n, m - 1 \in T
      PROVE  m \in T
  <2>1. m \in 1..Len(file) /\ m \in 0..n
    BY <1>1
  <2>2. C[m - 1] = R[m - 1]
    BY <1>5
  <2> QED
    BY <1>2, <1>3, <2>1, <2>2
<1>6. T = 0..n
  <2>1. T \in SUBSET (0..n)
    OBVIOUS
  <2> HIDE DEF T
  <2> QED
    BY <1>1, <1>4, <1>5, <2>1, UpTo
<1>7. n \in T
  BY <1>1, <1>6
<1> QED
  BY <1>2, <1>7 DEF cut, C, R

\* A file that was written whole is read back, and a cut one tells a part of it.
LEMMA ReadBack ==
  ASSUME NEW dates \in Seq(DateEntries)
  PROVE  /\ Written(dates) \in Seq(Tokens)
         /\ Read(Written(dates)) = dates
         /\ \A n \in 0..Len(Written(dates)) :
              /\ SubSeq(Written(dates), 1, n) \in Seq(Tokens)
              /\ Read(SubSeq(Written(dates), 1, n)) \in Seq(DateEntries)
              /\ PartOf(Read(SubSeq(Written(dates), 1, n)), dates)
<1> DEFINE file == Written(dates)
           N == Len(dates)
           T == {i \in 0..N : FileTo(dates, i)}
<1>1. N \in Nat
  BY LenProperties
<1>2. file \in Seq(Tokens) /\ file = WrittenDates(dates)[N]
  BY <1>1, DatesTokens DEF Written
<1>3. 0 \in T
  BY <1>1, FileBegins
<1>4. ASSUME NEW i \in 1..N, i - 1 \in T
      PROVE  i \in T
  <2>1. i \in 0..N
    BY <1>1
  <2> QED
    BY <1>4, <2>1, FileGoesOn
<1>5. T = 0..N
  <2>1. T \in SUBSET (0..N)
    OBVIOUS
  <2> HIDE DEF T, N
  <2> QED
    BY <1>1, <1>3, <1>4, <2>1, UpTo
<1>6. FileTo(dates, N)
  BY <1>1, <1>5
<1>7. At(file, 0, file)
  <2>1. Len(file) \in Nat
    BY <1>2, LenProperties
  <2> HIDE DEF file
  <2>2. \A i \in 1..Len(file) : 0 + i = i
    BY <2>1
  <2> QED
    BY <2>1, <2>2 DEF At
<1>8. /\ \A n \in 0..Len(file) : Tells(Readings(file)[n], dates)
      /\ \E read, open, type :
           /\ Readings(file)[Len(file)]
                = [dates |-> read, open |-> open, type |-> type, left |-> 0]
           /\ read \o open = SubSeq(dates, 1, N)
  BY <1>2, <1>6, <1>7 DEF FileTo
<1>9. Read(file) = dates
  <2>1. PICK read, open, type :
          /\ Readings(file)[Len(file)]
               = [dates |-> read, open |-> open, type |-> type, left |-> 0]
          /\ read \o open = SubSeq(dates, 1, N)
    BY <1>8
  <2>2. Read(file) = read \o open
    <3> HIDE DEF file
    <3> QED
      BY <2>1 DEF Read, KeptAtEnd
  <2> QED
    BY <2>1, <2>2, SubSeqFull
<1>10. ASSUME NEW n \in 0..Len(file)
       PROVE  /\ SubSeq(file, 1, n) \in Seq(Tokens)
              /\ Read(SubSeq(file, 1, n)) \in Seq(DateEntries)
              /\ PartOf(Read(SubSeq(file, 1, n)), dates)
  <2> DEFINE cut == SubSeq(file, 1, n)
  <2>1. cut \in Seq(Tokens) /\ Len(cut) = n /\ Readings(cut)[n] = Readings(file)[n]
    BY <1>2, FirstReadings
  <2>2. Read(cut) = KeptAtEnd(Readings(file)[n])
    BY <2>1 DEF Read
  <2> QED
    BY <1>8, <2>1, <2>2 DEF Tells
<1> QED
  BY <1>2, <1>9, <1>10

-----------------------------------------------------------------------------
\* A file the plugin wrote, in this version or before, merges into settings,
\* and its own into what it holds.
LEMMA MergedType ==
  ASSUME NEW file \in Settings \cup [Keys \ Fresh -> Values]
  PROVE  Merged(file) \in Settings /\ (file \in Settings => Merged(file) = file)
  BY StorageAssumption DEF Merged, Settings, Embedded

LEMMA InitIInv == Init => IInv
<1> SUFFICES ASSUME Init PROVE IInv
  OBVIOUS
<1> USE StorageAssumption, DownloadsAssumption
        DEF Init, ConfigurationInit, StatisticsInit, DownloadsInit
<1>e. Embedded \in Settings
  BY DEF Embedded, Settings
<1>1. ConfigurationTypeOK
  <2>1. main_file \in {None} \cup [Keys \ Fresh -> Values] /\ meant = saved
        /\ main_json = Embedded /\ clock = 0
    OBVIOUS
  <2>2. saved \in Settings
    <3>1. CASE main_file = None
      BY <1>e, <3>1
    <3>2. CASE main_file # None
      BY <2>1, <3>2, MergedType
    <3> QED
      BY <3>1, <3>2
  <2> QED
    BY <1>e, <2>1, <2>2 DEF ConfigurationTypeOK
<1>2. DownloadsTypeOK
  BY DEF DownloadsTypeOK, Files, Loadable, Contents
<1>3. SettingsInv
  BY DEF SettingsInv, Session, Merged
<1>4. FontsInv /\ UpdaterInv
  BY DEF FontsInv, Session, UpdaterInv, UpdateInOrder, Loadable
<1>5. StatisticsInv
  BY DEF StatisticsInv, StatisticsTypeOK, Session, Loader, OnDisk
<1>6. TypeOK
  BY <1>1, <1>2, <1>5 DEF TypeOK, StatisticsInv
<1> QED
  BY <1>3, <1>4, <1>5, <1>6 DEF IInv

-----------------------------------------------------------------------------
(* Types and the configuration                                             *)

\* A phase that is one of the others is none of a session's.
LEMMA Phases ==
  /\ {"off", "creating", "leaving", "closing"} \cap (Session \cup Loader \cup Useless) = {}
  /\ Session \cap (Loader \cup Useless) = {}
  BY DEF Session, Loader, Useless

LEMMA ConfigurationStep ==
  ASSUME TypeOK, SettingsInv, [Next]_vars
  PROVE  ConfigurationTypeOK' /\ SettingsInv'
<1> USE StorageAssumption
<1>t. ConfigurationTypeOK /\ Embedded \in Settings
  BY DEF TypeOK, Embedded, Settings
<1>n. None \notin Settings /\ Cut \notin Settings /\ None # Cut
  BY DEF Settings
\* Nothing of the configuration changes, and the phase stays among those that
\* SettingsInv says the same about.
<1>u. ASSUME UNCHANGED configuration,
             \/ phase' = phase
             \/ phase \in {"off"} \cup Loader /\ phase' \in Loader \cup Useless
             \/ phase \in Session /\ phase' \in Session \cup Useless \cup {"leaving"}
      PROVE  ConfigurationTypeOK' /\ SettingsInv'
  BY <1>t, <1>u
     DEF ConfigurationTypeOK, SettingsInv, configuration, Session, Loader, Useless, Merged
<1>1. CASE Sessions
  <2>1. CASE Start \/ NoUpdate \/ LoadFails
    BY <2>1, <1>u DEF Start, NoUpdate, LoadFails, storage, Loader, Useless
  <2>2. CASE LoadPlugin
    <3>1. main_file \in Settings \cup [Keys \ Fresh -> Values] /\ phase = "loading"
      BY <2>2, <1>t DEF LoadPlugin, ConfigurationTypeOK
    <3>2. main_json' = Merged(main_file) /\ phase' = "on"
          /\ UNCHANGED <<main_file, saved, meant, clock>>
      BY <2>2 DEF LoadPlugin, Construct
    <3>3. saved = Merged(main_file) /\ meant = saved
      BY <2>2, <3>1 DEF SettingsInv, LoadPlugin, Loader
    <3> QED
      BY <1>t, <3>1, <3>2, <3>3, MergedType
         DEF ConfigurationTypeOK, SettingsInv, Session, Loader, Merged
  <2>3. CASE CreateConfiguration
    BY <2>3, <1>t, <1>n
       DEF CreateConfiguration, ConfigurationTypeOK, SettingsInv, Session,
           Loader, statistics
  <2>4. CASE Created
    <3>1. main_file' = main_json /\ saved' = main_json /\ phase' = "on"
          /\ UNCHANGED <<main_json, meant, clock>> /\ main_json = meant
      BY <2>4 DEF Created, Save, Construct, SettingsInv
    <3> QED
      BY <1>t, <1>n, <3>1, MergedType
         DEF ConfigurationTypeOK, SettingsInv, Session, Loader, Merged
  <2>5. CASE InitializeRender
    BY <2>5, <1>u DEF InitializeRender, storage, Session, Useless
  <2>6. CASE Leave
    BY <2>6, <1>u DEF Leave, Session
  <2>7. CASE StatisticsWritten
    BY <2>7, <1>t, <1>n
       DEF StatisticsWritten, Truncate, ConfigurationTypeOK, SettingsInv, Session, Loader
  <2>8. CASE Left
    <3>1. main_file' = main_json /\ saved' = main_json /\ main_json' = Embedded
          /\ phase' = "off" /\ UNCHANGED <<meant, clock>> /\ main_json = meant
      BY <2>8 DEF Left, SettingsInv
    <3> QED
      BY <1>t, <1>n, <3>1, MergedType
         DEF ConfigurationTypeOK, SettingsInv, Session, Loader, Merged
  <2>9. CASE Crash
    <3>1. phase' = "off" /\ main_json' = Embedded /\ meant' = saved
          /\ UNCHANGED <<main_file, saved, clock>>
      BY <2>9 DEF Crash
    <3> QED
      BY <1>t, <3>1 DEF ConfigurationTypeOK, SettingsInv, Session, Loader, Merged
  <2> QED
    BY <1>1, <2>1, <2>2, <2>3, <2>4, <2>5, <2>6, <2>7, <2>8, <2>9 DEF Sessions
<1>2. CASE Configures
  <2>1. CASE BeginSave
    BY <2>1, <1>t, <1>n
       DEF BeginSave, Truncate, ConfigurationTypeOK, SettingsInv, Session, Loader
  <2>2. CASE EndSave
    <3>1. main_file' = main_json /\ saved' = main_json /\ phase' = "on"
          /\ UNCHANGED <<main_json, meant, clock>> /\ main_json = meant
      BY <2>2 DEF EndSave, Save, SettingsInv, Session
    <3> QED
      BY <1>t, <1>n, <3>1, MergedType
         DEF ConfigurationTypeOK, SettingsInv, Session, Loader, Merged
  <2>3. CASE DeleteConfiguration
    BY <2>3, <1>t DEF DeleteConfiguration, ConfigurationTypeOK, SettingsInv, Session, Loader
  <2>4. ASSUME NEW k \in Keys, NEW v \in Values, SetOption(k, v), phase = "on",
               phase' = phase
        PROVE  ConfigurationTypeOK' /\ SettingsInv'
    <3>1. main_json' \in Settings /\ meant' = main_json'
      BY <2>4, <1>t DEF SetOption, ConfigurationTypeOK, SettingsInv, Settings, Session
    <3> QED
      BY <2>4, <1>t, <3>1
         DEF SetOption, ConfigurationTypeOK, SettingsInv, Session, Loader, Merged
  <2> QED
    BY <1>2, <2>1, <2>2, <2>3, <2>4 DEF Configures
<1>3. CASE CountsTime
  <2>1. UNCHANGED <<configuration, phase>>
    BY <1>3 DEF CountsTime, HourPasses, Counts
  <2> QED
    BY <1>t, <2>1 DEF ConfigurationTypeOK, SettingsInv, configuration, Merged
<1>4. CASE Fetches \/ UNCHANGED vars
  BY <1>4, <1>u
     DEF Fetches, AcceptUpdate, DownloadEnds, Rename, EndCopy, Noted, Failed, Updated, NoNote,
         BeginNote, Unreachable, vars, storage, Loader
<1> QED
  BY <1>1, <1>2, <1>3, <1>4 DEF Next

-----------------------------------------------------------------------------
(* The downloads                                                           *)

\* The phases in which the files of an update are replaced
Moves == {"renaming", "copying", "noting"}

LEMMA DownloadsStep ==
  ASSUME TypeOK, FontsInv, UpdaterInv, [Next]_vars
  PROVE  DownloadsTypeOK' /\ FontsInv' /\ UpdaterInv'
<1> USE DownloadsAssumption DEF Moves
<1>t. DownloadsTypeOK
  BY DEF TypeOK
<1>d. NoFont \notin Fonts
  BY DEF Fonts, NoFont
\* Nothing that is downloaded changes, and no session begins or ends.
<1>u. ASSUME UNCHANGED downloads,
             \/ phase' = phase
             \/ phase \in Session /\ phase' \in Session
             \/ phase \notin Session /\ phase' \notin Session \cup Moves
      PROVE  DownloadsTypeOK' /\ FontsInv' /\ UpdaterInv'
  BY <1>t, <1>u DEF DownloadsTypeOK, FontsInv, UpdaterInv, UpdateInOrder,
                    downloads, updater, font_files, Session
\* The loader's changes to the plugin and the note about it
<1>l. ASSUME UNCHANGED <<font_files, parsed_information, rendering>>, phase \in Loader,
             phase' \in Loader, release_file' \in Files, plugin_file' \in Contents,
             one_volume' = one_volume, temp_file' \in Downloaded \cup {"part", "none"},
             UpdaterInv'
      PROVE  DownloadsTypeOK' /\ FontsInv' /\ UpdaterInv'
  BY <1>t, <1>l, Phases DEF DownloadsTypeOK, FontsInv, font_files
\* The threads and the frames end.
<1>s. ASSUME StopFonts, UNCHANGED updater, phase' \notin Session \cup Moves
      PROVE  DownloadsTypeOK' /\ FontsInv' /\ UpdaterInv'
  BY <1>t, <1>s DEF StopFonts, DownloadsTypeOK, FontsInv, UpdaterInv, UpdateInOrder, updater
\* The plugin is constructed.
<1>c. ASSUME Construct, phase \notin Session
      PROVE  DownloadsTypeOK' /\ FontsInv' /\ UpdaterInv'
  <2>1. /\ missing_fonts' = {f \in Fonts : fonts[f] = "none"}
        /\ spoiled' = {f \in spoiled : fonts[f] # "none"}
        /\ downloading' = NoFont /\ fonts' = fonts /\ phase' = "on"
        /\ UNCHANGED <<updater, parsed_information, rendering>>
    BY <1>c DEF Construct, FindMissing
  <2>2. missing_fonts = {} /\ downloading = NoFont /\ ~rendering
    BY <1>t, <1>c DEF FontsInv, DownloadsTypeOK
  <2>3. DownloadsTypeOK' /\ UpdaterInv'
    BY <1>t, <2>1 DEF DownloadsTypeOK, UpdaterInv, UpdateInOrder, updater
  <2>4. \A f \in Fonts : fonts'[f] = "cut" => f \in spoiled'
    BY <1>d, <2>1, <2>2 DEF FontsInv
  <2> QED
    BY <2>1, <2>2, <2>3, <2>4 DEF FontsInv, Session
<1>1. CASE Sessions
  <2>1. CASE Start \/ NoUpdate \/ LoadFails \/ CreateConfiguration
    BY <2>1, <1>u DEF Start, NoUpdate, LoadFails, CreateConfiguration, Session
  <2>2. CASE LoadPlugin \/ Created
    BY <2>2, <1>c DEF LoadPlugin, Created, Session
  <2>3. CASE InitializeRender
    <3>1. missing_fonts = {} /\ UNCHANGED <<updater, font_files>>
          /\ rendering' \in BOOLEAN /\ parsed_information' \in BOOLEAN
          /\ (rendering' => phase' \in Session) /\ phase \in Session
      BY <2>3, <1>t DEF InitializeRender, CanAssignFonts, DownloadsTypeOK, Session
    <3>2. phase' \notin Moves
      BY <2>3 DEF InitializeRender
    <3> QED
      BY <1>t, <3>1, <3>2 DEF DownloadsTypeOK, FontsInv, UpdaterInv, UpdateInOrder, updater, font_files
  <2>4. CASE Leave \/ Crash
    BY <2>4, <1>s DEF Leave, Crash, Session
  <2>5. CASE StatisticsWritten \/ Left
    BY <2>5, <1>u DEF StatisticsWritten, Left, Session
  <2> QED
    BY <1>1, <2>1, <2>2, <2>3, <2>4, <2>5 DEF Sessions
<1>2. CASE Configures \/ CountsTime \/ UNCHANGED vars
  BY <1>2, <1>u DEF Configures, BeginSave, EndSave, DeleteConfiguration, CountsTime, vars,
                    Session
<1>3. CASE Fetches
  <2>1. CASE AcceptUpdate
    <3>1. /\ phase = "checking" /\ phase' \in {"updating", "loading"}
          /\ temp_file' \in {temp_file, "part"}
          /\ UNCHANGED <<plugin_file, one_volume, release_file, font_files,
                         parsed_information, rendering>>
      BY <2>1 DEF AcceptUpdate, BeginDownload, Unreachable, updater
    <3>2. UpdaterInv'
      BY <3>1 DEF UpdaterInv, UpdateInOrder
    <3> QED
      BY <1>t, <1>l, <3>1, <3>2 DEF Loader, DownloadsTypeOK
  <2>5. CASE DownloadEnds
    <3>1. /\ phase = "updating" /\ phase' = "renaming" /\ temp_file' \in Downloaded
          /\ UNCHANGED <<plugin_file, one_volume, release_file, font_files,
                         parsed_information, rendering>>
      BY <2>5 DEF DownloadEnds, EndDownload
    <3>2. UpdaterInv'
      BY <3>1 DEF UpdaterInv, UpdateInOrder
    <3> QED
      BY <1>t, <1>l, <3>1, <3>2 DEF Loader, DownloadsTypeOK
  <2>6. CASE Rename \/ EndCopy
    <3>1. /\ phase \in {"renaming", "copying"} /\ temp_file \in Downloaded
          /\ UNCHANGED <<font_files, parsed_information, rendering, one_volume>>
      BY <2>6 DEF Rename, EndCopy, UpdaterInv, Failed, Moved, BeginCopy, Copied
    <3>2. CASE Failed
      <4>1. /\ phase' = "loading" /\ UNCHANGED <<plugin_file, temp_file, release_file>>
        BY <3>2 DEF Failed, NoNote
      <4>2. UpdaterInv'
        BY <3>1, <4>1 DEF UpdaterInv, UpdateInOrder
      <4> QED
        BY <1>t, <1>l, <3>1, <4>1, <4>2 DEF Loader, DownloadsTypeOK
    <3>3. CASE (Moved \/ Copied) /\ Updated
      <4>1. /\ plugin_file' = temp_file /\ temp_file' \in {temp_file, "none"}
            /\ phase' \in {"loading", "noting"} /\ release_file' \in {release_file, "cut"}
        BY <3>3 DEF Moved, Copied, Updated, BeginNote, NoNote
      <4>2. UpdaterInv'
        BY <3>1, <4>1 DEF UpdaterInv, UpdateInOrder, Downloaded
      <4> QED
        BY <1>t, <1>l, <3>1, <4>1, <4>2 DEF Loader, DownloadsTypeOK, Files, Contents
    <3>4. CASE ~one_volume /\ phase' = "copying" /\ BeginCopy
      <4>1. plugin_file' = "half" /\ UNCHANGED <<temp_file, release_file>>
        BY <3>4 DEF BeginCopy
      <4>2. UpdaterInv'
        BY <3>1, <3>4, <4>1 DEF UpdaterInv, UpdateInOrder
      <4> QED
        BY <1>t, <1>l, <3>1, <3>4, <4>1, <4>2 DEF Loader, DownloadsTypeOK, Contents
    <3> QED
      BY <2>6, <3>2, <3>3, <3>4 DEF Rename, EndCopy
  <2>7. CASE Noted
    <3>1. /\ phase = "noting" /\ phase' = "loading" /\ release_file' = "whole"
          /\ UNCHANGED <<plugin_file, temp_file, one_volume, font_files, parsed_information,
                         rendering>>
      BY <2>7 DEF Noted
    <3>2. UpdaterInv'
      BY <3>1 DEF UpdaterInv, UpdateInOrder
    <3> QED
      BY <1>t, <1>l, <3>1, <3>2 DEF Loader, DownloadsTypeOK, Files
  <2>2. CASE BeginFont /\ phase \in Session /\ phase' = phase
    <3>1. PICK f \in missing_fonts :
            \/ /\ fonts' = [fonts EXCEPT ![f] = "cut"] /\ downloading' = f
               /\ UNCHANGED <<missing_fonts, spoiled>>
            \/ /\ missing_fonts' = missing_fonts \ {f} /\ spoiled' = spoiled \cup {f}
               /\ UNCHANGED <<fonts, downloading>>
      BY <2>2 DEF BeginFont
    <3>2. downloading = NoFont /\ f \in Fonts /\ ~rendering
          /\ UNCHANGED <<updater, parsed_information, rendering>>
      BY <2>2, <1>t DEF BeginFont, DownloadsTypeOK, FontsInv
    <3>3. DownloadsTypeOK' /\ UpdaterInv'
      BY <1>t, <2>2, <3>1, <3>2
         DEF DownloadsTypeOK, Files, UpdaterInv, UpdateInOrder, updater
    <3>4. \A g \in Fonts : fonts'[g] = "cut" => g \in spoiled' \/ g = downloading'
      BY <1>t, <1>d, <3>1, <3>2 DEF FontsInv, DownloadsTypeOK
    <3>5. \A g \in Fonts : fonts'[g] = "none" => g \in spoiled' \cup missing_fonts'
      BY <1>t, <2>2, <3>1, <3>2 DEF FontsInv, DownloadsTypeOK
    <3> QED
      BY <2>2, <3>2, <3>3, <3>4, <3>5 DEF FontsInv
  <2>3. CASE EndFont /\ phase \in Session /\ phase' = phase
    <3>1. downloading \in missing_fonts /\ downloading \in Fonts /\ ~rendering
      BY <2>3, <1>t DEF EndFont, DownloadsTypeOK, FontsInv
    <3>2. /\ \/ fonts' = [fonts EXCEPT ![downloading] = "whole"] /\ UNCHANGED spoiled
             \/ spoiled' = spoiled \cup {downloading} /\ UNCHANGED fonts
          /\ missing_fonts' = missing_fonts \ {downloading} /\ downloading' = NoFont
          /\ UNCHANGED <<updater, parsed_information, rendering>>
      BY <2>3 DEF EndFont
    <3>3. DownloadsTypeOK' /\ UpdaterInv'
      BY <1>t, <2>3, <3>1, <3>2
         DEF DownloadsTypeOK, Files, UpdaterInv, UpdateInOrder, updater
    <3>4. \A g \in Fonts : fonts'[g] = "cut" => g \in spoiled'
      BY <1>t, <3>1, <3>2 DEF FontsInv, DownloadsTypeOK
    <3>5. \A g \in Fonts : fonts'[g] = "none" => g \in spoiled' \cup missing_fonts'
      BY <1>t, <2>3, <3>1, <3>2 DEF FontsInv, DownloadsTypeOK
    <3> QED
      BY <2>3, <3>1, <3>2, <3>3, <3>4, <3>5 DEF FontsInv
  <2>4. CASE CloseInformation /\ phase' = phase
    BY <2>4, <1>t
       DEF CloseInformation, DownloadsTypeOK, FontsInv, UpdaterInv, UpdateInOrder, font_files, Files
  <2> QED
    BY <1>3, <2>1, <2>2, <2>3, <2>4, <2>5, <2>6, <2>7 DEF Fetches
<1> QED
  BY <1>1, <1>2, <1>3 DEF Next

-----------------------------------------------------------------------------
(* The statistics                                                          *)

LEMMA PartOfAll ==
  ASSUME NEW dates \in Seq(DateEntries)
  PROVE  PartOf(dates, dates)
<1>1. Len(dates) \in Nat /\ Len(dates) \in 0..Len(dates)
  BY LenProperties
<1>2. SubSeq(dates, 1, Len(dates)) = dates
  BY SubSeqFull
<1> QED
  BY <1>1, <1>2, FirstDates

LEMMA CountsType ==
  ASSUME clock \in Nat, NEW types, NEW dates \in Seq(DateEntries)
  PROVE  WithCounts(dates, types) \in Seq(DateEntries)
<1>1. Today \in Nat /\ CurrentHours \in 0..(HoursADay - 1)
  BY DEF Today, CurrentHours, HoursADay
<1>2. ASSUME NEW values \in Seq(Counters)
      PROVE  Incremented(values) \in Seq(Counters)
  <2>1. Len(values) \in Nat /\ DOMAIN values = 1..Len(values)
        /\ \A i \in 1..Len(values) : values[i] \in Counters
    BY LenProperties, ElementOfSeq
  <2>2. [range |-> CurrentHours, value |-> 1] \in Counters
    BY <1>1 DEF Counters
  <2>3. \A i \in 1..Len(values) :
          (IF values[i].range = CurrentHours THEN [values[i] EXCEPT !.value = @ + 1]
           ELSE values[i]) \in Counters
    BY <2>1 DEF Counters
  <2>4. [i \in DOMAIN values |->
           IF values[i].range = CurrentHours THEN [values[i] EXCEPT !.value = @ + 1]
           ELSE values[i]] \in Seq(Counters)
    BY <2>1, <2>3
  <2>5. Append(values, [range |-> CurrentHours, value |-> 1]) \in Seq(Counters)
    BY <2>2
  <2> QED
    BY <2>4, <2>5 DEF Incremented
<1> DEFINE none == [date |-> Today, entries |-> NoEntries]
           today == IF \E i \in DOMAIN dates : dates[i].date = Today
                    THEN dates ELSE Append(dates, none)
           Counted(e) == [e EXCEPT !.entries =
                            [t \in Types |-> IF t \in types THEN Incremented(@[t])
                                      ELSE @[t]]]
<1>3. none \in DateEntries
  <2>1. \A t \in Types : <<>> \in Seq(Counters)
    OBVIOUS
  <2>2. NoEntries \in [Types -> Seq(Counters)]
    BY <2>1 DEF NoEntries
  <2> QED
    BY <1>1, <2>2 DEF DateEntries
<1>4. today \in Seq(DateEntries)
  <2> HIDE DEF none
  <2> QED
    BY <1>3
<1>5. ASSUME NEW e \in DateEntries
      PROVE  Counted(e) \in DateEntries
  <2>1. \A t \in Types : e.entries[t] \in Seq(Counters)
    BY DEF DateEntries
  <2>2. \A t \in Types : (IF t \in types THEN Incremented(e.entries[t]) ELSE e.entries[t])
                           \in Seq(Counters)
    BY <1>2, <2>1
  <2>3. [t \in Types |-> IF t \in types THEN Incremented(e.entries[t]) ELSE e.entries[t]]
          \in [Types -> Seq(Counters)]
    BY <2>2
  <2> QED
    BY <2>3 DEF DateEntries
<1>6. WithCounts(dates, types)
        = [i \in DOMAIN today |-> IF today[i].date # Today THEN today[i]
                  ELSE Counted(today[i])]
  BY DEF WithCounts
<1> HIDE DEF today, Counted
<1>7. Len(today) \in Nat /\ DOMAIN today = 1..Len(today)
      /\ \A i \in 1..Len(today) : today[i] \in DateEntries
  BY <1>4, LenProperties, ElementOfSeq
<1>8. \A i \in 1..Len(today) :
        (IF today[i].date # Today THEN today[i] ELSE Counted(today[i])) \in DateEntries
  BY <1>5, <1>7
<1>9. [i \in 1..Len(today) |-> IF today[i].date # Today THEN today[i]
          ELSE Counted(today[i])]
        \in Seq(DateEntries)
  BY <1>7, <1>8
<1> QED
  BY <1>6, <1>7, <1>9

LEMMA StatisticsStep ==
  ASSUME StatisticsInv, [Next]_vars
  PROVE  StatisticsInv'
<1> USE StorageAssumption
<1>n. None \notin Seq(Tokens) /\ clock \in Nat
  BY DEF StatisticsInv, StatisticsTypeOK
<1>k. clock \in 0..MaxClock
  BY DEF StatisticsInv, StatisticsTypeOK
\* Nothing of the statistics changes, and the phase stays where the same is said or
\* less.
<1>u. ASSUME UNCHANGED statistics, clock' \in 0..MaxClock,
             \/ phase' = phase
             \/ phase \in Session /\ phase' \in Session
             \/ phase' \in Useless
             \/ phase \in {"off"} \cup Loader /\ phase' \in {"creating"} \cup Loader
      PROVE  StatisticsInv'
  BY <1>u DEF StatisticsInv, StatisticsTypeOK, statistics, OnDisk, Session, Loader, Useless
\* A session begins.
<1>c. ASSUME Construct, phase \in {"creating"} \cup Loader
      PROVE  StatisticsInv'
  <2>1. phase' = "on" /\ date_entries' = OnDisk
        /\ UNCHANGED <<statistics_file, written, counted, clock>>
    BY <1>c DEF Construct, ReadStatistics, OnDisk
  <2> QED
    BY <1>c, <2>1 DEF StatisticsInv, StatisticsTypeOK, Session, Loader, OnDisk
<1>1. CASE Sessions
  <2>1. CASE Start \/ NoUpdate \/ LoadFails
    BY <2>1, <1>k, <1>u DEF Start, NoUpdate, LoadFails, storage, Loader, Useless
  <2>2. CASE LoadPlugin \/ Created
    BY <2>2, <1>k, <1>c DEF LoadPlugin, Created, Loader
  <2>3. CASE CreateConfiguration
    BY <2>3, <1>k, <1>u DEF CreateConfiguration, Loader
  <2>4. CASE InitializeRender
    BY <2>4, <1>k, <1>u DEF InitializeRender, storage, Useless
  <2>5. CASE Leave
    <3>1. /\ phase = "on" /\ phase' = "leaving" /\ statistics_file' = <<>>
          /\ written' = date_entries /\ UNCHANGED <<date_entries, counted, clock>>
      BY <2>5 DEF Leave
    <3>2. date_entries = counted /\ counted \in Seq(DateEntries)
      BY <3>1 DEF StatisticsInv, StatisticsTypeOK, Session
    <3>3. Read(<<>>) \in Seq(DateEntries) /\ PartOf(Read(<<>>), date_entries)
      <4>1. Written(date_entries) \in Seq(Tokens)
        BY <3>2, ReadBack
      <4>2. 0 \in 0..Len(Written(date_entries))
        BY <4>1, LenProperties
      <4>3. SubSeq(Written(date_entries), 1, 0) = <<>>
        BY SubSeqEmpty
      <4> QED
        BY <3>2, <4>2, <4>3, ReadBack
    <3>4. <<>> \in Seq(Tokens) /\ <<>> # None
      <4>1. <<>> \in Seq(Tokens)
        OBVIOUS
      <4> QED
        BY <1>n, <4>1
    <3> QED
      BY <3>1, <3>2, <3>3, <3>4 DEF StatisticsInv, StatisticsTypeOK, Session, Loader, OnDisk
  <2>6. CASE StatisticsWritten
    <3>1. /\ phase = "leaving" /\ phase' = "closing"
          /\ statistics_file' = Written(date_entries)
          /\ UNCHANGED <<date_entries, written, counted, clock>>
      BY <2>6 DEF StatisticsWritten
    <3>2. date_entries = counted /\ date_entries = written /\ written \in Seq(DateEntries)
      BY <3>1 DEF StatisticsInv, StatisticsTypeOK
    <3>3. /\ statistics_file' \in Seq(Tokens) /\ Read(statistics_file') = written
          /\ statistics_file' # None
      BY <1>n, <3>1, <3>2, ReadBack
    <3>4. PartOf(written, written)
      BY <3>2, PartOfAll
    <3> QED
      BY <3>1, <3>2, <3>3, <3>4 DEF StatisticsInv, StatisticsTypeOK, OnDisk
  <2>7. CASE Left
    <3>1. /\ phase = "closing" /\ phase' = "off"
          /\ date_entries' = <<>> /\ UNCHANGED <<statistics_file, written, counted, clock>>
      BY <2>7 DEF Left
    <3> QED
      BY <3>1 DEF StatisticsInv, StatisticsTypeOK, Session, Loader, OnDisk
  <2>8. CASE Crash
    <3>1. /\ phase' = "off" /\ date_entries' = <<>> /\ UNCHANGED <<written, clock>>
          /\ counted' = IF statistics_file' \in {None, Written(written)}
                        THEN written ELSE Read(statistics_file')
      BY <2>8 DEF Crash
    <3>2. /\ written \in Seq(DateEntries) /\ Read(Written(written)) = written
          /\ Written(written) \in Seq(Tokens)
      BY ReadBack DEF StatisticsInv, StatisticsTypeOK
    <3>3. /\ statistics_file' \in {None} \cup Seq(Tokens)
          /\ statistics_file' = None => written = <<>>
          /\ statistics_file' # None => /\ Read(statistics_file') \in Seq(DateEntries)
                                       /\ PartOf(Read(statistics_file'), written)
      <4>1. CASE phase = "leaving"
        <5>1. PICK n \in 0..Len(Written(date_entries)) :
                statistics_file' = SubSeq(Written(date_entries), 1, n)
          BY <2>8, <4>1 DEF Crash
        <5>2. date_entries = written
          BY <4>1 DEF StatisticsInv, StatisticsTypeOK
        <5> QED
          BY <1>n, <3>2, <5>1, <5>2, ReadBack
      <4>2. CASE phase # "leaving"
        BY <2>8, <4>2 DEF Crash, StatisticsInv, StatisticsTypeOK
      <4> QED
        BY <4>1, <4>2
    <3>4. counted' = IF statistics_file' = None THEN <<>> ELSE Read(statistics_file')
      BY <3>1, <3>2, <3>3
    <3>5. counted' \in Seq(DateEntries)
      BY <3>3, <3>4
    <3>6. phase' \notin Session \cup {"leaving", "closing"}
      BY <3>1 DEF Session
    <3> QED
      BY <3>1, <3>2, <3>3, <3>4, <3>5, <3>6 DEF StatisticsInv, StatisticsTypeOK, OnDisk
  <2> QED
    BY <1>1, <2>1, <2>2, <2>3, <2>4, <2>5, <2>6, <2>7, <2>8 DEF Sessions
<1>2. CASE Configures
  BY <1>2, <1>k, <1>u
     DEF Configures, BeginSave, EndSave, DeleteConfiguration, SetOption, Session
<1>3. CASE CountsTime
  <2>1. phase = "on" /\ phase' = "on"
    BY <1>3 DEF CountsTime
  <2>2. CASE HourPasses
    <3>1. clock' \in 0..MaxClock /\ UNCHANGED statistics
      BY <2>2 DEF HourPasses, StatisticsInv, StatisticsTypeOK
    <3> QED
      BY <2>1, <3>1, <1>u
  <2>3. ASSUME NEW types \in Together, Counts(types)
        PROVE  StatisticsInv'
    <3>1. /\ date_entries' = WithCounts(date_entries, types)
          /\ counted' = WithCounts(counted, types)
          /\ UNCHANGED <<statistics_file, written, clock>>
      BY <2>3 DEF Counts
    <3>2. counted \in Seq(DateEntries) /\ date_entries = counted
      BY <2>1 DEF StatisticsInv, StatisticsTypeOK, Session
    <3>3. counted' \in Seq(DateEntries) /\ date_entries' = counted'
      BY <1>n, <3>1, <3>2, CountsType
    <3> QED
      BY <2>1, <3>1, <3>3 DEF StatisticsInv, StatisticsTypeOK, Loader, OnDisk
  <2> QED
    BY <1>3, <2>2, <2>3 DEF CountsTime
<1>4. CASE Fetches \/ UNCHANGED vars
  BY <1>4, <1>k, <1>u
     DEF Fetches, AcceptUpdate, DownloadEnds, Rename, EndCopy, Noted, Failed, Updated, NoNote,
         BeginNote, Unreachable, vars, storage, Loader
<1> QED
  BY <1>1, <1>2, <1>3, <1>4 DEF Next

-----------------------------------------------------------------------------
(* All together                                                            *)

LEMMA PhaseType ==
  ASSUME TypeOK, [Next]_vars
  PROVE  phase' \in {"off", "creating", "leaving", "closing"} \cup Loader \cup Session
                    \cup Useless
<1> USE DEF TypeOK, Loader, Session, Useless
<1>1. CASE Sessions
  BY <1>1 DEF Sessions, Start, NoUpdate, LoadPlugin, Construct, CreateConfiguration, Created,
              LoadFails, InitializeRender, Leave, StatisticsWritten, Left, Crash
<1>2. CASE Configures \/ CountsTime \/ Fetches \/ UNCHANGED vars
  BY <1>2 DEF Configures, BeginSave, EndSave, DeleteConfiguration, CountsTime, Fetches,
              AcceptUpdate, DownloadEnds, Rename, EndCopy, Noted, Failed, Updated, NoNote,
              BeginNote, Unreachable, vars
<1> QED
  BY <1>1, <1>2 DEF Next

LEMMA StepIInv == IInv /\ [Next]_vars => IInv'
<1> SUFFICES ASSUME IInv, [Next]_vars PROVE IInv'
  OBVIOUS
<1>1. ConfigurationTypeOK' /\ SettingsInv'
  BY ConfigurationStep DEF IInv
<1>2. DownloadsTypeOK' /\ FontsInv' /\ UpdaterInv'
  BY DownloadsStep DEF IInv
<1>3. StatisticsInv'
  BY StatisticsStep DEF IInv
<1> QED
  BY <1>1, <1>2, <1>3, PhaseType DEF IInv, TypeOK, StatisticsInv

LEMMA Inductive == Spec => []IInv
  BY InitIInv, StepIInv, PTL DEF Spec

-----------------------------------------------------------------------------
\* The files and what is in memory have their types.
THEOREM TypeCorrect == Spec => []TypeOK
<1>1. IInv => TypeOK
  BY DEF IInv
<1> QED
  BY <1>1, Inductive, PTL

\* configuration_initializer: a session's settings are the user's, whichever
\* way the one before it ended.
THEOREM SettingsAreKept == Spec => []SettingsKept
<1>1. IInv => SettingsKept
  BY DEF IInv, SettingsInv, SettingsKept
<1> QED
  BY <1>1, Inductive, PTL

\* statistics_t::write, read: the destructor's file is read back in full, and what a
\* crash leaves of it tells nothing that is not true.
THEOREM StatisticsAreKept == Spec => []StatisticsKept
<1>1. IInv => StatisticsKept
  BY DEF IInv, StatisticsInv, StatisticsKept
<1> QED
  BY <1>1, Inductive, PTL

\* fonts_initializer: frames wait for the thread that fetches the fonts.
THEOREM RenderWaitsForFonts == Spec => []RenderHasFonts
<1>1. IInv => RenderHasFonts
  <2> SUFFICES ASSUME IInv, rendering, NEW f \in Fonts
               PROVE  fonts[f] = "whole" \/ f \in spoiled
    BY DEF RenderHasFonts
  <2>1. fonts[f] \in {"none", "cut", "whole"} /\ missing_fonts = {} /\ downloading = NoFont
    BY DEF IInv, TypeOK, DownloadsTypeOK, Files, FontsInv
  <2>2. f # NoFont
    BY DownloadsAssumption DEF Fonts, NoFont
  <2> QED
    BY <2>1, <2>2 DEF IInv, FontsInv
<1> QED
  BY <1>1, Inductive, PTL

\* loader_t::update_plugin, save_release_information: whatever failed or crashed
\* before, only a download that has ended is moved over the plugin, and a release
\* is noted only after that.
THEOREM UpdatesAreInOrder == Spec => []UpdateInOrder
<1>1. IInv => UpdateInOrder
  BY DEF IInv, UpdaterInv
<1> QED
  BY <1>1, Inductive, PTL
=============================================================================
