------------------------------ MODULE Storage -------------------------------
(***************************************************************************)
(* The two files the plugin writes about its user: the configuration       *)
(* (main.mpk) and the statistics (statistics.dat).  Both are written over  *)
(* the previous file, which a crash in between leaves cut; what a session  *)
(* does with them, and when, is in Lifecycle.                              *)
(***************************************************************************)
EXTENDS Sequences, Integers

CONSTANTS
  Keys,          \* of the configuration
  Fresh,         \* the keys an older version's file does not have
  Values, Default,
  TypeCount,     \* of the statistics: entry_type::count
  Together,      \* the sets of types one handler counts
  MaxClock,      \* bound: the hours that pass
  MaxCount,      \* bound: the seconds or messages counted in an hour
  None, Cut      \* no file; a file whose writing did not end

HoursADay == 2

Settings == [Keys -> Values]

Types == 1..TypeCount
Counters == [range : 0..(HoursADay - 1), value : Nat]
DateEntries == [date : Nat, entries : [Types -> Seq(Counters)]]
Tokens == ({"date"} \X Nat) \cup ({"entry"} \X Types) \cup ({"count"} \X Nat)
          \cup ({"value"} \X Counters)

ASSUME StorageAssumption ==
  /\ MaxClock \in Nat
  /\ Fresh \subseteq Keys /\ Default \in Values
  /\ TypeCount \in Nat /\ Together \subseteq SUBSET Types
  /\ None # Cut /\ None \notin Seq(Tokens)
  /\ \A keys \in {Keys, Keys \ Fresh} :
       None \notin [keys -> Values] /\ Cut \notin [keys -> Values]

VARIABLES
  main_file, main_json,
  saved, meant,            \* history: the last save, and what the user set
  statistics_file,         \* None, or the tokens of the file
  date_entries,
  written, counted,        \* history: the last write, and all that was counted
  clock                    \* hours; HoursADay of them make a day

configuration == <<main_file, main_json, saved, meant>>
statistics == <<statistics_file, date_entries, written, counted>>
storage == <<configuration, statistics, clock>>

ConfigurationTypeOK ==
  /\ main_file \in {None, Cut} \cup Settings \cup [Keys \ Fresh -> Values]
  /\ main_json \in Settings /\ saved \in Settings /\ meant \in Settings

StatisticsTypeOK ==
  /\ statistics_file \in {None} \cup Seq(Tokens)
  /\ date_entries \in Seq(DateEntries) /\ written \in Seq(DateEntries)
  /\ counted \in Seq(DateEntries)
  /\ clock \in 0..MaxClock

-----------------------------------------------------------------------------
(* The configuration                                                       *)

Embedded == [k \in Keys |-> Default]

\* json::merge_patch: the file's values over the embedded ones
MergedUnder(file) == Embedded                                    \* mutant
Merged(file) == [k \in Keys |-> IF k \in DOMAIN file THEN file[k] ELSE Embedded[k]]

ConfigurationInit ==
  /\ main_file \in {None} \cup [Keys \ Fresh -> Values]
  /\ main_json = Embedded
  /\ saved = IF main_file = None THEN Embedded ELSE Merged(main_file)
  /\ meant = saved

\* A setting is changed in the main window or by a hotkey.
SetOption(k, v) ==
  /\ main_json' = [main_json EXCEPT ![k] = v] /\ meant' = [meant EXCEPT ![k] = v]
  /\ UNCHANGED <<main_file, saved, statistics, clock>>

\* write: the file is opened, and emptied by it; its bytes are out
Truncate == main_file' = Cut /\ UNCHANGED <<main_json, saved, meant>>
Save == main_file' = main_json /\ saved' = main_json /\ UNCHANGED <<main_json, meant>>

-----------------------------------------------------------------------------
(* The statistics                                                          *)

Today == clock \div HoursADay
CurrentHours == clock % HoursADay

NoEntries == [t \in Types |-> <<>>]

\* increment_value_at
Incremented(values) ==
  IF \E i \in DOMAIN values : values[i].range = CurrentHours
  THEN [i \in DOMAIN values |->
          IF values[i].range = CurrentHours THEN [values[i] EXCEPT !.value = @ + 1]
                                            ELSE values[i]]
  ELSE Append(values, [range |-> CurrentHours, value |-> 1])

\* get_today_entry, then increment_value_at for each type
WithCounts(dates, types) ==
  LET today == IF \E i \in DOMAIN dates : dates[i].date = Today
               THEN dates ELSE Append(dates, [date |-> Today, entries |-> NoEntries])
  IN [i \in DOMAIN today |->
        IF today[i].date # Today THEN today[i]
        ELSE [today[i] EXCEPT !.entries =
                [t \in Types |-> IF t \in types THEN Incremented(@[t]) ELSE @[t]]]]

\* statistics_t::write.  A date, an opcode, a count and a value are one token
\* each: a cut inside one reads as a cut before it.
WrittenEntry(type, values) ==
  IF values = <<>> THEN <<>>
  ELSE <<<<"entry", type>>, <<"count", Len(values)>>>>
       \o [i \in DOMAIN values |-> <<"value", values[i]>>]

\* The loop over the types of a date, and that over the dates: what there is after
\* the first n
WrittenEntries(entry) ==
  LET file[n \in 0..TypeCount] ==
        IF n = 0 THEN <<<<"date", entry.date>>>>
        ELSE file[n - 1] \o WrittenEntry(n, entry.entries[n])
  IN file

WrittenDates(dates) ==
  LET file[n \in 0..Len(dates)] ==
        IF n = 0 THEN <<>> ELSE file[n - 1] \o WrittenEntries(dates[n])[TypeCount]
  IN file

Written(dates) == WrittenDates(dates)[Len(dates)]

\* statistics_t::read: `open` is the date being read, `left` what is still to
\* come of its entry, the count byte included
Reading == [dates |-> <<>>, open |-> <<>>, type |-> 0, left |-> 0]

Token(reading, token) ==
  CASE token[1] = "date" ->
         [reading EXCEPT !.dates = @ \o reading.open,
                         !.open = <<[date |-> token[2], entries |-> NoEntries]>>]
    [] token[1] = "entry" -> [reading EXCEPT !.type = token[2], !.left = 1]
    [] token[1] = "count" -> [reading EXCEPT !.left = token[2]]
    [] OTHER -> [reading EXCEPT !.open[1].entries[reading.type] = Append(@, token[2]),
                                !.left = @ - 1]

\* The end of the file inside an entry drops the date it belongs to.
KeptHalf(reading) == reading.dates \o reading.open               \* mutant
KeptAtEnd(reading) ==
  reading.dates \o IF reading.left = 0 THEN reading.open ELSE <<>>

\* What has been read after the first n tokens
Readings(file) ==
  LET reading[n \in 0..Len(file)] ==
        IF n = 0 THEN Reading ELSE Token(reading[n - 1], file[n])
  IN reading

Read(file) == KeptAtEnd(Readings(file)[Len(file)])

StatisticsInit ==
  /\ statistics_file = None /\ date_entries = <<>> /\ written = <<>> /\ counted = <<>>
  /\ clock = 0

Counts(types) ==
  /\ date_entries' = WithCounts(date_entries, types)
  /\ counted' = WithCounts(counted, types)
  /\ \A i \in DOMAIN date_entries', t \in Types :                 \* bound
       \A j \in DOMAIN date_entries'[i].entries[t] :
         date_entries'[i].entries[t][j].value <= MaxCount
  /\ UNCHANGED <<statistics_file, written, configuration, clock>>

HourPasses ==
  /\ clock < MaxClock /\ clock' = clock + 1
  /\ UNCHANGED <<configuration, statistics>>

\* The constructor of statistics_updater: a file that is not there is an empty
\* history.
ReadStatistics ==
  /\ date_entries' = IF statistics_file = None THEN <<>> ELSE Read(statistics_file)
  /\ UNCHANGED <<statistics_file, written, counted>>

\* What reading the file of `dates`, whole or cut, may give: the dates in order,
\* each but the last in full, and of the last none of its entries by half.
PartOf(read, dates) ==
  /\ Len(read) <= Len(dates)
  /\ \A i \in DOMAIN read :
       /\ i < Len(read) => read[i] = dates[i]
       /\ read[i].date = dates[i].date
       /\ \A t \in Types : read[i].entries[t] \in {<<>>, dates[i].entries[t]}
=============================================================================
