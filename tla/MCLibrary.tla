------------------------------ MODULE MCLibrary ------------------------------
(* Values of the constants of Library, for TLC. *)
EXTENDS Library, TLC

\* The mount points /d and /u; the archive holds a file in a directory, too.
MCDev   == <<"/", "d">>
MCUstar == <<"/", "u">>
MCFiles == (MCDev :> {<<"r">>}) @@ (MCUstar :> {<<"r">>, <<"u", "/", "r">>})

\* Times near the ends of minutes, hours, days, months, years and a century.
Time(yr, mo, d, h, mi, s) ==
  [year |-> yr, month |-> mo, day |-> d, hours |-> h, minutes |-> mi, seconds |-> s]

MCStarts ==
  { Time(1999, 12, 31, 23, 59, 58), Time(2000, 2, 28, 23, 59, 58),
    Time(2023, 1, 31, 23, 59, 58), Time(2024, 2, 29, 23, 59, 59),
    Time(2019, 12, 31, 23, 59, 59), Time(2021, 6, 15, 19, 59, 58),
    Time(2022, 11, 9, 9, 29, 58), Time(2025, 10, 20, 12, 34, 48) }

\* The names in the archive, for the theorem about open().
ASSUME NamesArePlain == P!NamesPlain

Symmetry == Permutations(Values)
=============================================================================
