----------------------------- MODULE MCDevices ------------------------------
(***************************************************************************)
(* The first, the middle and the last days of the months of a leap year    *)
(* and of another year, the end of February 2000, of 2079 (when the year's *)
(* byte gets its top bit) and of the century, each at hours at which a day *)
(* ends for the clock or for the time zone.                                *)
(* Drives other than an absent one are combined with two of these times.   *)
(***************************************************************************)
EXTENDS Devices

Days == {<<d, mo, y>> \in {1, 15, 28, 29, 30, 31} \X (1 .. 12) \X {20, 21} : d <= MonthLength(mo, y)}
        \cup {<<28, 2, 0>>, <<29, 2, 0>>, <<31, 12, 79>>, <<31, 12, 99>>}

Hours == {<<59, 59, 21>>, <<0, 0, 22>>, <<58, 59, 23>>, <<37, 45, 9>>}

MCStarts   == {t \o day : t \in Hours, day \in Days}
MCMachines == {<<"absent", t>> : t \in MCStarts}
              \cup Drives \X {<<58, 59, 23, 31, 12, 20>>, <<37, 45, 9, 29, 2, 20>>}
=============================================================================
