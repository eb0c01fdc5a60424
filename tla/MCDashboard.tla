---------------------------- MODULE MCDashboard ----------------------------
(***************************************************************************)
(* Instances of Dashboard, and the market's hours checked for every minute *)
(* of a week.                                                              *)
(***************************************************************************)
EXTENDS Dashboard

\* The last open minute of a Friday in Korea and the one that follows.
MCMoments == {[day |-> 5, minute |-> 389], [day |-> 5, minute |-> 390]}

\* Which stock it is makes no difference.
MCTables == {<<CHOOSE symbol \in Domestic : TRUE>>}

\* The minutes of a week in Korea, which is nine hours ahead, in which the market is open.
OpenMinutes == UNION {d * 1440 + 540 .. d * 1440 + 929 : d \in 1 .. 5}

\* isMarketHours agrees with them whatever the day and the minute of UTC.
ASSUME MarketHoursAreKorean ==
    \A d \in 0 .. 6, m \in 0 .. 1439 :
      IsMarketHours([day |-> d, minute |-> m]) <=>
        (d * 1440 + m + 540) % 10080 \in OpenMinutes
=============================================================================
