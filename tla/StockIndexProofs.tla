-------------------------- MODULE StockIndexProofs --------------------------
(***************************************************************************)
(* Safety of the stock index, for any markets, sizes, clocks and numbers   *)
(* of starts.  A start relies on what earlier ones left in the files, so   *)
(* the invariant says what the files are (Files), what a start holds       *)
(* (Results), and that a file which was written to its end and has not     *)
(* expired is still there and is not written again (Kept).                 *)
(***************************************************************************)
EXTENDS StockIndex, TLAPS

\* Downloads are under way in a refresh only, and nothing is served before its end.
Quiet ==
    /\ phase # "refreshing" => asked = {}
    /\ phase = "refreshing" => started = now
    /\ phase # "serving" => \A m \in Markets : index[m] = {}

\* A download is whole and of this start; what is less comes from a file that was cut.
Results ==
    \A m \in Markets : \A result \in got[m] :
      /\ started < result.listing + TTL
      /\ result.fresh => result.rows = result.of /\ result.listing = started
      /\ ~result.fresh /\ result.rows # result.of => m \in cut

\* A file is as old as its listing, and one that is not whole was cut.
Files ==
    \A m \in Markets : \A file \in disk[m] :
      /\ file.stamp = file.listing
      /\ file.torn \/ file.rows # file.of => m \in cut

\* What was written to its end within a day.
Kept ==
    \A m \in Markets : \A time \in saved[m] : now < time + TTL =>
      /\ \E file \in disk[m] : ~file.torn /\ file.stamp = time /\ file.rows = file.of
      /\ m \notin asked
      /\ phase = "refreshing" =>
           \A i \in DOMAIN Order, result \in got[m] :
             Order[i] = m /\ result.fresh => i < at

\* Rows that a start holds are what it serves.
Served ==
    phase = "serving" /\ (\E m \in Markets : \E result \in got[m] : result.rows > 0) =>
      index = got

Inv == TypeOK /\ Quiet /\ Results /\ Files /\ Kept /\ Served

LEMMA OrderFacts ==
    /\ TTL \in Nat \ {0} /\ Size \in Nat /\ MaxClock \in Nat /\ MaxStarts \in Nat
    /\ Len(Order) \in Nat /\ DOMAIN Order = 1 .. Len(Order)
    /\ \A i \in DOMAIN Order : Order[i] \in Markets
    /\ \A i, j \in DOMAIN Order : Order[i] = Order[j] => i = j
  BY StockIndexAssumption DEF Markets, ToSet, IsInjective

LEMMA InitInv == Init => Inv
  BY OrderFacts DEF Init, Inv, TypeOK, Quiet, Results, Files, Kept, Served, Nothing,
     AtMostOne

-----------------------------------------------------------------------------
(* What a start finds in the files it can read. *)
LEMMA StartKeeps == ASSUME Inv, Start PROVE Inv'
<1> USE OrderFacts DEF Inv, Start
<1>1. \A m \in Markets : \A result \in got'[m] :
        \E file \in disk[m] : Readable(file) /\ result = Cached(file)
  OBVIOUS
<1>2. \A m \in Markets : \A file \in disk[m] : Readable(file) =>
        Cached(file) \in got'[m] /\ m \notin asked'
  OBVIOUS
<1>3. \A m \in Markets : \A file \in disk[m] :
        Cached(file) \in Result /\ ~Cached(file).fresh
  BY DEF TypeOK, File, Cached, Result
<1>4. TypeOK'
  <2>1. got' \in [Markets -> SUBSET Result]
    BY <1>1, <1>3
  <2>2. \A m \in Markets : AtMostOne(got'[m])
    BY <1>1 DEF TypeOK, AtMostOne
  <2>3. \A m \in Markets : index'[m] = {}
    BY DEF Quiet
  <2> QED
    BY <2>1, <2>2, <2>3 DEF TypeOK, AtMostOne
<1>5. Quiet'
  BY DEF Quiet
<1>6. Results'
  BY <1>1 DEF Results, Files, Readable, Cached
<1>7. Files'
  BY DEF Files
<1>8. Kept'
  <2> SUFFICES ASSUME NEW m \in Markets, NEW time \in saved[m], now < time + TTL
               PROVE  /\ \E file \in disk[m] :
                           ~file.torn /\ file.stamp = time /\ file.rows = file.of
                      /\ m \notin asked'
                      /\ \A i \in DOMAIN Order, result \in got'[m] :
                           Order[i] = m /\ result.fresh => i < at'
    BY DEF Kept
  <2>1. PICK file \in disk[m] : ~file.torn /\ file.stamp = time /\ file.rows = file.of
    BY DEF Kept
  <2>2. m \notin asked'
    BY <1>2, <2>1 DEF Readable
  <2> QED
    BY <1>1, <1>3, <2>1, <2>2
<1>9. Served'
  BY DEF Served
<1> QED
  BY <1>4, <1>5, <1>6, <1>7, <1>8, <1>9

LEMMA DownloadKeeps ==
    ASSUME Inv, NEW m \in Markets, NEW size \in 0 .. Size, Download(m, size)
    PROVE  Inv'
<1> DEFINE result == [rows |-> size, of |-> size, listing |-> now, fresh |-> TRUE]
<1> USE OrderFacts DEF Inv, Download, process
<1>1. phase = "refreshing" /\ started = now /\ (\A n \in Markets : index[n] = {})
  BY DEF Quiet
<1>2. /\ got'[m] = {result}
      /\ \A n \in Markets : n # m => got'[n] = got[n]
      /\ got' \in [Markets -> SUBSET Result]
  BY DEF TypeOK, Result
<1>3. TypeOK'
  <2>1. \A n \in Markets : AtMostOne(got'[n])
    <3> HIDE DEF result
    <3> QED
      BY <1>2 DEF TypeOK, AtMostOne
  <2> QED
    BY <1>1, <1>2, <2>1 DEF TypeOK, AtMostOne
<1>4. Quiet'
  BY <1>1 DEF Quiet
<1>5. Results'
  BY <1>1, <1>2 DEF Results, TypeOK
<1>6. Files' /\ Served'
  BY <1>1 DEF Files, Served
<1>7. Kept'
  BY <1>2 DEF Kept
<1> QED
  BY <1>3, <1>4, <1>5, <1>6, <1>7

LEMMA DownloadFailsKeeps ==
    ASSUME Inv, NEW m \in Markets, DownloadFails(m)
    PROVE  Inv'
  BY DEF Inv, DownloadFails, process, TypeOK, AtMostOne, Quiet, Results, Files, Kept, Served

-----------------------------------------------------------------------------
(* The result that is written at place i was downloaded, so the files of its market have *)
(* expired: the start would have read them.                                              *)
LEMMA WritesExpired ==
    ASSUME Inv, NEW i \in DOMAIN Order, Writing(i)
    PROVE  /\ Order[i] \in Markets /\ started = now
           /\ at <= i /\ i \in 1 .. Len(Order)
           /\ \E result \in got[Order[i]] :
                /\ got[Order[i]] = {result} /\ result \in Result
                /\ result.fresh /\ result.rows = result.of /\ result.listing = now
           /\ \A time \in saved[Order[i]] : ~(now < time + TTL)
<1> USE OrderFacts DEF Inv, Writing
<1>1. Order[i] \in Markets /\ started = now /\ i \in 1 .. Len(Order)
  BY DEF Quiet
<1>2. at <= i
  BY <1>1 DEF ToWrite, TypeOK
<1>3. PICK result \in got[Order[i]] : result.fresh
  BY DEF ToWrite
<1>4. got[Order[i]] = {result} /\ result \in Result
  BY <1>1, <1>3 DEF TypeOK, AtMostOne
<1>5. result.rows = result.of /\ result.listing = now
  BY <1>1, <1>3 DEF Results
<1>6. ASSUME NEW time \in saved[Order[i]], now < time + TTL
      PROVE  FALSE
  <2>1. i < at
    BY <1>1, <1>3, <1>6 DEF Kept
  <2> QED
    BY <1>1, <1>2, <2>1 DEF TypeOK
<1> QED
  BY <1>1, <1>2, <1>3, <1>4, <1>5, <1>6

(* A file after its writing, whole or not. *)
LEMMA Written ==
    ASSUME Inv, NEW i \in DOMAIN Order, Writing(i), NEW rows \in Nat, NEW torn \in BOOLEAN,
           \A result \in got[Order[i]] : rows \in 0 .. result.rows,
           Write(Order[i], rows, torn)
    PROVE  /\ disk' \in [Markets -> SUBSET File]
           /\ \A m \in Markets : AtMostOne(disk'[m])
           /\ \A m \in Markets : m # Order[i] => disk'[m] = disk[m]
           /\ \A file \in disk'[Order[i]] :
                /\ file.stamp = now /\ file.listing = now
                /\ file.rows = rows /\ file.rows <= file.of
<1> USE OrderFacts
<1>1. PICK result \in got[Order[i]] :
        /\ got[Order[i]] = {result} /\ result \in Result
        /\ result.fresh /\ result.rows = result.of /\ result.listing = now
  BY WritesExpired
<1>2. Order[i] \in Markets
  OBVIOUS
<1> DEFINE file == [stamp |-> now, rows |-> rows, of |-> result.of,
                    listing |-> result.listing, torn |-> torn]
<1>3. disk' = [disk EXCEPT ![Order[i]] = {file}]
  <2> DEFINE written(r) == [stamp |-> now, rows |-> rows, of |-> r.of,
                            listing |-> r.listing, torn |-> torn]
  <2>1. disk' = [disk EXCEPT ![Order[i]] = {written(r) : r \in got[Order[i]]}]
    BY DEF Write
  <2>2. {written(r) : r \in got[Order[i]]} = {written(result)}
    <3> HIDE DEF written
    <3> QED
      BY <1>1
  <2> QED
    BY <2>1, <2>2
<1>4. result.rows \in 0 .. Size /\ result.of \in 0 .. Size /\ now \in Nat
  BY <1>1 DEF Result, Inv, TypeOK
<1>5. rows \in 0 .. Size /\ rows <= result.of
  BY <1>1, <1>4
<1>6. file \in File
  BY <1>1, <1>4, <1>5 DEF File
<1>7. disk'[Order[i]] = {file} /\ \A m \in Markets : m # Order[i] => disk'[m] = disk[m]
  BY <1>2, <1>3 DEF Inv, TypeOK
<1>8. disk' \in [Markets -> SUBSET File]
  BY <1>2, <1>3, <1>6 DEF Inv, TypeOK
<1>9. \A m \in Markets : AtMostOne(disk'[m])
  BY <1>7 DEF Inv, TypeOK, AtMostOne
<1> QED
  BY <1>1, <1>5, <1>7, <1>8, <1>9

LEMMA WriteWholeKeeps ==
    ASSUME Inv, NEW i \in DOMAIN Order, WriteWhole(i)
    PROVE  Inv'
<1> USE OrderFacts
<1>1. Writing(i)
  BY DEF WriteWhole
<1>2. PICK result \in got[Order[i]] :
        /\ got[Order[i]] = {result} /\ result \in Result
        /\ result.fresh /\ result.rows = result.of /\ result.listing = now
  BY <1>1, WritesExpired
<1>3. Write(Order[i], result.rows, FALSE)
  BY <1>2 DEF WriteWhole
<1>4. result.rows \in Nat /\ \A r \in got[Order[i]] : result.rows \in 0 .. r.rows
  BY <1>2 DEF Result
<1>5. /\ disk' \in [Markets -> SUBSET File]
      /\ \A m \in Markets : AtMostOne(disk'[m])
      /\ \A m \in Markets : m # Order[i] => disk'[m] = disk[m]
  BY <1>1, <1>3, <1>4, Written
<1> DEFINE written(r) == [stamp |-> now, rows |-> result.rows, of |-> r.of,
                          listing |-> r.listing, torn |-> FALSE]
<1>6. disk'[Order[i]] = {written(result)}
  <2>1. disk' = [disk EXCEPT ![Order[i]] = {written(r) : r \in got[Order[i]]}]
    BY <1>3 DEF Write
  <2>2. {written(r) : r \in got[Order[i]]} = {written(result)}
    <3> HIDE DEF written
    <3> QED
      BY <1>2
  <2> QED
    BY <2>1, <2>2 DEF Inv, TypeOK
<1>7. \A file \in disk'[Order[i]] :
         /\ file.stamp = now /\ file.listing = now /\ ~file.torn
         /\ file.rows = result.rows /\ file.of = result.rows
  BY <1>2, <1>6
<1> HIDE DEF written
<1>8. /\ Order[i] \in Markets /\ at <= i /\ i \in 1 .. Len(Order)
      /\ UNCHANGED <<now, phase, starts, started, asked, got, index>>
      /\ at' = i + 1 /\ cut' = cut \ {Order[i]}
      /\ saved' = [saved EXCEPT ![Order[i]] = {now}]
  BY <1>1, WritesExpired DEF WriteWhole, process
<1>9. TypeOK'
  <2>1. \A m \in Markets : \A f \in disk'[m] : f.rows <= f.of /\ f.stamp <= now
    BY <1>2, <1>5, <1>7, <1>8 DEF Inv, TypeOK, Result
  <2>2. saved' \in [Markets -> SUBSET Nat]
    BY <1>8 DEF Inv, TypeOK
  <2> QED
    BY <1>5, <1>8, <2>1, <2>2 DEF Inv, TypeOK, AtMostOne
<1>10. Quiet' /\ Served'
  BY <1>8 DEF Inv, Quiet, Served
<1>11. Results'
  BY <1>2, <1>8 DEF Inv, Results
<1>12. Files'
  BY <1>2, <1>5, <1>6, <1>7, <1>8 DEF Inv, Files
<1>13. Kept'
  <2> SUFFICES ASSUME NEW m \in Markets, NEW time \in saved'[m], now < time + TTL
               PROVE  /\ \E f \in disk'[m] : ~f.torn /\ f.stamp = time /\ f.rows = f.of
                      /\ m \notin asked
                      /\ \A j \in DOMAIN Order, r \in got[m] :
                           Order[j] = m /\ r.fresh => j < at'
    BY <1>8 DEF Kept
  <2>1. CASE m = Order[i]
    <3>1. time = now
      BY <1>8, <2>1 DEF Inv, TypeOK
    <3>2. asked = {}
      BY <1>1 DEF Writing
    <3>3. PICK file \in disk'[Order[i]] :
            ~file.torn /\ file.stamp = now /\ file.rows = file.of
      BY <1>6, <1>7
    <3> QED
      BY <1>6, <1>8, <2>1, <3>1, <3>2, <3>3
  <2>2. CASE m # Order[i]
    <3>1. time \in saved[m] /\ disk'[m] = disk[m]
      BY <1>5, <1>8, <2>2 DEF Inv, TypeOK
    <3>2. \A j \in DOMAIN Order, r \in got[m] : Order[j] = m /\ r.fresh => j < at
      BY <1>1, <3>1 DEF Inv, Kept, Writing
    <3> QED
      BY <1>8, <3>1, <3>2 DEF Inv, Kept, TypeOK
  <2> QED
    BY <2>1, <2>2
<1> QED
  BY <1>9, <1>10, <1>11, <1>12, <1>13 DEF Inv

(* What a cut file leaves: the market is known to be cut, and what was saved of it has   *)
(* expired.                                                                              *)
LEMMA CutLeaves ==
    ASSUME Inv, NEW i \in DOMAIN Order, Writing(i), FileFails(Order[i])
    PROVE  /\ disk' \in [Markets -> SUBSET File]
           /\ \A m \in Markets : AtMostOne(disk'[m])
           /\ \A m \in Markets : m # Order[i] => disk'[m] = disk[m]
           /\ \A m \in Markets : \A file \in disk'[m] :
                /\ file.rows <= file.of /\ file.stamp <= now /\ file.stamp = file.listing
                /\ file.torn \/ file.rows # file.of => m \in cut'
           /\ cut \subseteq cut' /\ cut' \subseteq Markets
<1> USE OrderFacts
<1>1. CASE UNCHANGED <<disk, cut>>
  BY <1>1 DEF Inv, TypeOK, Files
<1>2. CASE CutFile(Order[i])
  <2>0. PICK result \in got[Order[i]] :
          \E rows \in 0 .. result.rows, torn \in BOOLEAN : Write(Order[i], rows, torn)
    BY <1>2 DEF CutFile
  <2>1. PICK rows \in 0 .. result.rows, torn \in BOOLEAN : Write(Order[i], rows, torn)
    BY <2>0
  <2>2. \A r \in got[Order[i]] : rows \in 0 .. r.rows
    <3>1. PICK r \in got[Order[i]] : got[Order[i]] = {r}
      BY WritesExpired
    <3> QED
      BY <2>1, <3>1
  <2>3. /\ disk' \in [Markets -> SUBSET File]
        /\ \A m \in Markets : AtMostOne(disk'[m])
        /\ \A m \in Markets : m # Order[i] => disk'[m] = disk[m]
    BY <2>1, <2>2, Written
  <2>4. \A file \in disk'[Order[i]] :
          file.stamp = now /\ file.listing = now /\ file.rows <= file.of
    BY <2>1, <2>2, Written
  <2>5. now \in Nat
    BY DEF Inv, TypeOK
  <2>6. cut' = cut \cup {Order[i]} /\ Order[i] \in Markets
    BY <1>2 DEF CutFile
  <2> QED
    BY <2>3, <2>4, <2>5, <2>6 DEF Inv, TypeOK, Files
<1> QED
  BY <1>1, <1>2 DEF FileFails

LEMMA WriteFailsKeeps ==
    ASSUME Inv, NEW i \in DOMAIN Order, WriteFails(i)
    PROVE  Inv'
<1> USE OrderFacts
<1>1. Writing(i) /\ FileFails(Order[i])
  BY DEF WriteFails
<1>2. /\ Order[i] \in Markets /\ at <= i /\ i \in 1 .. Len(Order)
      /\ UNCHANGED <<now, phase, starts, started, asked, got, index, saved>>
      /\ at' = i + 1
  BY <1>1, WritesExpired DEF WriteFails, process
<1>3. TypeOK'
  BY <1>1, <1>2, CutLeaves DEF Inv, TypeOK, AtMostOne
<1>4. Quiet' /\ Served'
  BY <1>2 DEF Inv, Quiet, Served
<1>5. Results'
  BY <1>1, <1>2, CutLeaves DEF Inv, Results
<1>6. Files'
  BY <1>1, CutLeaves DEF Files
<1>7. Kept'
  <2> SUFFICES ASSUME NEW m \in Markets, NEW time \in saved[m], now < time + TTL
               PROVE  /\ \E f \in disk'[m] : ~f.torn /\ f.stamp = time /\ f.rows = f.of
                      /\ m \notin asked
                      /\ phase = "refreshing" =>
                           \A j \in DOMAIN Order, r \in got[m] :
                             Order[j] = m /\ r.fresh => j < at'
    BY <1>2 DEF Kept
  <2>1. m # Order[i]
    BY <1>1, WritesExpired
  <2>2. disk'[m] = disk[m]
    BY <1>1, <2>1, CutLeaves
  <2> QED
    BY <1>2, <2>2 DEF Inv, Kept, TypeOK
<1> QED
  BY <1>3, <1>4, <1>5, <1>6, <1>7 DEF Inv

-----------------------------------------------------------------------------
LEMMA ReplaceKeeps == ASSUME Inv, Replace PROVE Inv'
<1> USE DEF Inv, Replace, refresh
<1>1. TypeOK'
  BY DEF TypeOK, AtMostOne, Quiet
<1>2. Quiet' /\ Results' /\ Files'
  BY DEF Quiet, Results, Files
<1>3. Kept' /\ Served'
  BY DEF Kept, Served
<1> QED
  BY <1>1, <1>2, <1>3

(* The end of the process, with the files as they are or one of them cut. *)
LEMMA DownKeeps ==
    ASSUME Inv, Down,
           disk' \in [Markets -> SUBSET File],
           \A m \in Markets : AtMostOne(disk'[m]),
           \A m \in Markets : \A file \in disk'[m] :
             /\ file.rows <= file.of /\ file.stamp <= now /\ file.stamp = file.listing
             /\ file.torn \/ file.rows # file.of => m \in cut',
           cut' \subseteq Markets,
           \A m \in Markets : \A time \in saved[m] :
             now < time + TTL => disk'[m] = disk[m]
    PROVE  Inv'
<1> USE OrderFacts DEF Inv, Down
<1>1. TypeOK'
  BY DEF TypeOK, AtMostOne, Nothing
<1>2. Quiet' /\ Results' /\ Files' /\ Served'
  BY DEF Quiet, Results, Files, Served, Nothing
<1>3. Kept'
  BY DEF Kept
<1> QED
  BY <1>1, <1>2, <1>3

LEMMA StopKeeps == ASSUME Inv, Stop PROVE Inv'
  BY DownKeeps DEF Inv, Stop, TypeOK, Files

LEMMA CrashInFileKeeps ==
    ASSUME Inv, NEW i \in DOMAIN Order, CrashInFile(i)
    PROVE  Inv'
<1>1. Writing(i) /\ FileFails(Order[i]) /\ Down
  BY DEF CrashInFile, FileFails
<1>2. \A m \in Markets : \A time \in saved[m] : now < time + TTL => disk'[m] = disk[m]
  BY <1>1, CutLeaves, WritesExpired
<1> QED
  BY <1>1, <1>2, CutLeaves, DownKeeps

LEMMA TickKeeps == ASSUME Inv, Tick PROVE Inv'
<1> USE OrderFacts DEF Inv, Tick, process, refresh
<1>1. TypeOK'
  BY DEF TypeOK, AtMostOne, File
<1>2. Quiet' /\ Results' /\ Files' /\ Served'
  BY DEF Quiet, Results, Files, Served
<1>3. Kept'
  BY DEF Kept, TypeOK
<1> QED
  BY <1>1, <1>2, <1>3

(* One case per action. *)
LEMMA StepInv == ASSUME Inv, [Next]_vars PROVE Inv'
<1>1. CASE UNCHANGED vars
  BY <1>1 DEF vars, process, refresh, Inv, TypeOK, AtMostOne, Quiet, Results, Files, Kept, Served
<1>2. CASE Next
  BY <1>2, StartKeeps, DownloadKeeps, DownloadFailsKeeps, WriteWholeKeeps, WriteFailsKeeps,
     ReplaceKeeps, StopKeeps, CrashInFileKeeps, TickKeeps DEF Next
<1> QED
  BY <1>1, <1>2

LEMMA Invariant == Spec => []Inv
  BY InitInv, StepInv, PTL DEF Spec

-----------------------------------------------------------------------------
(* Types of the start's memory and of the cache files                      *)
(* (stock_index/service.py:174-231).                                       *)
THEOREM StockIndexTyped == Spec => []TypeOK
<1>1. Inv => TypeOK
  BY DEF Inv
<1> QED
  BY <1>1, Invariant, PTL

(* However often the process is started again, what a start serves was     *)
(* listed less than a day before it: only downloads are written back       *)
(* (service.py:287-291), so a stamp is never renewed.                      *)
THEOREM StockIndexListingIsRecent == Spec => []ListingIsRecent
<1>1. Inv => ListingIsRecent
  BY DEF Inv, TypeOK, Results, ListingIsRecent
<1> QED
  BY <1>1, Invariant, PTL

(* While any market has rows, one that is not served whole failed by       *)
(* itself (service.py:276-297), whatever happened to the others.           *)
THEOREM StockIndexFailsAlone == Spec => []FailsAlone
<1>1. Inv => FailsAlone
  <2> SUFFICES ASSUME Inv, phase = "serving", index = got, NEW m \in Markets, got[m] # {}
               PROVE  \/ \E result \in index[m] : result.rows = result.of
                      \/ m \in cut /\ \A result \in got[m] : ~result.fresh
    BY DEF Inv, Served, FailsAlone
  <2>1. PICK result \in got[m] : TRUE
    OBVIOUS
  <2> QED
    BY <2>1 DEF Inv, TypeOK, AtMostOne, Results
<1> QED
  BY <1>1, Invariant, PTL

(* A file that was written to its end spares the download of its market    *)
(* for a day (service.py:185, 247), across crashes in other files, failed  *)
(* writes and any number of starts.                                        *)
THEOREM StockIndexRestartSkipsDownload == Spec => RestartSkipsDownload
<1> DEFINE Skips == phase = "down" /\ phase' = "refreshing" =>
                      \A m \in Markets : \A time \in saved[m] : now < time + TTL =>
                        \E result \in got'[m] : ~result.fresh /\ result.rows = result.of
<1>1. ASSUME Inv, Next, phase = "down", phase' = "refreshing"
      PROVE  Start
  BY <1>1 DEF Next, Download, DownloadFails, WriteWhole, WriteFails, CrashInFile, Replace,
     Stop, Down, Tick, process, Inv, Quiet, Writing
<1>2. ASSUME Inv, [Next]_vars
      PROVE  [Skips]_vars
  <2> SUFFICES ASSUME Start, NEW m \in Markets, NEW time \in saved[m], now < time + TTL
               PROVE  \E result \in got'[m] : ~result.fresh /\ result.rows = result.of
    BY <1>1, <1>2
  <2>1. PICK file \in disk[m] : ~file.torn /\ file.stamp = time /\ file.rows = file.of
    BY <1>2 DEF Inv, Kept
  <2>2. Cached(file) \in got'[m]
    BY <2>1 DEF Start, Readable
  <2> QED
    BY <2>1, <2>2 DEF Cached
<1> QED
  BY <1>2, Invariant, PTL DEF Spec, RestartSkipsDownload
=============================================================================
