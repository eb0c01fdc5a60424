----------------------------- MODULE StockIndex -----------------------------
(***************************************************************************)
(* The index of stocks, which the backend fills once, before it serves:    *)
(* each market from its cache file if that is less than a day old, or else *)
(* from KIS's download, which is then written to the file.  A start may be *)
(* cut off anywhere, also in the middle of a file; the files outlive it.   *)
(*                                                                         *)
(* Of the rows of a market only their number is kept, and of the listing   *)
(* they come from its time and its size.  A cut file ends anywhere: if in  *)
(* the middle of a line it is torn and cannot be read, but at the end of a *)
(* line nothing tells it from a whole one.                                 *)
(*                                                                         *)
(* A unit of the clock is a matter of hours, and a refresh ends within it. *)
(***************************************************************************)
EXTENDS Naturals, Sequences, SequencesExt

CONSTANTS
    Order,     \* the markets, in the order in which their files are written
    Size,      \* bound on the rows of a listing
    TTL,       \* _CACHE_TTL_SECONDS, in units of the clock
    MaxClock,  \* bound on the clock
    MaxStarts  \* bound on starts of the process

ASSUME StockIndexAssumption ==
    /\ Order \in Seq(ToSet(Order)) /\ IsInjective(Order)
    /\ Size \in Nat /\ TTL \in Nat \ {0} /\ MaxClock \in Nat /\ MaxStarts \in Nat

Markets == ToSet(Order)

VARIABLES
    now,
    phase,    \* "down", "refreshing" or "serving"
    starts,   \* how many starts there have been
    started,  \* when the last one was
    asked,    \* the markets whose download is under way
    got,      \* what this start has of a market: nothing, or one result
    at,       \* the place in Order before which all files are written
    disk,     \* the cache file of a market: none, or one
    index,    \* what is served of a market
    saved,    \* history: when a file of the market was last written to its end
    cut       \* history: the markets whose file was left cut

process == <<phase, starts, started>>
refresh == <<asked, got, at>>
vars == <<now, process, refresh, disk, index, saved, cut>>

-----------------------------------------------------------------------------
\* fresh: it was downloaded in this start.
Result == [rows : 0 .. Size, of : 0 .. Size, listing : Nat, fresh : BOOLEAN]
File == [stamp : Nat, rows : 0 .. Size, of : 0 .. Size, listing : Nat, torn : BOOLEAN]

AtMostOne(S) == \A x, y \in S : x = y

TypeOK ==
    /\ now \in 0 .. MaxClock
    /\ phase \in {"down", "refreshing", "serving"}
    /\ starts \in 0 .. MaxStarts /\ started \in 0 .. now
    /\ asked \subseteq Markets /\ at \in 1 .. Len(Order) + 1
    /\ got \in [Markets -> SUBSET Result] /\ disk \in [Markets -> SUBSET File]
    /\ index \in [Markets -> SUBSET Result]
    /\ \A m \in Markets :
          /\ AtMostOne(got[m]) /\ AtMostOne(disk[m])
          /\ index[m] \in {{}, got[m]}
          /\ \A file \in disk[m] : file.rows <= file.of /\ file.stamp <= now
    /\ saved \in [Markets -> SUBSET Nat] /\ cut \subseteq Markets

Nothing == [m \in Markets |-> {}]

Init ==
    /\ now = 0
    /\ phase = "down" /\ starts = 0 /\ started = 0
    /\ asked = {} /\ got = Nothing /\ at = 1
    /\ disk = Nothing /\ index = Nothing
    /\ saved = Nothing /\ cut = {}

-----------------------------------------------------------------------------
Readable(file) == ~file.torn /\ now < file.stamp + TTL

\* A variant of Cached that no specification uses: the header is taken for a row.
CachedWithHeader(file) ==
    [rows |-> file.rows + 1, of |-> file.of, listing |-> file.listing, fresh |-> FALSE]

Cached(file) ==
    [rows |-> file.rows, of |-> file.of, listing |-> file.listing, fresh |-> FALSE]

\* The process starts and looks at its cache; the other markets are asked for at once.
Start ==
    /\ phase = "down" /\ starts < MaxStarts
    /\ phase' = "refreshing" /\ starts' = starts + 1 /\ started' = now
    /\ got' = [m \in Markets |-> {Cached(file) : file \in {f \in disk[m] : Readable(f)}}]
    /\ asked' = {m \in Markets : got'[m] = {}}
    /\ at' = 1
    /\ UNCHANGED <<now, disk, index, saved, cut>>

Download(m, size) ==
    /\ m \in asked
    /\ asked' = asked \ {m}
    /\ got' = [got EXCEPT ![m] =
                 {[rows |-> size, of |-> size, listing |-> now, fresh |-> TRUE]}]
    /\ UNCHANGED <<now, process, at, disk, index, saved, cut>>

\* An error of the CDN or of the archive.  The market goes without.
DownloadFails(m) ==
    /\ m \in asked
    /\ asked' = asked \ {m}
    /\ UNCHANGED <<now, process, got, at, disk, index, saved, cut>>

-----------------------------------------------------------------------------
\* A variant of ToWrite that no specification uses: what was cached is written back too.
ToWriteAll == {i \in at .. Len(Order) : got[Order[i]] # {}}

\* Once all markets are in, what was downloaded is written, one file after the other.
ToWrite == {i \in at .. Len(Order) : \E result \in got[Order[i]] : result.fresh}

\* Place i is the next to write.
Writing(i) ==
    /\ phase = "refreshing" /\ asked = {}
    /\ i \in ToWrite /\ \A j \in ToWrite : i <= j

\* The file of market m, after so many rows.
Write(m, rows, torn) ==
    disk' = [disk EXCEPT ![m] =
               {[stamp |-> now, rows |-> rows, of |-> result.of,
                 listing |-> result.listing, torn |-> torn] : result \in got[m]}]

WriteWhole(i) ==
    /\ Writing(i)
    /\ \A result \in got[Order[i]] : Write(Order[i], result.rows, FALSE)
    /\ at' = i + 1
    /\ saved' = [saved EXCEPT ![Order[i]] = {now}]
    /\ cut' = cut \ {Order[i]}
    /\ UNCHANGED <<now, process, asked, got, index>>

\* The file ends early, at the end of a line or not.
CutFile(m) ==
    /\ \E result \in got[m] : \E rows \in 0 .. result.rows, torn \in BOOLEAN :
          Write(m, rows, torn)
    /\ cut' = cut \cup {m}

\* The file cannot be opened, and stays as it is, or the disk is full.
FileFails(m) ==
    \/ CutFile(m)
    \/ UNCHANGED <<disk, cut>>

\* A variant of WriteFails that no specification uses: the error ends the refresh, and
\* the start goes on without an index.
WriteFailsHard(i) ==
    /\ Writing(i) /\ FileFails(Order[i])
    /\ phase' = "serving"
    /\ UNCHANGED <<now, starts, started, refresh, index, saved>>

WriteFails(i) ==
    /\ Writing(i) /\ FileFails(Order[i])
    /\ at' = i + 1
    /\ UNCHANGED <<now, process, asked, got, index, saved>>

\* The rows replace the empty index, unless there are none, and the process serves.
Replace ==
    /\ phase = "refreshing" /\ asked = {} /\ ToWrite = {}
    /\ phase' = "serving"
    /\ index' = IF \E m \in Markets : \E result \in got[m] : result.rows > 0
                  THEN got ELSE index
    /\ UNCHANGED <<now, starts, started, refresh, disk, saved, cut>>

-----------------------------------------------------------------------------
Down ==
    /\ phase' = "down"
    /\ asked' = {} /\ got' = Nothing /\ at' = 1 /\ index' = Nothing
    /\ UNCHANGED <<now, starts, started, saved>>

\* The process ends: a stop, or a crash that is not in a file.
Stop == phase # "down" /\ Down /\ UNCHANGED <<disk, cut>>

CrashInFile(i) == Writing(i) /\ CutFile(Order[i]) /\ Down

Tick ==
    /\ phase # "refreshing" /\ now < MaxClock
    /\ now' = now + 1
    /\ UNCHANGED <<process, refresh, disk, index, saved, cut>>

-----------------------------------------------------------------------------
Next ==
    \/ Start
    \/ \E m \in Markets : DownloadFails(m) \/ \E size \in 0 .. Size : Download(m, size)
    \/ \E i \in DOMAIN Order : WriteWhole(i) \/ WriteFails(i) \/ CrashInFile(i)
    \/ Replace \/ Stop \/ Tick

Spec == Init /\ [][Next]_vars

-----------------------------------------------------------------------------
\* "Restarts within that window skip the download and load from disk" (STOCKS.md): for a
\* day after a file was written to its end, whatever starts, failures and crashes follow,
\* a start has all rows of the market without a download.
RestartSkipsDownload ==
    [][phase = "down" /\ phase' = "refreshing" =>
         \A m \in Markets : \A time \in saved[m] : now < time + TTL =>
           \E result \in got'[m] : ~result.fresh /\ result.rows = result.of]_vars

\* What a start serves was listed by KIS less than a day before it: no number of restarts
\* keeps an old listing alive.
ListingIsRecent ==
    \A m \in Markets : \A result \in index[m] : started < result.listing + TTL

\* "A partial index is strictly better than no index" (refresh_stock_master_index): while
\* any market has rows, one that is not served whole has failed by itself, for its
\* download failed in this start, or its own file was left cut.
FailsAlone ==
    phase = "serving" /\ (\E m \in Markets : \E result \in got[m] : result.rows > 0) =>
      \A m \in Markets :
        \/ \E result \in index[m] : result.rows = result.of
        \/ got[m] = {}
        \/ m \in cut /\ \A result \in got[m] : ~result.fresh
=============================================================================
