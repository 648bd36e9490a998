--------------------------- MODULE IngestionProofs ---------------------------
(***************************************************************************)
(* What the ingestion service keeps, for any bounds: the closed bars that  *)
(* it stages (CandleStaging), the bars that it builds from ticks           *)
(* (TickBars), and the archive that it warms up from (HistoryCache).  The  *)
(* three share no variable: each part below has its own inductive          *)
(* invariant, a lemma per action, and its theorems.                        *)
(***************************************************************************)
EXTENDS CandleStaging, TickBars, FiniteSetTheorems, WellFoundedInduction, TLAPS

CONSTANTS LastDay, Requests, Warmers, Downloaders, Readers, Tolerance, Production, HasParquet, MaxAsks
VARIABLES file, work, asks, saved, clean, replies
Archive == INSTANCE HistoryCache

-----------------------------------------------------------------------------
(* Staging: for any number of buckets, any length of the window and any    *)
(* number of merges beside the live path, the history stays a series, what *)
(* goes out never goes back in time, every close is announced, and a merge *)
(* never costs a close that was staged while it ran (redis_state.py        *)
(* STAGE_CLOSED_CANDLE, MERGE_HISTORY_CANDLES).                            *)
Steps == {"idle", "fetched", "chosen", "read"}
Merging == [step : Steps, bars : SUBSET Times, tries : Nat, seen : Seq(Bars),
            mark : 0..MaxTime]

StagingTypeOK ==
    /\ now \in 0..MaxTime
    /\ live \in {NoLive} \cup [step : {"ready", "gap", "emit"}, t : Times]
    /\ emitting \in {"no", "stage", "drain", "ack", "batch"}
    /\ retained \in Seq(Times)
    /\ merge \in [Mergers -> Merging]
    /\ window \in Seq(Bars)
    /\ staged \in 0..MaxTime
    /\ outbox \in Seq(Times)
    /\ published \in Seq(Times)
    /\ flushed \in BOOLEAN
    /\ resent \in BOOLEAN

\* A merge that has read the window and has not swapped yet.
HasRead(m) == merge[m].step = "read"

\* What a merge has read is a series, up to the watermark it has read with it.
SeenIsSeries ==
    \A m \in Mergers : HasRead(m) =>
        IsSeries(merge[m].seen) /\ Newest(merge[m].seen) <= merge[m].mark

\* The watermark is ahead of everything that has gone out or is about to, and of every
\* watermark a merge remembers.
MarkLeads ==
    /\ \A t \in Elements(outbox) \cup Elements(published) : t <= staged
    /\ \A m \in Mergers : HasRead(m) => merge[m].mark <= staged

\* What is acknowledged is what was published last.
AckIsOfTheHead ==
    emitting = "ack" =>
        outbox # <<>> /\ published # <<>> /\ outbox[1] = published[Len(published)]

LiveTimes(w) == {b.t : b \in {b \in Elements(w) : b.by = "live"}}
Announced == Elements(outbox) \cup Elements(published)
AllAnnounced ==
    /\ LiveTimes(window) \subseteq Announced
    /\ \A m \in Mergers : HasRead(m) => LiveTimes(merge[m].seen) \subseteq Announced

\* The windows that a swap may still bring back, or go by: the one in Redis and those read
\* at its watermark.  Each has, or has grown past, every close of every other.
Snapshots == {window} \cup {merge[m].seen : m \in {n \in Mergers : HasRead(n) /\ merge[n].mark = staged}}
Agree(v, w) == \A t \in LiveTimes(v) : Covers(w, t)
SnapshotsAgree == \A v, w \in Snapshots : Agree(v, w)

StagingInv ==
           /\ StagingTypeOK
           /\ WindowIsSeries
           /\ SeenIsSeries
           /\ ~flushed => EventsAdvance /\ MarkLeads /\ SnapshotsAgree
           /\ AckIsOfTheHead
           /\ ~resent => AllAnnounced

-----------------------------------------------------------------------------
(* Windows: series of bars, trimmed to the newest ones. *)

LEMMA Appended ==
    ASSUME NEW S, NEW s \in Seq(S), NEW x \in S
    PROVE  /\ Append(s, x) \in Seq(S)
           /\ Elements(Append(s, x)) = Elements(s) \cup {x}
<1>1. /\ Append(s, x) \in Seq(S) /\ Len(Append(s, x)) = Len(s) + 1
      /\ \A i \in 1..Len(s) : Append(s, x)[i] = s[i]
      /\ Append(s, x)[Len(s) + 1] = x
  OBVIOUS
<1>2. \A y \in Elements(s) : y \in Elements(Append(s, x))
  BY <1>1 DEF Elements
<1>3. x \in Elements(Append(s, x))
  BY <1>1 DEF Elements
<1>4. \A i \in DOMAIN Append(s, x) : Append(s, x)[i] \in Elements(s) \cup {x}
  BY <1>1 DEF Elements
<1> QED BY <1>1, <1>2, <1>3, <1>4 DEF Elements

LEMMA TailOf ==
    ASSUME NEW S, NEW s \in Seq(S), s # <<>>
    PROVE  /\ Tail(s) \in Seq(S)
           /\ Elements(Tail(s)) \subseteq Elements(s)
           /\ Head(s) = s[1] /\ Head(s) \in S /\ Head(s) \in Elements(s)
           /\ Elements(s) = Elements(Tail(s)) \cup {Head(s)}
           /\ Len(Tail(s)) = Len(s) - 1 /\ Len(s) \in Nat /\ Len(s) >= 1
           /\ \A i \in 1..Len(Tail(s)) : Tail(s)[i] = s[i + 1]
<1>1. /\ Tail(s) \in Seq(S) /\ Len(Tail(s)) = Len(s) - 1 /\ Len(s) \in Nat /\ Len(s) >= 1
      /\ \A i \in 1..Len(Tail(s)) : Tail(s)[i] = s[i + 1]
      /\ Head(s) = s[1] /\ DOMAIN s = 1..Len(s) /\ DOMAIN Tail(s) = 1..Len(Tail(s))
  OBVIOUS
<1>2. \A i \in DOMAIN s : s[i] \in S
  OBVIOUS
<1>3. Elements(Tail(s)) \subseteq Elements(s)
  BY <1>1 DEF Elements
<1>4. Head(s) \in Elements(s) /\ Head(s) \in S
  BY <1>1, <1>2 DEF Elements
<1>5. \A i \in DOMAIN s : s[i] \in Elements(Tail(s)) \cup {Head(s)}
  <2> TAKE i \in DOMAIN s
  <2>1. CASE i = 1
    BY <1>1, <2>1
  <2>2. CASE i # 1
    <3>1. i - 1 \in 1..Len(Tail(s)) /\ Tail(s)[i - 1] = s[i]
      BY <1>1, <2>2
    <3> QED BY <1>1, <3>1 DEF Elements
  <2> QED BY <2>1, <2>2
<1> QED BY <1>1, <1>3, <1>4, <1>5 DEF Elements

(* Trim drops the oldest bars and renumbers the others. *)
LEMMA TrimIsSuffix ==
    ASSUME NEW w \in Seq(Bars)
    PROVE  \E drop \in Nat :
              /\ drop <= Len(w) /\ (drop > 0 => drop = Len(w) - Limit)
              /\ Trim(w) \in Seq(Bars) /\ Len(Trim(w)) = Len(w) - drop
              /\ Len(Trim(w)) <= Limit
              /\ w # <<>> => drop < Len(w)
              /\ \A i \in 1..Len(Trim(w)) : Trim(w)[i] = w[i + drop]
<1>1. Limit \in Nat /\ Limit > 0 /\ Len(w) \in Nat
  BY BoundsAssumption
<1>2. CASE Len(w) > Limit
  <2>1. Trim(w) = SubSeq(w, Len(w) - Limit + 1, Len(w))
    BY <1>2 DEF Trim
  <2>2. /\ Trim(w) \in Seq(Bars) /\ Len(Trim(w)) = Limit
        /\ \A i \in 1..Limit : Trim(w)[i] = w[i + (Len(w) - Limit)]
    BY <1>1, <1>2, <2>1
  <2>3. /\ Len(w) - Limit \in Nat /\ Len(w) - Limit <= Len(w) /\ Len(w) - Limit < Len(w)
        /\ Limit = Len(w) - (Len(w) - Limit)
    BY <1>1, <1>2
  <2> DEFINE drop == Len(w) - Limit
  <2>4. /\ drop \in Nat /\ drop <= Len(w) /\ drop < Len(w) /\ Limit = Len(w) - drop
        /\ \A i \in 1..Len(Trim(w)) : Trim(w)[i] = w[i + drop]
        /\ drop = Len(w) - Limit /\ Len(Trim(w)) <= Limit /\ Len(Trim(w)) = Limit
    BY <1>1, <2>2, <2>3
  <2> HIDE DEF drop
  <2> QED BY <2>2, <2>4
<1>3. CASE ~(Len(w) > Limit)
  <2>1. Trim(w) = w
    BY <1>3 DEF Trim
  <2>2. w # <<>> => 0 < Len(w)
    BY <1>1
  <2> QED BY <1>1, <1>3, <2>1, <2>2
<1> QED BY <1>2, <1>3

LEMMA NewestIsLast ==
    ASSUME NEW w \in Seq(Bars)
    PROVE  /\ Newest(w) \in 0..MaxTime
           /\ TimesOf(w) \subseteq Times
           /\ IsSeries(w) => \A t \in TimesOf(w) : t <= Newest(w)
           /\ w # <<>> => Newest(w) = w[Len(w)].t /\ Newest(w) \in Times
<1>1. MaxTime \in Nat /\ Len(w) \in Nat
  BY BoundsAssumption
<1>2. \A i \in DOMAIN w : w[i] \in Bars /\ w[i].t \in Times
  <2>1. \A i \in DOMAIN w : w[i] \in Bars
    OBVIOUS
  <2> QED BY <2>1 DEF Bars
<1>3. TimesOf(w) \subseteq Times
  BY <1>2 DEF TimesOf
<1>4. CASE w = <<>>
  BY <1>1, <1>3, <1>4 DEF Newest, TimesOf
<1>5. CASE w # <<>>
  <2>1. Len(w) \in DOMAIN w /\ Newest(w) = w[Len(w)].t
    BY <1>1, <1>5 DEF Newest
  <2>2. Newest(w) \in Times /\ Newest(w) \in 0..MaxTime
    BY <1>1, <1>2, <2>1 DEF Times
  <2>3. IsSeries(w) => \A i \in DOMAIN w : w[i].t <= Newest(w)
    <3> SUFFICES ASSUME IsSeries(w), NEW i \in DOMAIN w PROVE w[i].t <= Newest(w)
      OBVIOUS
    <3>1. i = Len(w) \/ i < Len(w)
      BY <1>1
    <3>2. i < Len(w) => w[i].t < w[Len(w)].t
      BY <2>1 DEF IsSeries
    <3>3. w[i].t \in Nat /\ w[Len(w)].t \in Nat
      BY <1>1, <1>2, <2>1 DEF Times
    <3> QED BY <2>1, <3>1, <3>2, <3>3
  <2> QED BY <1>3, <2>1, <2>2, <2>3 DEF TimesOf
<1> QED BY <1>4, <1>5

LEMMA TrimKeepsSeries ==
    ASSUME NEW w \in Seq(Bars), IsSeries(w)
    PROVE  /\ Trim(w) \in Seq(Bars) /\ IsSeries(Trim(w))
           /\ Newest(Trim(w)) = Newest(w)
           /\ Elements(Trim(w)) \subseteq Elements(w)
<1>1. PICK drop \in Nat :
              /\ drop <= Len(w) /\ (drop > 0 => drop = Len(w) - Limit)
              /\ Trim(w) \in Seq(Bars) /\ Len(Trim(w)) = Len(w) - drop
              /\ Len(Trim(w)) <= Limit
              /\ w # <<>> => drop < Len(w)
              /\ \A i \in 1..Len(Trim(w)) : Trim(w)[i] = w[i + drop]
  BY TrimIsSuffix
<1>2. Len(w) \in Nat /\ Len(Trim(w)) \in Nat
      /\ DOMAIN w = 1..Len(w) /\ DOMAIN Trim(w) = 1..Len(Trim(w))
  BY <1>1
<1>3. \A i \in DOMAIN Trim(w) : i + drop \in DOMAIN w /\ Trim(w)[i] = w[i + drop]
  BY <1>1, <1>2
<1>4. IsSeries(Trim(w))
  <2> SUFFICES ASSUME NEW i \in DOMAIN Trim(w), NEW j \in DOMAIN Trim(w), i < j
               PROVE  Trim(w)[i].t < Trim(w)[j].t
    BY DEF IsSeries
  <2>1. i + drop < j + drop
    BY <1>2
  <2> QED BY <1>3, <2>1 DEF IsSeries
<1>5. Elements(Trim(w)) \subseteq Elements(w)
  BY <1>3 DEF Elements
<1>6. Newest(Trim(w)) = Newest(w)
  <2>1. CASE w = <<>>
    <3>1. Len(Trim(w)) = 0
      BY <1>1, <2>1
    <3> QED BY <1>1, <2>1, <3>1 DEF Newest
  <2>2. CASE w # <<>>
    <3>1. Len(Trim(w)) \in 1..Len(Trim(w)) /\ Len(Trim(w)) + drop = Len(w)
      BY <1>1, <1>2, <2>2
    <3>2. Trim(w) # <<>>
      BY <1>1, <3>1
    <3> QED BY <1>1, <2>2, <3>1, <3>2 DEF Newest
  <2> QED BY <2>1, <2>2
<1> QED BY <1>1, <1>4, <1>5, <1>6

LEMMA AppendToSeries ==
    ASSUME NEW w \in Seq(Bars), IsSeries(w), NEW b \in Bars, Newest(w) < b.t
    PROVE  /\ Append(w, b) \in Seq(Bars) /\ IsSeries(Append(w, b))
           /\ Newest(Append(w, b)) = b.t
           /\ Elements(Append(w, b)) = Elements(w) \cup {b}
           /\ TimesOf(w) \cup {b.t} \subseteq TimesOf(Append(w, b))
<1> DEFINE x == Append(w, b)
<1>1. /\ x \in Seq(Bars) /\ Len(x) = Len(w) + 1 /\ Len(w) \in Nat
      /\ \A i \in 1..Len(w) : x[i] = w[i]
      /\ x[Len(w) + 1] = b /\ x # <<>>
      /\ DOMAIN x = 1..(Len(w) + 1) /\ DOMAIN w = 1..Len(w)
  OBVIOUS
<1>2. \A i \in DOMAIN w : w[i].t \in Nat /\ w[i].t < b.t
  <2> TAKE i \in DOMAIN w
  <2>1. w[i].t \in TimesOf(w) /\ w[i] \in Bars
    BY DEF TimesOf
  <2>2. w[i].t <= Newest(w) /\ Newest(w) \in 0..MaxTime
    BY <2>1, NewestIsLast
  <2>3. w[i].t \in Nat /\ b.t \in Nat /\ MaxTime \in Nat
    BY <2>1, BoundsAssumption DEF Bars, Times
  <2> QED BY <2>2, <2>3
<1>3. IsSeries(x)
  <2> SUFFICES ASSUME NEW i \in DOMAIN x, NEW j \in DOMAIN x, i < j PROVE x[i].t < x[j].t
    BY DEF IsSeries
  <2>1. i \in DOMAIN w /\ x[i] = w[i]
    BY <1>1
  <2>2. CASE j = Len(w) + 1
    BY <1>1, <1>2, <2>1, <2>2
  <2>3. CASE j # Len(w) + 1
    <3>1. j \in DOMAIN w /\ x[j] = w[j]
      BY <1>1, <2>3
    <3> QED BY <2>1, <3>1 DEF IsSeries
  <2> QED BY <2>2, <2>3
<1>4. Newest(x) = b.t
  BY <1>1 DEF Newest
<1>5. Elements(x) = Elements(w) \cup {b}
  BY Appended
<1>6. TimesOf(w) \cup {b.t} \subseteq TimesOf(x)
  BY <1>1 DEF TimesOf
<1> QED BY <1>1, <1>3, <1>4, <1>5, <1>6

(* The bars of a series are too many for fewer places of another. *)
HasPlaces(w, x, a, n) == \A i \in 1..Len(w) : \E k \in a..n : x[k].t = w[i].t

LEMMA NoRoom ==
    ASSUME NEW w \in Seq(Bars), IsSeries(w), Len(w) > 0, NEW x \in Seq(Bars),
           NEW a \in Nat, NEW n \in Nat, n + 1 < a + Len(w), HasPlaces(w, x, a, n)
    PROVE  FALSE
<1> DEFINE f == [i \in 1..Len(w) |-> CHOOSE k \in a..n : x[k].t = w[i].t]
<1>1. Len(w) \in Nat /\ DOMAIN w = 1..Len(w)
  OBVIOUS
<1>2. \A i \in 1..Len(w) : f[i] \in a..n /\ x[f[i]].t = w[i].t
  BY DEF HasPlaces
<1>3. f \in [1..Len(w) -> a..n]
  BY <1>2
<1>4. IsFiniteSet(1..Len(w)) /\ Cardinality(1..Len(w)) = Len(w)
  <2>1. /\ Cardinality(1..Len(w)) = IF 1 > Len(w) THEN 0 ELSE Len(w) - 1 + 1
        /\ IsFiniteSet(1..Len(w))
    BY <1>1, FS_Interval
  <2> QED BY <1>1, <2>1
<1>5. IsFiniteSet(a..n) /\ Cardinality(a..n) < Len(w)
  <2>1. /\ Cardinality(a..n) = IF a > n THEN 0 ELSE n - a + 1
        /\ IsFiniteSet(a..n)
    <3>1. a \in Int /\ n \in Int
      OBVIOUS
    <3> QED BY <3>1, FS_Interval
  <2> QED BY <1>1, <2>1
<1> HIDE DEF f
<1>6. PICK i \in 1..Len(w), j \in 1..Len(w) : i # j /\ f[i] = f[j]
  <2> DEFINE S == 1..Len(w)
             T == a..n
  <2>1. IsFiniteSet(S) /\ IsFiniteSet(T) /\ Cardinality(T) < Cardinality(S) /\ f \in [S -> T]
    BY <1>3, <1>4, <1>5
  <2> HIDE DEF S, T
  <2>2. \E i, j \in S : i # j /\ f[i] = f[j]
    BY <2>1, FS_PigeonHole
  <2> QED BY <2>2 DEF S
<1>7. w[i].t = w[j].t
  BY <1>2, <1>6
<1>8. \A k \in 1..Len(w) : w[k].t \in Nat
  <2>1. \A k \in 1..Len(w) : w[k] \in Bars
    BY <1>1
  <2> QED BY <2>1 DEF Bars, Times
<1>9. i \in Nat /\ j \in Nat /\ (i < j \/ j < i)
  BY <1>1, <1>6
<1>10. i < j => w[i].t < w[j].t
  BY <1>1 DEF IsSeries
<1>11. j < i => w[j].t < w[i].t
  BY <1>1 DEF IsSeries
<1> QED BY <1>7, <1>8, <1>9, <1>10, <1>11

(* A close that a window has, or has grown past, is not lost when bars are added and the *)
(* oldest are dropped.                                                                   *)
LEMMA CoveredStays ==
    ASSUME NEW w \in Seq(Bars), IsSeries(w), NEW x \in Seq(Bars), IsSeries(x),
           TimesOf(w) \subseteq TimesOf(x), NEW t \in Times, Covers(w, t)
    PROVE  Covers(Trim(x), t)
<1>1. PICK drop \in Nat :
              /\ drop <= Len(x) /\ (drop > 0 => drop = Len(x) - Limit)
              /\ Trim(x) \in Seq(Bars) /\ Len(Trim(x)) = Len(x) - drop
              /\ Len(Trim(x)) <= Limit
              /\ x # <<>> => drop < Len(x)
              /\ \A i \in 1..Len(Trim(x)) : Trim(x)[i] = x[i + drop]
  BY TrimIsSuffix
<1>2. /\ Limit \in Nat /\ Limit > 0 /\ Len(x) \in Nat /\ Len(w) \in Nat
      /\ DOMAIN x = 1..Len(x) /\ DOMAIN w = 1..Len(w)
      /\ DOMAIN Trim(x) = 1..Len(Trim(x)) /\ t \in Nat
  BY <1>1, BoundsAssumption DEF Times
<1>3. \A k \in 1..Len(x) : x[k].t \in Nat
  <2>1. \A k \in 1..Len(x) : x[k] \in Bars
    BY <1>2
  <2> QED BY <2>1 DEF Bars, Times
<1>4. \A i \in 1..Len(w) : w[i].t \in Nat
  <2>1. \A k \in 1..Len(w) : w[k] \in Bars
    BY <1>2
  <2> QED BY <2>1 DEF Bars, Times
<1>5. CASE t \in TimesOf(w)
  <2>1. PICK k \in 1..Len(x) : x[k].t = t
    BY <1>2, <1>5 DEF TimesOf
  <2>2. CASE k > drop
    <3>1. k - drop \in 1..Len(Trim(x)) /\ (k - drop) + drop = k
      BY <1>1, <1>2, <2>2
    <3>2. Trim(x)[k - drop] = x[k]
      BY <1>1, <3>1
    <3> QED BY <1>2, <2>1, <3>1, <3>2 DEF Covers, TimesOf
  <2>3. CASE ~(k > drop)
    <3>1. drop > 0 /\ Len(Trim(x)) = Limit /\ drop + 1 \in 1..Len(x) /\ k < drop + 1
      BY <1>1, <1>2, <2>3
    <3>2. Trim(x)[1] = x[1 + drop] /\ 1 + drop = drop + 1
      BY <1>1, <1>2, <3>1
    <3>3. x[k].t < x[drop + 1].t
      BY <1>2, <3>1 DEF IsSeries
    <3> QED BY <2>1, <3>1, <3>2, <3>3 DEF Covers
  <2> QED BY <1>2, <2>2, <2>3
<1>6. CASE Len(w) = Limit /\ t < w[1].t
  <2>1. \A i \in 1..Len(w) : \E k \in 1..Len(x) : x[k].t = w[i].t
    BY <1>2 DEF TimesOf
  <2>2. Len(x) >= Limit
    <3> SUFFICES ASSUME Len(x) < Limit PROVE FALSE
      BY <1>2
    <3>1. Len(x) + 1 < 1 + Len(w) /\ Len(w) > 0 /\ 1 \in Nat
      BY <1>2, <1>6
    <3>2. HasPlaces(w, x, 1, Len(x))
      BY <2>1 DEF HasPlaces
    <3> QED BY <1>2, <3>1, <3>2, NoRoom
  <2>3. drop = Len(x) - Limit /\ Len(Trim(x)) = Limit
    BY <1>1, <1>2, <2>2
  <2>4. Trim(x)[1] = x[1 + drop] /\ 1 + drop = drop + 1 /\ drop + 1 \in 1..Len(x)
    BY <1>1, <1>2, <2>2, <2>3
  <2>5. t < x[drop + 1].t
    <3> SUFFICES ASSUME ~(t < x[drop + 1].t) PROVE FALSE
      OBVIOUS
    <3>1. \A i \in 1..Len(w) : \E k \in (drop + 2)..Len(x) : x[k].t = w[i].t
      <4> SUFFICES ASSUME NEW i \in 1..Len(w)
                   PROVE  \E k \in (drop + 2)..Len(x) : x[k].t = w[i].t
        OBVIOUS
      <4>1. PICK k \in 1..Len(x) : x[k].t = w[i].t
        BY <2>1
      <4>2. w[1].t <= w[i].t
        <5>1. CASE i = 1
          BY <1>2, <1>4, <5>1
        <5>2. CASE i # 1
          <6>1. 1 \in DOMAIN w /\ i \in DOMAIN w /\ 1 < i
            BY <1>2, <5>2
          <6>2. w[1].t < w[i].t
            BY <6>1 DEF IsSeries
          <6> QED BY <1>2, <1>4, <6>1, <6>2
        <5> QED BY <5>1, <5>2
      <4>3. x[drop + 1].t < x[k].t
        BY <1>2, <1>3, <1>4, <1>6, <2>4, <4>1, <4>2
      <4>4. k < drop + 1 => x[k].t < x[drop + 1].t
        BY <1>2, <2>4 DEF IsSeries
      <4>5. k > drop + 1
        BY <1>2, <1>3, <2>4, <4>3, <4>4
      <4>6. k \in (drop + 2)..Len(x)
        BY <4>5
      <4> QED BY <4>1, <4>6
    <3>2. Len(x) + 1 < (drop + 2) + Len(w) /\ drop + 2 \in Nat /\ Len(w) > 0
      BY <1>2, <1>6, <2>3
    <3>3. HasPlaces(w, x, drop + 2, Len(x))
      BY <3>1 DEF HasPlaces
    <3> QED BY <1>2, <3>2, <3>3, NoRoom
  <2> QED BY <2>3, <2>4, <2>5 DEF Covers
<1> QED BY <1>5, <1>6 DEF Covers

-----------------------------------------------------------------------------
(* Merges: sorting a set of bars that names no bucket twice. *)

LEMMA BarsAreFinite == IsFiniteSet(Bars)
<1> DEFINE by == {"live", "vendor"}
           pair == [p \in Times \X by |-> Bar(p[1], p[2])]
<1>1. IsFiniteSet(Times)
  BY FS_Interval, BoundsAssumption DEF Times
<1>2. IsFiniteSet(by)
  <2>1. by = {"live"} \cup {"vendor"}
    OBVIOUS
  <2>2. IsFiniteSet({"live"}) /\ IsFiniteSet({"vendor"})
    BY FS_Singleton
  <2> QED BY <2>1, <2>2, FS_Union
<1>3. IsFiniteSet(Times \X by)
  BY <1>1, <1>2, FS_Product
<1>4. pair \in Surjection(Times \X by, Bars)
  <2>1. \A p \in Times \X by : pair[p] \in Bars
    BY DEF Bar, Bars
  <2>2. \A b \in Bars : <<b.t, b.by>> \in Times \X by /\ pair[<<b.t, b.by>>] = b
    BY DEF Bar, Bars
  <2> QED BY <2>1, <2>2 DEF Surjection
<1> QED BY <1>3, <1>4, FS_Surjection

LEMMA MergedInOrder ==
    ASSUME NEW seen \in Seq(Bars), NEW incoming \in SUBSET Times,
           NEW w \in InOrder(Merged(seen, incoming))
    PROVE  /\ w \in Seq(Bars) /\ IsSeries(w)
           /\ TimesOf(w) = TimesOf(seen) \cup incoming
           /\ \A b \in Elements(w) : b.by = "live" => b \in Elements(seen)
<1> DEFINE bars == Merged(seen, incoming)
<1>1. Elements(seen) \subseteq Bars
  BY DEF Elements
<1>2. bars \subseteq Bars
  BY <1>1 DEF Merged, Bar, Bars
<1>3. Cardinality(bars) \in Nat
  BY <1>2, BarsAreFinite, FS_Subset, FS_CardinalityType
<1>4. w \in [1..Cardinality(bars) -> bars] /\ IsSeries(w) /\ Elements(w) = bars
  BY DEF InOrder
<1>5. w \in Seq(Bars)
  <2> HIDE DEF bars
  <2>1. w \in [1..Cardinality(bars) -> Bars]
    BY <1>2, <1>4
  <2> QED BY <1>3, <2>1
<1>6. TimesOf(w) = {b.t : b \in Elements(w)} /\ TimesOf(seen) = {b.t : b \in Elements(seen)}
  BY DEF TimesOf, Elements
<1>7. {b.t : b \in bars} = {b.t : b \in Elements(seen)} \cup incoming
  <2>1. \A t \in incoming : Bar(t, "vendor") \in bars /\ Bar(t, "vendor").t = t
    BY DEF Merged, Bar
  <2>2. \A b \in Elements(seen) : b.t \notin incoming => b \in bars
    BY DEF Merged
  <2>3. \A b \in bars : b.t \in incoming \/ b \in Elements(seen)
    BY DEF Merged, Bar
  <2> HIDE DEF bars
  <2>4. ASSUME NEW t \in {b.t : b \in Elements(seen)} \cup incoming PROVE t \in {b.t : b \in bars}
    BY <2>1, <2>2
  <2>5. ASSUME NEW t \in {b.t : b \in bars} PROVE t \in {b.t : b \in Elements(seen)} \cup incoming
    BY <2>3
  <2> QED BY <2>4, <2>5
<1>8. \A b \in bars : b.by = "live" => b \in Elements(seen)
  BY DEF Merged, Bar
<1> QED BY <1>4, <1>5, <1>6, <1>7, <1>8

-----------------------------------------------------------------------------
(* What the two scripts do to the window and the watermark. *)

LEMMA StaysSeries == WindowIsSeries => IsSeries(window) /\ Newest(window) <= staged
BY DEF WindowIsSeries

LEMMA ScriptStages ==
    ASSUME StagingTypeOK, WindowIsSeries, NEW t \in Times, StageScript(t)
    PROVE  /\ window' \in Seq(Bars) /\ staged' \in 0..MaxTime /\ outbox' \in Seq(Times)
           /\ WindowIsSeries'
           /\ staged <= staged' /\ t <= staged'
           /\ \A u \in Times : Covers(window, u) \/ u \in TimesOf(window) => Covers(window', u)
           /\ \/ UNCHANGED redisVars
              \/ /\ staged < t /\ staged' = t /\ outbox' = Append(outbox, t)
                 /\ LiveTimes(window') \subseteq LiveTimes(window) \cup {t}
                 /\ Covers(window', t)
<1>1. /\ MaxTime \in Nat /\ staged \in 0..MaxTime /\ window \in Seq(Bars) /\ outbox \in Seq(Times)
      /\ t \in Nat /\ t <= MaxTime /\ t \in 0..MaxTime
  BY BoundsAssumption DEF StagingTypeOK, Times
<1>2. \A u \in TimesOf(window) : Covers(window, u)
  BY DEF Covers
<1>3. CASE staged >= t
  <2>1. UNCHANGED redisVars
    BY <1>3 DEF StageScript
  <2> QED BY <1>1, <1>2, <1>3, <2>1 DEF redisVars, WindowIsSeries, Covers, TimesOf
<1>4. CASE ~(staged >= t)
  <2> DEFINE b == Bar(t, "live")
             x == Append(window, b)
  <2>1. window' = Trim(x) /\ outbox' = Append(outbox, t) /\ staged' = t
    BY <1>4 DEF StageScript
  <2>2. b \in Bars /\ b.t = t
    BY DEF Bar, Bars
  <2>3. Newest(window) < b.t /\ IsSeries(window) /\ staged < t
    BY <1>1, <1>4, <2>2, NewestIsLast DEF WindowIsSeries
  <2> HIDE DEF b
  <2>4. /\ x \in Seq(Bars) /\ IsSeries(x) /\ Newest(x) = t
        /\ Elements(x) = Elements(window) \cup {b}
        /\ TimesOf(window) \cup {t} \subseteq TimesOf(x)
    BY <1>1, <2>2, <2>3, AppendToSeries
  <2> HIDE DEF x
  <2>5. /\ Trim(x) \in Seq(Bars) /\ IsSeries(Trim(x)) /\ Newest(Trim(x)) = t
        /\ Elements(Trim(x)) \subseteq Elements(window) \cup {b}
    BY <2>4, TrimKeepsSeries
  <2>6. \A u \in Times : Covers(window, u) => Covers(Trim(x), u)
    BY <1>1, <2>3, <2>4, CoveredStays
  <2>7. Covers(Trim(x), t)
    <3>1. Covers(x, t)
      BY <2>4 DEF Covers
    <3> QED BY <2>4, <3>1, CoveredStays
  <2>8. LiveTimes(window') \subseteq LiveTimes(window) \cup {t}
    BY <2>1, <2>2, <2>5 DEF LiveTimes
  <2>9. outbox' \in Seq(Times)
    BY <1>1, <2>1
  <2>10. WindowIsSeries'
    BY <1>1, <2>1, <2>5 DEF WindowIsSeries
  <2> QED BY <1>1, <1>2, <2>1, <2>3, <2>5, <2>6, <2>7, <2>8, <2>9, <2>10
<1> QED BY <1>3, <1>4

LEMMA ScriptSwaps ==
    ASSUME StagingTypeOK, SeenIsSeries, NEW m \in Mergers, HasRead(m), SwapScript(merge[m])
    PROVE  /\ window' \in Seq(Bars) /\ staged' \in 0..MaxTime
           /\ WindowIsSeries'
           /\ merge[m].mark <= staged'
           /\ LiveTimes(window') \subseteq LiveTimes(merge[m].seen)
           /\ \A u \in Times : Covers(merge[m].seen, u) => Covers(window', u)
<1> DEFINE mm == merge[m]
<1>1. /\ mm.seen \in Seq(Bars) /\ mm.bars \in SUBSET Times /\ mm.mark \in 0..MaxTime
      /\ MaxTime \in Nat
  BY BoundsAssumption DEF StagingTypeOK, Merging
<1>2. IsSeries(mm.seen) /\ Newest(mm.seen) <= mm.mark
  BY DEF SeenIsSeries
<1>3. PICK w \in InOrder(Merged(mm.seen, mm.bars)) : window' = Trim(w)
  BY DEF SwapScript
<1>4. PICK newest \in mm.bars :
        /\ \A t \in mm.bars : t <= newest
        /\ staged' = IF mm.mark < newest THEN newest ELSE mm.mark
  BY DEF SwapScript
<1> HIDE DEF mm
<1>5. /\ w \in Seq(Bars) /\ IsSeries(w)
      /\ TimesOf(w) = TimesOf(mm.seen) \cup mm.bars
      /\ \A b \in Elements(w) : b.by = "live" => b \in Elements(mm.seen)
  BY <1>1, MergedInOrder
<1>6. /\ window' \in Seq(Bars) /\ IsSeries(window') /\ Newest(window') = Newest(w)
      /\ Elements(window') \subseteq Elements(w)
  BY <1>3, <1>5, TrimKeepsSeries
<1>7. newest \in Nat /\ newest <= MaxTime /\ mm.mark \in Nat /\ mm.mark <= MaxTime
  BY <1>1 DEF Times
<1>8. staged' \in 0..MaxTime /\ mm.mark <= staged' /\ newest <= staged'
  BY <1>1, <1>4, <1>7
<1>9. Newest(w) <= staged'
  <2>1. CASE w = <<>>
    BY <1>1, <1>8, <2>1 DEF Newest
  <2>2. CASE w # <<>>
    <3>1. Newest(w) \in TimesOf(w) /\ Newest(w) \in 0..MaxTime
      <4>1. Len(w) \in DOMAIN w
        BY <1>5, <2>2
      <4> QED BY <1>5, <2>2, <4>1, NewestIsLast DEF TimesOf
    <3>2. CASE Newest(w) \in mm.bars
      BY <1>1, <1>4, <1>7, <1>8, <3>1, <3>2
    <3>3. CASE Newest(w) \in TimesOf(mm.seen)
      <4>1. Newest(w) <= Newest(mm.seen) /\ Newest(mm.seen) \in 0..MaxTime
        BY <1>1, <1>2, <3>3, NewestIsLast
      <4> QED BY <1>1, <1>2, <1>7, <1>8, <3>1, <4>1
    <3> QED BY <1>5, <3>1, <3>2, <3>3
  <2> QED BY <2>1, <2>2
<1>10. LiveTimes(window') \subseteq LiveTimes(mm.seen)
  BY <1>5, <1>6 DEF LiveTimes
<1>11. \A u \in Times : Covers(mm.seen, u) => Covers(window', u)
  <2>1. TimesOf(mm.seen) \subseteq TimesOf(w)
    BY <1>5
  <2> QED BY <1>1, <1>2, <1>3, <1>5, <2>1, CoveredStays
<1>12. WindowIsSeries'
  BY <1>6, <1>9 DEF WindowIsSeries
<1> QED BY <1>6, <1>8, <1>10, <1>11, <1>12 DEF mm

-----------------------------------------------------------------------------
(* The invariant, by what a step does to it. *)

\* A merge that holds a window after the step held the same before.
NoneReads == \A m \in Mergers : merge'[m].step = "read" => merge'[m] = merge[m]

StillAcks == emitting' = "ack" => emitting = "ack"

LEMMA LiveIsCovered ==
    ASSUME NEW w
    PROVE  LiveTimes(w) \subseteq TimesOf(w) /\ Agree(w, w)
BY DEF LiveTimes, TimesOf, Elements, Agree, Covers

LEMMA QuietStaging ==
    ASSUME StagingInv, StagingTypeOK', NoneReads, StillAcks, UNCHANGED <<redisVars, published, history>>
    PROVE  StagingInv'
<1>1. UNCHANGED <<window, staged, outbox, published, flushed, resent>>
  BY DEF redisVars, history
<1>2. WindowIsSeries' /\ (EventsAdvance => EventsAdvance')
  BY <1>1 DEF StagingInv, WindowIsSeries, EventsAdvance
<1>3. \A m \in Mergers : HasRead(m)' => HasRead(m) /\ merge'[m] = merge[m]
  BY DEF NoneReads, HasRead
<1>4. SeenIsSeries' /\ (MarkLeads => MarkLeads') /\ (AllAnnounced => AllAnnounced')
  BY <1>1, <1>3 DEF StagingInv, SeenIsSeries, MarkLeads, AllAnnounced, Announced
<1>5. SnapshotsAgree => SnapshotsAgree'
  <2>1. Snapshots' \subseteq Snapshots
    BY <1>1, <1>3 DEF Snapshots
  <2>2. \A v, w : Agree(v, w)' = Agree(v, w)
    BY DEF Agree, Covers, LiveTimes
  <2> QED BY <2>1, <2>2 DEF SnapshotsAgree
<1>6. AckIsOfTheHead'
  BY <1>1 DEF StagingInv, AckIsOfTheHead, StillAcks
<1> QED BY <1>1, <1>2, <1>4, <1>5, <1>6 DEF StagingInv

LEMMA StageStep ==
    ASSUME StagingInv, StagingTypeOK', NoneReads, emitting' # "ack",
           NEW t \in Times, StageScript(t), UNCHANGED <<published, history>>
    PROVE  StagingInv'
<1>1. UNCHANGED <<published, flushed, resent>>
  BY DEF history
<1>2. CASE UNCHANGED redisVars
  BY <1>2, QuietStaging DEF StillAcks
<1>3. CASE ~UNCHANGED redisVars
  <2>1. /\ WindowIsSeries' /\ staged <= staged' /\ staged < t /\ staged' = t
        /\ outbox' = Append(outbox, t)
        /\ LiveTimes(window') \subseteq LiveTimes(window) \cup {t}
    BY <1>3, ScriptStages DEF StagingInv
  <2>2. outbox \in Seq(Times) /\ published \in Seq(Times) /\ staged \in Nat /\ t \in Nat
        /\ MaxTime \in Nat /\ staged \in 0..MaxTime
    BY BoundsAssumption DEF StagingInv, StagingTypeOK, Times
  <2>3. Elements(outbox') = Elements(outbox) \cup {t}
    BY <2>1, <2>2, Appended
  <2>4. \A m \in Mergers : HasRead(m)' => HasRead(m) /\ merge'[m] = merge[m]
    BY DEF NoneReads, HasRead
  <2>5. SeenIsSeries' /\ AckIsOfTheHead'
    BY <2>4 DEF StagingInv, SeenIsSeries, AckIsOfTheHead
  <2>6. AllAnnounced => AllAnnounced'
    BY <1>1, <2>1, <2>3, <2>4 DEF AllAnnounced, Announced
  <2>7. ASSUME EventsAdvance, MarkLeads PROVE EventsAdvance' /\ MarkLeads'
    <3>1. \A u \in Elements(outbox) \cup Elements(published) : u \in Nat /\ u <= staged
      BY <2>2, <2>7 DEF MarkLeads, Elements, Times
    <3>2. \A m \in Mergers : HasRead(m) => merge[m].mark \in Nat /\ merge[m].mark <= staged
      BY <2>2, <2>7 DEF MarkLeads, StagingInv, StagingTypeOK, Merging
    <3>3. MarkLeads'
      BY <1>1, <2>1, <2>2, <2>3, <2>4, <3>1, <3>2 DEF MarkLeads
    <3>4. \A i, j \in DOMAIN outbox' : i < j => outbox'[i] < outbox'[j]
      <4> SUFFICES ASSUME NEW i \in DOMAIN outbox', NEW j \in DOMAIN outbox', i < j
                   PROVE  outbox'[i] < outbox'[j]
        OBVIOUS
      <4>1. /\ Len(outbox) \in Nat /\ DOMAIN outbox = 1..Len(outbox)
            /\ DOMAIN outbox' = 1..(Len(outbox) + 1)
            /\ outbox'[Len(outbox) + 1] = t
            /\ \A k \in 1..Len(outbox) : outbox'[k] = outbox[k]
        BY <2>1, <2>2
      <4>2. i \in DOMAIN outbox /\ outbox'[i] = outbox[i] /\ outbox[i] \in Elements(outbox)
        BY <4>1 DEF Elements
      <4>3. CASE j = Len(outbox) + 1
        BY <2>1, <2>2, <3>1, <4>1, <4>2, <4>3
      <4>4. CASE j # Len(outbox) + 1
        <5>1. j \in DOMAIN outbox /\ outbox'[j] = outbox[j]
          BY <4>1, <4>4
        <5> QED BY <2>7, <4>2, <5>1 DEF EventsAdvance
      <4> QED BY <4>3, <4>4
    <3>5. \A u \in Elements(published'), v \in Elements(outbox') : u <= v
      <4> SUFFICES ASSUME NEW u \in Elements(published), NEW v \in Elements(outbox) \cup {t}
                   PROVE  u <= v
        BY <1>1, <2>3
      <4>1. CASE v = t
        BY <2>1, <2>2, <3>1, <4>1
      <4>2. CASE v # t
        BY <2>7, <4>2 DEF EventsAdvance
      <4> QED BY <4>1, <4>2
    <3> QED BY <1>1, <2>7, <3>3, <3>4, <3>5 DEF EventsAdvance
  <2>8. MarkLeads => SnapshotsAgree'
    <3> SUFFICES ASSUME MarkLeads PROVE SnapshotsAgree'
      OBVIOUS
    <3>1. \A m \in Mergers : HasRead(m)' => merge'[m].mark # staged'
      BY <2>1, <2>2, <2>4 DEF MarkLeads, StagingInv, StagingTypeOK, Merging
    <3>2. Snapshots' = {window'}
      BY <3>1 DEF Snapshots
    <3>3. Agree(window', window')
      BY LiveIsCovered
    <3>4. \A v, w \in Snapshots' : Agree(v, w)
      BY <3>2, <3>3
    <3>5. \A v, w : Agree(v, w)' = Agree(v, w)
      BY DEF Agree, Covers, LiveTimes
    <3> QED BY <3>4, <3>5 DEF SnapshotsAgree
  <2> QED BY <1>1, <2>1, <2>5, <2>6, <2>7, <2>8 DEF StagingInv
<1> QED BY <1>2, <1>3

LEMMA SwapStep ==
    ASSUME StagingInv, StagingTypeOK', NoneReads, StillAcks,
           NEW m \in Mergers, HasRead(m), ~HasRead(m)', Unmoved(merge[m].mark), SwapScript(merge[m]),
           UNCHANGED <<outbox, published, history>>
    PROVE  StagingInv'
<1>1. UNCHANGED <<published, flushed, resent>> /\ staged = merge[m].mark
  BY DEF history, Unmoved
<1>2. /\ WindowIsSeries' /\ staged <= staged'
      /\ LiveTimes(window') \subseteq LiveTimes(merge[m].seen)
      /\ \A u \in Times : Covers(merge[m].seen, u) => Covers(window', u)
  BY <1>1, ScriptSwaps DEF StagingInv
<1>3. \A n \in Mergers : HasRead(n)' => HasRead(n) /\ merge'[n] = merge[n] /\ n # m
  BY DEF NoneReads, HasRead
<1>4. SeenIsSeries' /\ AckIsOfTheHead'
  BY <1>3 DEF StagingInv, SeenIsSeries, AckIsOfTheHead, StillAcks
<1>5. AllAnnounced => AllAnnounced'
  BY <1>1, <1>2, <1>3 DEF AllAnnounced, Announced
<1>6. EventsAdvance => EventsAdvance'
  BY DEF EventsAdvance
<1>7. /\ staged \in Nat /\ staged' \in Nat /\ outbox \in Seq(Times) /\ published \in Seq(Times)
      /\ \A n \in Mergers : merge[n].mark \in Nat
  BY BoundsAssumption DEF StagingInv, StagingTypeOK, Merging
<1>8. MarkLeads => MarkLeads'
  <2>1. \A u \in Elements(outbox) \cup Elements(published) : u \in Nat
    <3>1. \A i \in DOMAIN outbox : outbox[i] \in Times
      BY <1>7
    <3>2. \A i \in DOMAIN published : published[i] \in Times
      BY <1>7
    <3> QED BY <3>1, <3>2 DEF Elements, Times
  <2>2. \A u \in Elements(outbox) \cup Elements(published) : u <= staged => u <= staged'
    BY <1>2, <1>7, <2>1
  <2>3. MarkLeads => \A u \in Elements(outbox)' \cup Elements(published)' : u <= staged'
    BY <1>1, <2>2 DEF MarkLeads, Elements
  <2>4. MarkLeads => \A n \in Mergers : HasRead(n)' => merge'[n].mark <= staged'
    BY <1>2, <1>3, <1>7 DEF MarkLeads
  <2> QED BY <2>3, <2>4 DEF MarkLeads
<1>9. ASSUME MarkLeads, SnapshotsAgree PROVE SnapshotsAgree'
  <2> SUFFICES \A v, w \in Snapshots' : Agree(v, w)
    <3>1. \A v, w : Agree(v, w)' = Agree(v, w)
      BY DEF Agree, Covers, LiveTimes
    <3> QED BY <3>1 DEF SnapshotsAgree
  <2> DEFINE seen == merge[m].seen
  <2>1. seen \in Snapshots
    BY <1>1 DEF Snapshots
  <2>2. \A n \in Mergers : HasRead(n)' /\ merge'[n].mark = staged' => merge[n].seen \in Snapshots
    <3>1. \A n \in Mergers : HasRead(n) => merge[n].mark <= staged
      BY <1>9 DEF MarkLeads
    <3> QED BY <1>2, <1>3, <1>7, <3>1 DEF Snapshots
  <2>3. Snapshots' \subseteq {window'} \cup Snapshots
    BY <1>3, <2>2 DEF Snapshots
  <2>4. \A v \in Snapshots : LiveTimes(v) \subseteq Times
    <3>1. \A v \in Snapshots : v \in Seq(Bars)
      BY DEF Snapshots, StagingInv, StagingTypeOK, Merging
    <3> QED BY <3>1, LiveIsCovered, NewestIsLast
  <2>5. \A v \in Snapshots : Agree(seen, v) /\ Agree(v, seen)
    BY <1>9, <2>1 DEF SnapshotsAgree
  <2>6. \A v \in Snapshots : Agree(window', v) /\ Agree(v, window')
    BY <1>2, <2>4, <2>5 DEF Agree
  <2>7. Agree(window', window')
    BY LiveIsCovered
  <2>8. \A v, w \in Snapshots : Agree(v, w)
    BY <1>9 DEF SnapshotsAgree
  <2> QED BY <2>3, <2>6, <2>7, <2>8
<1> QED BY <1>1, <1>2, <1>4, <1>5, <1>6, <1>8, <1>9 DEF StagingInv

LEMMA ReadStep ==
    ASSUME StagingInv, StagingTypeOK', NEW m \in Mergers, ReadWindow(m), UNCHANGED history
    PROVE  StagingInv'
<1>1. /\ UNCHANGED <<emitting, window, staged, outbox, published, flushed, resent>>
      /\ merge' = [merge EXCEPT ![m] = [merge[m] EXCEPT !.step = "read", !.seen = window,
                                                        !.mark = staged]]
  BY DEF ReadWindow, MergeIs, liveVars, redisVars, history
<1>2. merge'[m].seen = window /\ merge'[m].mark = staged
  BY <1>1 DEF StagingInv, StagingTypeOK, Merging
<1>3. \A n \in Mergers : n # m => merge'[n] = merge[n]
  BY <1>1 DEF StagingInv, StagingTypeOK
<1>4. \A n \in Mergers : HasRead(n)' => \/ merge'[n].seen = window /\ merge'[n].mark = staged
                                        \/ HasRead(n) /\ merge'[n] = merge[n]
  BY <1>2, <1>3 DEF HasRead
<1>5. WindowIsSeries' /\ (EventsAdvance => EventsAdvance') /\ AckIsOfTheHead'
  BY <1>1 DEF StagingInv, WindowIsSeries, EventsAdvance, AckIsOfTheHead
<1>6. SeenIsSeries'
  BY <1>4, StaysSeries DEF StagingInv, SeenIsSeries
<1>7. MarkLeads => MarkLeads'
  <2>1. staged <= staged
    BY BoundsAssumption DEF StagingInv, StagingTypeOK
  <2> QED BY <1>1, <1>4, <2>1 DEF MarkLeads
<1>8. AllAnnounced => AllAnnounced'
  BY <1>1, <1>4 DEF AllAnnounced, Announced
<1>9. SnapshotsAgree => SnapshotsAgree'
  <2>1. Snapshots' \subseteq Snapshots
    BY <1>1, <1>4 DEF Snapshots
  <2>2. \A v, w : Agree(v, w)' = Agree(v, w)
    BY DEF Agree, Covers, LiveTimes
  <2> QED BY <2>1, <2>2 DEF SnapshotsAgree
<1> QED BY <1>1, <1>5, <1>6, <1>7, <1>8, <1>9 DEF StagingInv

\* Only the outbox and what went out move: the windows agree as before.
LEMMA EventsStep ==
    ASSUME StagingInv, StagingTypeOK', UNCHANGED <<merge, window, staged, flushed>>,
           AckIsOfTheHead',
           Elements(outbox') \cup Elements(published') \subseteq Announced,
           EventsAdvance => EventsAdvance',
           ~resent' => ~resent /\ Announced \subseteq Announced'
    PROVE  StagingInv'
<1>1. \A m \in Mergers : HasRead(m)' = HasRead(m)
  BY DEF HasRead
<1>2. WindowIsSeries' /\ SeenIsSeries'
  BY <1>1 DEF StagingInv, WindowIsSeries, SeenIsSeries
<1>3. MarkLeads => MarkLeads'
  BY <1>1 DEF MarkLeads, Announced
<1>4. SnapshotsAgree => SnapshotsAgree'
  <2>1. Snapshots' = Snapshots
    BY <1>1 DEF Snapshots
  <2>2. \A v, w : Agree(v, w)' = Agree(v, w)
    BY DEF Agree, Covers, LiveTimes
  <2> QED BY <2>1, <2>2 DEF SnapshotsAgree
<1>5. ~resent' => AllAnnounced'
  <2> SUFFICES ASSUME ~resent' PROVE AllAnnounced'
    OBVIOUS
  <2>1. AllAnnounced /\ Announced \subseteq Announced'
    BY DEF StagingInv
  <2>2. LiveTimes(window') \subseteq Announced'
    BY <2>1 DEF AllAnnounced
  <2>3. \A m \in Mergers : HasRead(m)' => LiveTimes(merge'[m].seen) \subseteq Announced'
    BY <1>1, <2>1 DEF AllAnnounced
  <2> QED BY <2>2, <2>3 DEF AllAnnounced
<1> QED BY <1>2, <1>3, <1>4, <1>5 DEF StagingInv

LEMMA PublishStep ==
    ASSUME StagingInv, StagingTypeOK', Publish, UNCHANGED history
    PROVE  StagingInv'
<1>1. /\ emitting = "drain" /\ outbox # <<>> /\ UNCHANGED <<merge, window, staged, outbox>>
      /\ UNCHANGED <<flushed, resent, redisVars>>
  BY DEF Publish, redisVars, history
<1>2. CASE Leaves /\ UNCHANGED published
  <2>1. emitting' # "ack"
    BY <1>2 DEF Leaves
  <2> QED BY <1>1, <1>2, <2>1, QuietStaging DEF NoneReads, StillAcks, history
<1>3. CASE published' = Append(published, Head(outbox)) /\ emitting' = "ack"
  <2> DEFINE t == Head(outbox)
  <2>1. /\ outbox \in Seq(Times) /\ published \in Seq(Times)
    BY DEF StagingInv, StagingTypeOK
  <2>2. /\ t \in Times /\ t = outbox[1] /\ t \in Elements(outbox) /\ Len(outbox) >= 1
        /\ Len(outbox) \in Nat
    BY <1>1, <2>1, TailOf
  <2> HIDE DEF t
  <2>3. published' = Append(published, t)
    BY <1>3 DEF t
  <2>4. /\ Elements(published') = Elements(published) \cup {t}
        /\ Len(published) \in Nat /\ Len(published') = Len(published) + 1
        /\ published'[Len(published) + 1] = t
        /\ \A i \in 1..Len(published) : published'[i] = published[i]
    BY <2>1, <2>2, <2>3, Appended
  <2>5. AckIsOfTheHead'
    <3>1. published' # <<>>
      BY <2>4
    <3> QED BY <1>1, <2>2, <2>4, <3>1 DEF AckIsOfTheHead
  <2>6. Elements(outbox') \cup Elements(published') \subseteq Announced
        /\ Announced \subseteq Announced'
    BY <1>1, <2>2, <2>4 DEF Announced
  <2>7. EventsAdvance => EventsAdvance'
    <3> SUFFICES ASSUME EventsAdvance PROVE EventsAdvance'
      OBVIOUS
    <3>1. \A i \in DOMAIN published : published[i] \in Nat /\ published[i] <= t
      <4>1. \A i \in DOMAIN published : published[i] \in Elements(published) /\ published[i] \in Times
        BY <2>1 DEF Elements
      <4> QED BY <2>2, <4>1 DEF EventsAdvance, Times
    <3>2. \A i, j \in DOMAIN published' : i < j => published'[i] <= published'[j]
      <4> SUFFICES ASSUME NEW i \in DOMAIN published', NEW j \in DOMAIN published', i < j
                   PROVE  published'[i] <= published'[j]
        OBVIOUS
      <4>0. DOMAIN published = 1..Len(published) /\ DOMAIN published' = 1..(Len(published) + 1)
        BY <2>1, <2>2, <2>3
      <4>1. i \in DOMAIN published /\ published'[i] = published[i]
        BY <2>4, <4>0
      <4>2. CASE j = Len(published) + 1
        BY <2>4, <3>1, <4>1, <4>2
      <4>3. CASE j # Len(published) + 1
        <5>1. j \in DOMAIN published /\ published'[j] = published[j]
          BY <2>4, <4>0, <4>3
        <5> QED BY <4>1, <5>1 DEF EventsAdvance
      <4> QED BY <4>2, <4>3
    <3>3. \A u \in Elements(outbox) : t <= u
      <4> SUFFICES ASSUME NEW k \in DOMAIN outbox PROVE t <= outbox[k]
        BY DEF Elements
      <4>1. k = 1 \/ 1 < k
        BY <2>1
      <4>2. t \in Nat
        BY <2>2 DEF Times
      <4>3. 1 < k => outbox[1] < outbox[k]
        <5>1. 1 \in DOMAIN outbox
          BY <2>1, <2>2
        <5> QED BY <5>1 DEF EventsAdvance
      <4>4. outbox[k] \in Nat
        <5>1. outbox[k] \in Times
          BY <2>1
        <5> QED BY <5>1 DEF Times
      <4> QED BY <2>2, <4>1, <4>2, <4>3, <4>4
    <3>4. \A u \in Elements(published'), v \in Elements(outbox') : u <= v
      BY <1>1, <2>4, <3>3 DEF EventsAdvance
    <3>5. \A i, j \in DOMAIN outbox' : i < j => outbox'[i] < outbox'[j]
      BY <1>1 DEF EventsAdvance
    <3> QED BY <3>2, <3>4, <3>5 DEF EventsAdvance
  <2> QED BY <1>1, <2>5, <2>6, <2>7, EventsStep
<1> QED BY <1>2, <1>3 DEF Publish, Emits

\* The oldest d closes are taken off the outbox.
Popped(d) ==
    /\ outbox' \in Seq(Times) /\ Len(outbox') <= Len(outbox)
    /\ \A i \in 1..Len(outbox') : i + d \in 1..Len(outbox) /\ outbox'[i] = outbox[i + d]
    /\ d <= 1 => Elements(outbox) \subseteq Elements(outbox') \cup {outbox[1]}

LEMMA TakenOff ==
    ASSUME StagingTypeOK, outbox # <<>>
    PROVE  /\ outbox' = outbox => Popped(0)
           /\ outbox' = Tail(outbox) => Popped(1)
           /\ outbox' = SubSeq(outbox, 3, Len(outbox)) => Popped(2)
<1>1. outbox \in Seq(Times) /\ Len(outbox) \in Nat /\ Len(outbox) >= 1
  BY DEF StagingTypeOK
<1>2. outbox' = outbox => Popped(0)
  BY <1>1 DEF Popped, Elements
<1>3. ASSUME outbox' = Tail(outbox) PROVE Popped(1)
  <2>1. /\ outbox' \in Seq(Times) /\ Len(outbox') = Len(outbox) - 1
        /\ \A i \in 1..Len(outbox') : outbox'[i] = outbox[i + 1]
        /\ Elements(outbox) = Elements(outbox') \cup {outbox[1]}
    BY <1>1, <1>3, TailOf
  <2>2. \A i \in 1..Len(outbox') : i + 1 \in 1..Len(outbox)
    BY <1>1, <2>1
  <2> QED BY <1>1, <2>1, <2>2 DEF Popped
<1>4. ASSUME outbox' = SubSeq(outbox, 3, Len(outbox)) PROVE Popped(2)
  <2>1. /\ outbox' \in Seq(Times)
        /\ Len(outbox') = IF 3 <= Len(outbox) THEN Len(outbox) - 3 + 1 ELSE 0
        /\ \A i \in 1..(Len(outbox) - 3 + 1) : outbox'[i] = outbox[i + 2]
    BY <1>1, <1>4
  <2>2. \A i \in 1..Len(outbox') : i + 2 \in 1..Len(outbox) /\ outbox'[i] = outbox[i + 2]
    BY <1>1, <2>1
  <2>3. Len(outbox') <= Len(outbox)
    BY <1>1, <2>1
  <2> QED BY <2>1, <2>2, <2>3 DEF Popped
<1> QED BY <1>2, <1>3, <1>4

LEMMA PopStep ==
    ASSUME StagingInv, StagingTypeOK', UNCHANGED <<merge, window, staged, published, flushed>>,
           emitting = "ack", emitting' # "ack", NEW d \in Nat, Popped(d),
           ~resent' => ~resent /\ d <= 1
    PROVE  StagingInv'
<1>1. /\ outbox # <<>> /\ published # <<>> /\ outbox[1] = published[Len(published)]
      /\ published \in Seq(Times)
  BY DEF StagingInv, AckIsOfTheHead, StagingTypeOK
<1>2. outbox[1] \in Elements(published)
  <2>1. Len(published) \in DOMAIN published
    BY <1>1
  <2> QED BY <1>1, <2>1 DEF Elements
<1>3. outbox \in Seq(Times) /\ outbox' \in Seq(Times)
      /\ DOMAIN outbox = 1..Len(outbox) /\ DOMAIN outbox' = 1..Len(outbox')
  BY DEF Popped, StagingInv, StagingTypeOK
<1>4. \A i \in DOMAIN outbox' : i + d \in DOMAIN outbox /\ outbox'[i] = outbox[i + d]
  BY <1>3 DEF Popped
<1>5. Elements(outbox') \subseteq Elements(outbox)
  BY <1>4 DEF Elements
<1>6. Elements(outbox') \cup Elements(published') \subseteq Announced
  BY <1>5 DEF Announced
<1>7. ~resent' => ~resent /\ Announced \subseteq Announced'
  BY <1>2 DEF Announced, Popped
<1>8. EventsAdvance => EventsAdvance'
  <2> SUFFICES ASSUME EventsAdvance PROVE EventsAdvance'
    OBVIOUS
  <2>1. \A i, j \in DOMAIN outbox' : i < j => outbox'[i] < outbox'[j]
    <3> SUFFICES ASSUME NEW i \in DOMAIN outbox', NEW j \in DOMAIN outbox', i < j
                 PROVE  outbox'[i] < outbox'[j]
      OBVIOUS
    <3>1. i + d < j + d
      BY <1>3
    <3> QED BY <1>4, <3>1 DEF EventsAdvance
  <2>2. \A u \in Elements(published'), v \in Elements(outbox') : u <= v
    BY <1>5 DEF EventsAdvance
  <2> QED BY <2>1, <2>2 DEF EventsAdvance
<1>9. AckIsOfTheHead'
  BY DEF AckIsOfTheHead
<1> QED BY <1>6, <1>7, <1>8, <1>9, EventsStep

LEMMA FlushStep ==
    ASSUME StagingInv, StagingTypeOK', Flush, flushed' = TRUE, UNCHANGED resent
    PROVE  StagingInv'
<1>1. /\ window' = <<>> /\ staged' = 0
      /\ UNCHANGED <<emitting, merge, outbox, published, resent>>
  BY DEF Flush, liveVars
<1>2. WindowIsSeries'
  BY <1>1 DEF WindowIsSeries, IsSeries, Newest
<1>3. SeenIsSeries' /\ AckIsOfTheHead'
  BY <1>1 DEF StagingInv, SeenIsSeries, HasRead, AckIsOfTheHead
<1>4. AllAnnounced => AllAnnounced'
  <2>1. LiveTimes(window') = {}
    BY <1>1 DEF LiveTimes, Elements
  <2> QED BY <1>1, <2>1 DEF AllAnnounced, Announced, HasRead
<1> QED BY <1>1, <1>2, <1>3, <1>4 DEF StagingInv

-----------------------------------------------------------------------------
(* The types, and the steps of each part of the service. *)

LEMMA FetchedIsMerge ==
    ASSUME NEW bars \in SUBSET Times
    PROVE  Fetched(bars) \in Merging /\ Fetched(bars).step = "fetched" /\ NoMerge \in Merging
           /\ NoMerge.step = "idle"
<1>1. MaxTime \in Nat /\ 0 \in 0..MaxTime /\ 0 \in Nat /\ <<>> \in Seq(Bars)
  BY BoundsAssumption
<1>2. {} \in SUBSET Times
  OBVIOUS
<1>3. NoMerge \in Merging
  BY <1>1, <1>2 DEF NoMerge, Merging, Steps
<1>4. NoMerge.step = "idle"
  BY DEF NoMerge
<1>5. Fetched(bars) \in Merging /\ Fetched(bars).step = "fetched"
  BY <1>3 DEF Fetched, Merging, Steps
<1> QED BY <1>3, <1>4, <1>5

LEMMA StagingStart == Init => StagingInv
<1> SUFFICES ASSUME Init PROVE StagingInv
  OBVIOUS
<1>1. MaxTime \in Nat
  BY BoundsAssumption
<1>2. NoMerge \in Merging
  BY FetchedIsMerge
<1>3. StagingTypeOK
  <2>1. merge \in [Mergers -> Merging]
    BY <1>2 DEF Init
  <2>2. 0 \in 0..MaxTime
    BY <1>1
  <2>3. <<>> \in Seq(Times) /\ <<>> \in Seq(Bars)
    OBVIOUS
  <2>4. now \in 0..MaxTime /\ staged \in 0..MaxTime
    BY <2>2 DEF Init
  <2>5. retained \in Seq(Times) /\ outbox \in Seq(Times) /\ published \in Seq(Times)
        /\ window \in Seq(Bars)
    BY <2>3 DEF Init
  <2> QED BY <2>1, <2>4, <2>5 DEF Init, StagingTypeOK
<1>4. \A m \in Mergers : ~HasRead(m)
  BY DEF Init, HasRead, NoMerge
<1>5. WindowIsSeries /\ SeenIsSeries /\ AckIsOfTheHead
  BY <1>4 DEF Init, WindowIsSeries, IsSeries, Newest, SeenIsSeries, AckIsOfTheHead
<1>6. LiveTimes(window) = {} /\ Elements(outbox) = {} /\ Elements(published) = {}
  BY DEF Init, LiveTimes, Elements
<1>7. EventsAdvance /\ MarkLeads /\ AllAnnounced
  BY <1>4, <1>6 DEF Init, EventsAdvance, MarkLeads, AllAnnounced
<1>8. SnapshotsAgree
  <2>1. Snapshots = {window}
    BY <1>4 DEF Snapshots
  <2> QED BY <1>6, <2>1 DEF SnapshotsAgree, Agree
<1> QED BY <1>3, <1>5, <1>7, <1>8 DEF StagingInv

\* Between complete buckets and nothing, there is what a vendor may return.
LEMMA VendorTimes ==
    ASSUME StagingTypeOK
    PROVE  1..now \subseteq Times /\ \A t \in Times : 1..(t - 1) \subseteq Times
BY BoundsAssumption DEF StagingTypeOK, Times

\* One merge is set to something that holds no window.
LEMMA MergeSet ==
    ASSUME StagingTypeOK, NEW m \in Mergers, NEW rec \in Merging, rec.step # "read", MergeIs(m, rec)
    PROVE  merge' \in [Mergers -> Merging] /\ NoneReads /\ ~HasRead(m)'
BY DEF MergeIs, StagingTypeOK, NoneReads, HasRead

LEMMA LiveSteps ==
    ASSUME StagingInv, UNCHANGED history,
           \/ BucketEnds \/ (\E t \in Times : BarArrives(t)) \/ GapFilled \/ Retain
           \/ FlushCycle \/ Drain \/ Drained \/ LoopWaits \/ LoopWakes \/ VendorOnline
    PROVE  StagingInv'
<1>1. StagingTypeOK /\ MaxTime \in Nat
  BY BoundsAssumption DEF StagingInv
<1>2. UNCHANGED <<flushed, resent>>
  BY DEF history
<1>3. CASE BucketEnds
  <2>1. StagingTypeOK'
    BY <1>1, <1>2, <1>3 DEF BucketEnds, StagingTypeOK, memVars, liveVars, redisVars
  <2> QED BY <1>3, <2>1, QuietStaging DEF BucketEnds, NoneReads, StillAcks, memVars, liveVars
<1>4. CASE \E t \in Times : BarArrives(t)
  <2> PICK t \in Times : BarArrives(t)
    BY <1>4
  <2>1. live' \in [step : {"ready", "gap", "emit"}, t : Times]
        /\ UNCHANGED <<now, emitting, retained, redisVars, published>>
    BY DEF BarArrives
  <2>2. merge' \in [Mergers -> Merging] /\ NoneReads
    <3>1. CASE UNCHANGED merge
      BY <1>1, <3>1 DEF StagingTypeOK, NoneReads
    <3>2. CASE MergeIs("gap", Fetched(1..(t - 1)))
      BY <1>1, <3>2, VendorTimes, FetchedIsMerge, MergeSet DEF Mergers
    <3> QED BY <3>1, <3>2 DEF BarArrives, MergeIs
  <2>3. StagingTypeOK'
    BY <1>1, <1>2, <2>1, <2>2 DEF StagingTypeOK, redisVars
  <2> QED BY <2>1, <2>2, <2>3, QuietStaging DEF StillAcks
<1>5. CASE GapFilled
  <2>1. live \in [step : {"ready", "gap", "emit"}, t : Times]
    BY <1>1, <1>5 DEF GapFilled, StagingTypeOK, NoLive
  <2>2. live' \in [step : {"ready", "gap", "emit"}, t : Times]
    BY <1>5, <2>1 DEF GapFilled
  <2>3. StagingTypeOK'
    BY <1>1, <1>2, <1>5, <2>2 DEF GapFilled, StagingTypeOK, redisVars
  <2> QED BY <1>5, <2>3, QuietStaging DEF GapFilled, NoneReads, StillAcks
<1>6. CASE Retain
  <2>1. live \in [step : {"ready", "gap", "emit"}, t : Times]
    BY <1>1, <1>6 DEF Retain, StagingTypeOK, NoLive
  <2>2. retained' \in Seq(Times)
    BY <1>1, <1>6, <2>1 DEF Retain, StagingTypeOK
  <2>3. StagingTypeOK'
    BY <1>1, <1>2, <1>6, <2>1, <2>2 DEF Retain, StagingTypeOK, redisVars
  <2> QED BY <1>6, <2>3, QuietStaging DEF Retain, NoneReads, StillAcks
<1>7. CASE FlushCycle \/ Drain
  <2>1. StagingTypeOK'
    BY <1>1, <1>2, <1>7 DEF FlushCycle, Drain, StagingTypeOK, redisVars
  <2> QED BY <1>7, <2>1, QuietStaging DEF FlushCycle, Drain, NoneReads, StillAcks
<1>8. CASE Drained
  <2>1. StagingTypeOK'
    BY <1>1, <1>2, <1>8 DEF Drained, Leaves, StagingTypeOK, redisVars
  <2> QED BY <1>8, <2>1, QuietStaging DEF Drained, Leaves, NoneReads, StillAcks
<1>9. CASE LoopWaits \/ LoopWakes \/ VendorOnline
  <2>1. StagingTypeOK' /\ UNCHANGED <<merge, emitting, redisVars, published>>
    BY <1>1, <1>2, <1>9 DEF LoopWaits, LoopWakes, VendorOnline, StagingTypeOK, redisVars, liveVars
  <2> QED BY <2>1, QuietStaging DEF NoneReads, StillAcks
<1> QED BY <1>3, <1>4, <1>5, <1>6, <1>7, <1>8, <1>9

LEMMA StageSteps ==
    ASSUME StagingInv, Stage, UNCHANGED history
    PROVE  StagingInv'
<1> DEFINE t == Head(retained)
<1>1. /\ StagingTypeOK /\ retained \in Seq(Times) /\ retained # <<>> /\ emitting = "stage"
      /\ UNCHANGED <<now, merge, published>> /\ UNCHANGED <<flushed, resent>>
  BY DEF StagingInv, StagingTypeOK, Stage, history
<1>2. t \in Times /\ Tail(retained) \in Seq(Times)
  BY <1>1, TailOf
<1>3. /\ retained' \in Seq(Times)
      /\ emitting' \in {"no", "stage"} /\ live' \in {live, NoLive}
      /\ StageScript(t) \/ UNCHANGED redisVars
  <2>1. CASE StageScript(t) /\ retained' = Tail(retained) /\ Emits("stage")
    BY <1>2, <2>1 DEF Emits
  <2>2. CASE (StageScript(t) \/ UNCHANGED redisVars) /\ UNCHANGED retained /\ Leaves
    BY <1>1, <2>2 DEF Leaves
  <2> QED BY <2>1, <2>2 DEF Stage
<1>4. window' \in Seq(Bars) /\ staged' \in 0..MaxTime /\ outbox' \in Seq(Times)
  <2>1. CASE UNCHANGED redisVars
    BY <1>1, <2>1 DEF redisVars, StagingTypeOK
  <2> HIDE DEF t
  <2>2. CASE StageScript(t)
    BY <1>2, <2>2, ScriptStages DEF StagingInv
  <2> QED BY <1>3, <2>1, <2>2
<1> HIDE DEF t
<1>5. StagingTypeOK'
  BY <1>1, <1>3, <1>4 DEF StagingTypeOK
<1>6. NoneReads /\ emitting' # "ack"
  BY <1>1, <1>3 DEF NoneReads
<1>7. CASE StageScript(t)
  BY <1>1, <1>2, <1>5, <1>6, <1>7, StageStep
<1>8. CASE UNCHANGED redisVars
  BY <1>1, <1>5, <1>6, <1>8, QuietStaging DEF StillAcks
<1> QED BY <1>3, <1>7, <1>8

LEMMA PublishSteps ==
    ASSUME StagingInv, Publish, UNCHANGED history
    PROVE  StagingInv'
<1>1. StagingTypeOK /\ outbox \in Seq(Times) /\ published \in Seq(Times) /\ outbox # <<>>
  BY DEF StagingInv, StagingTypeOK, Publish
<1>2. Head(outbox) \in Times
  BY <1>1, TailOf
<1>3. published' \in Seq(Times)
  BY <1>1, <1>2 DEF Publish
<1>4. emitting' \in {"no", "ack"} /\ live' \in {live, NoLive}
  BY DEF Publish, Emits, Leaves
<1>5. UNCHANGED <<now, retained, merge, window, staged, outbox, flushed, resent>>
  BY DEF Publish, redisVars, history
<1>6. StagingTypeOK'
  BY <1>1, <1>3, <1>4, <1>5 DEF StagingTypeOK
<1> QED BY <1>6, PublishStep

LEMMA AckSteps ==
    ASSUME StagingInv, \/ Ack /\ UNCHANGED history
                       \/ AckTwice /\ resent' = TRUE /\ UNCHANGED flushed
    PROVE  StagingInv'
<1>1. /\ StagingTypeOK /\ emitting = "ack" /\ emitting' \in {"no", "drain"} /\ live' \in {live, NoLive}
      /\ UNCHANGED <<now, retained, merge, window, staged, published, flushed>>
      /\ resent' \in BOOLEAN /\ (~resent' => ~resent /\ Ack)
  BY DEF StagingInv, StagingTypeOK, Ack, AckTwice, Emits, Leaves, history
<1>2. outbox # <<>>
  BY <1>1 DEF StagingInv, AckIsOfTheHead
<1>3. PICK d \in {0, 1, 2} : Popped(d) /\ (~resent' => d <= 1)
  <2>1. CASE Ack
    <3>1. outbox' = outbox \/ outbox' = Tail(outbox)
      BY <2>1 DEF Ack
    <3> QED BY <1>1, <1>2, <3>1, TakenOff
  <2>2. CASE AckTwice
    BY <1>1, <1>2, <2>2, TakenOff DEF AckTwice, Ack
  <2> QED BY <2>1, <2>2
<1>4. StagingTypeOK'
  BY <1>1, <1>3 DEF StagingTypeOK, Popped
<1> QED BY <1>1, <1>3, <1>4, PopStep

-----------------------------------------------------------------------------
LEMMA VendorSteps ==
    ASSUME StagingInv, UNCHANGED history,
           NEW m \in Mergers,
           Request(m) \/ VendorIsGone(m) \/ VendorRefuses(m) \/ Choose(m)
    PROVE  StagingInv'
<1>1. StagingTypeOK /\ merge[m] \in Merging
  BY DEF StagingInv, StagingTypeOK
<1>2. UNCHANGED <<now, liveVars, redisVars, published>> /\ UNCHANGED <<flushed, resent>>
  BY DEF Request, VendorIsGone, VendorRefuses, Choose, history
<1>3. merge' \in [Mergers -> Merging] /\ NoneReads
  <2>1. CASE UNCHANGED merge
    BY <1>1, <2>1 DEF StagingTypeOK, NoneReads
  <2>2. CASE MergeIs(m, Fetched(1..now))
    BY <1>1, <2>2, VendorTimes, FetchedIsMerge, MergeSet
  <2>3. CASE EndOfMerge(m)
    BY <1>1, <2>3, FetchedIsMerge, MergeSet DEF EndOfMerge
  <2>4. CASE Choose(m)
    <3> DEFINE changed == ChangedBars(merge[m].bars)
               rec == [merge[m] EXCEPT !.step = "chosen", !.bars = changed]
    <3>1. CASE EndOfMerge(m)
      BY <2>3, <3>1
    <3>2. CASE MergeIs(m, rec)
      <4>1. changed \in SUBSET Times
        BY <1>1 DEF ChangedBars, Merging
      <4> HIDE DEF changed
      <4>2. rec \in Merging /\ rec.step # "read"
        BY <1>1, <4>1 DEF Merging, Steps
      <4> QED BY <1>1, <3>2, <4>2, MergeSet
    <3> QED BY <2>4, <3>1, <3>2 DEF Choose
  <2> QED BY <2>1, <2>2, <2>3, <2>4 DEF Request, VendorIsGone, VendorRefuses
<1>4. StagingTypeOK'
  BY <1>1, <1>2, <1>3 DEF StagingTypeOK, liveVars, redisVars
<1> QED BY <1>2, <1>3, <1>4, QuietStaging DEF StillAcks, liveVars

LEMMA BatchSteps ==
    ASSUME StagingInv, UNCHANGED history, BatchComplete
    PROVE  StagingInv'
<1> DEFINE rec == [Fetched(1..now) EXCEPT !.step = "chosen"]
<1>1. /\ StagingTypeOK /\ MergeIs("batch", rec) /\ emitting' = "batch"
      /\ UNCHANGED <<now, live, retained, redisVars, published>> /\ UNCHANGED <<flushed, resent>>
  BY DEF StagingInv, BatchComplete, history
<1>2. Fetched(1..now) \in Merging
  BY <1>1, VendorTimes, FetchedIsMerge
<1>3. rec \in Merging /\ rec.step # "read"
  BY <1>2 DEF Merging, Steps
<1> HIDE DEF rec
<1>4. merge' \in [Mergers -> Merging] /\ NoneReads
  BY <1>1, <1>3, MergeSet DEF Mergers
<1>5. StagingTypeOK'
  BY <1>1, <1>4 DEF StagingTypeOK, redisVars
<1> QED BY <1>1, <1>4, <1>5, QuietStaging DEF StillAcks

LEMMA CrashSteps ==
    ASSUME StagingInv, UNCHANGED history, Crash
    PROVE  StagingInv'
<1>1. /\ StagingTypeOK /\ live' = NoLive /\ emitting' = "drain" /\ retained' = <<>>
      /\ merge' = [m \in Mergers |-> NoMerge]
      /\ UNCHANGED <<now, redisVars, published>> /\ UNCHANGED <<flushed, resent>>
  BY DEF StagingInv, Crash, history
<1>2. NoMerge \in Merging /\ NoMerge.step # "read"
  BY FetchedIsMerge
<1>3. merge' \in [Mergers -> Merging] /\ NoneReads
  BY <1>1, <1>2 DEF NoneReads
<1>4. <<>> \in Seq(Times)
  OBVIOUS
<1>5. StagingTypeOK'
  BY <1>1, <1>3, <1>4 DEF StagingTypeOK, redisVars
<1> QED BY <1>1, <1>3, <1>5, QuietStaging DEF StillAcks

LEMMA ReadSteps ==
    ASSUME StagingInv, UNCHANGED history, NEW m \in Mergers, ReadWindow(m)
    PROVE  StagingInv'
<1> DEFINE rec == [merge[m] EXCEPT !.step = "read", !.seen = window, !.mark = staged]
<1>1. /\ StagingTypeOK /\ MergeIs(m, rec) /\ merge[m] \in Merging
      /\ UNCHANGED <<now, liveVars, redisVars, published>> /\ UNCHANGED <<flushed, resent>>
  BY DEF StagingInv, StagingTypeOK, ReadWindow, history
<1>2. rec \in Merging
  BY <1>1 DEF StagingTypeOK, Merging, Steps
<1> HIDE DEF rec
<1>3. StagingTypeOK'
  BY <1>1, <1>2 DEF StagingTypeOK, MergeIs, liveVars, redisVars
<1> QED BY <1>3, ReadStep

\* A merge that has read the window swaps it or not, and goes on or ends.
LEMMA SwapSteps ==
    ASSUME StagingInv, UNCHANGED history, NEW m \in Mergers, Swapped(m) \/ NotSwapped(m) \/ SwapFails(m)
    PROVE  StagingInv'
<1>1. StagingTypeOK /\ merge[m] \in Merging /\ HasRead(m)
  BY DEF StagingInv, StagingTypeOK, HasRead, Swapped, NotSwapped, SwapFails
<1>2. /\ UNCHANGED <<now, live, retained, outbox, published>> /\ UNCHANGED <<flushed, resent>>
      /\ emitting' \in {emitting, "no"}
      /\ \/ Unmoved(merge[m].mark) /\ SwapScript(merge[m])
         \/ UNCHANGED <<window, staged>>
  BY DEF Swapped, NotSwapped, SwapFails, BatchEnds, history
<1>3. merge' \in [Mergers -> Merging] /\ NoneReads /\ ~HasRead(m)'
  <2>1. CASE EndOfMerge(m)
    BY <1>1, <2>1, FetchedIsMerge, MergeSet DEF EndOfMerge
  <2> DEFINE rec == [merge[m] EXCEPT !.step = "chosen", !.tries = @ + 1]
  <2>2. CASE MergeIs(m, rec)
    <3>1. merge[m].tries + 1 \in Nat
      BY <1>1 DEF Merging
    <3>2. rec \in Merging /\ rec.step # "read"
      BY <1>1, <3>1 DEF Merging, Steps
    <3> QED BY <1>1, <2>2, <3>2, MergeSet
  <2> QED BY <2>1, <2>2 DEF Swapped, NotSwapped, SwapFails
<1>4. window' \in Seq(Bars) /\ staged' \in 0..MaxTime
  <2>1. CASE UNCHANGED <<window, staged>>
    BY <1>1, <2>1 DEF StagingTypeOK
  <2>2. CASE SwapScript(merge[m])
    BY <1>1, <2>2, ScriptSwaps DEF StagingInv
  <2> QED BY <1>2, <2>1, <2>2
<1>5. StagingTypeOK' /\ StillAcks
  BY <1>1, <1>2, <1>3, <1>4 DEF StagingTypeOK, StillAcks
<1>6. CASE UNCHANGED <<window, staged>>
  BY <1>2, <1>3, <1>5, <1>6, QuietStaging DEF redisVars
<1>7. CASE Unmoved(merge[m].mark) /\ SwapScript(merge[m])
  BY <1>1, <1>2, <1>3, <1>5, <1>7, SwapStep
<1> QED BY <1>2, <1>6, <1>7

LEMMA FlushSteps ==
    ASSUME StagingInv, Flush, flushed' = TRUE, UNCHANGED resent
    PROVE  StagingInv'
<1>1. /\ StagingTypeOK /\ window' = <<>> /\ staged' = 0 /\ 0 \in 0..MaxTime /\ <<>> \in Seq(Bars)
      /\ UNCHANGED <<now, live, emitting, retained, merge, outbox, published>>
  BY BoundsAssumption DEF StagingInv, Flush, liveVars
<1>2. StagingTypeOK'
  BY <1>1 DEF StagingTypeOK
<1> QED BY <1>2, FlushStep

LEMMA StagingStep == StagingInv /\ [Next]_vars => StagingInv'
<1> SUFFICES ASSUME StagingInv, [Next]_vars PROVE StagingInv'
  OBVIOUS
<1>1. CASE UNCHANGED vars
  <2>1. /\ UNCHANGED <<now, live, emitting, retained, merge, redisVars, published, history>>
        /\ UNCHANGED <<window, staged, outbox, flushed, resent>>
    BY <1>1 DEF vars, memVars, liveVars, redisVars, history
  <2>2. StagingTypeOK'
    BY <2>1 DEF StagingInv, StagingTypeOK
  <2> QED BY <2>1, <2>2, QuietStaging DEF NoneReads, StillAcks
<1>2. CASE Flush /\ flushed' = TRUE /\ UNCHANGED resent
  BY <1>2, FlushSteps
<1>3. CASE AckTwice /\ resent' = TRUE /\ UNCHANGED flushed
  BY <1>3, AckSteps
<1>4. CASE Step /\ UNCHANGED history
  <2> USE <1>4
  <2>1. CASE \/ BucketEnds \/ (\E t \in Times : BarArrives(t)) \/ GapFilled \/ Retain
             \/ FlushCycle \/ Drain \/ Drained \/ LoopWaits \/ LoopWakes \/ VendorOnline
    BY <2>1, LiveSteps
  <2>2. CASE Stage
    BY <2>2, StageSteps
  <2>3. CASE Publish
    BY <2>3, PublishSteps
  <2>4. CASE Ack
    BY <2>4, AckSteps
  <2>5. CASE BatchComplete
    BY <2>5, BatchSteps
  <2>6. CASE Crash
    BY <2>6, CrashSteps
  <2>7. CASE \E m \in {"loop", "asked"} : Request(m)
    BY <2>7, VendorSteps DEF Mergers
  <2>8. ASSUME NEW m \in Mergers, Merge(m) PROVE StagingInv'
    BY <2>8, VendorSteps, ReadSteps, SwapSteps DEF Merge
  <2> QED BY <2>1, <2>2, <2>3, <2>4, <2>5, <2>6, <2>7, <2>8 DEF Step
<1> QED BY <1>1, <1>2, <1>3, <1>4 DEF Next

-----------------------------------------------------------------------------
LEMMA InvAlways == Spec => []StagingInv
BY StagingStart, StagingStep, PTL DEF Spec

(* The types of the state, for any length of the window and any number of buckets.      *)
THEOREM StagingTypeCorrect == Spec => []StagingTypeOK
<1>1. StagingInv => StagingTypeOK
  BY DEF StagingInv
<1> QED BY <1>1, InvAlways, PTL

(* The window in Redis is always a series no newer than its watermark, and the closes   *)
(* that go out never go back in time, until an operator empties the window              *)
(* (redis_state.py stage_closed_candle, merge_history_candles).                         *)
THEOREM HistoryOrdered == Spec => []HistoryIsOrdered
<1>1. StagingInv => HistoryIsOrdered
  BY DEF StagingInv, HistoryIsOrdered
<1> QED BY <1>1, InvAlways, PTL

(* No close that reached the window by the live path is lost before it is published,    *)
(* whatever fails, crashes, is flushed or merged (service.py _drain_candle_outbox),     *)
(* until the client sends a pop twice.                                                  *)
THEOREM ClosesAnnounced == Spec => []ClosesAreAnnounced
<1>1. StagingInv => ClosesAreAnnounced
  <2> SUFFICES ASSUME StagingInv, ~resent, NEW b \in Elements(window), b.by = "live"
                      PROVE  b.t \in Announced
    BY DEF ClosesAreAnnounced, Announced
  <2>1. b.t \in LiveTimes(window)
    BY DEF LiveTimes
  <2> QED BY <2>1 DEF StagingInv, AllAnnounced
<1> QED BY <1>1, InvAlways, PTL

-----------------------------------------------------------------------------
LEMMA WindowUnchanged == UNCHANGED window => KeepsCloses
<1> SUFFICES ASSUME UNCHANGED window, NEW b \in Elements(window), b.by = "live"
             PROVE  Covers(window', b.t)
  BY DEF KeepsCloses
<1>1. b.t \in TimesOf(window)
  BY DEF TimesOf, Elements
<1> QED BY <1>1 DEF Covers

LEMMA RetainedUnchanged == UNCHANGED retained => KeepsRetained
BY DEF KeepsRetained

\* A script run for a live bar, or for a merge, costs no close.
LEMMA ScriptsKeepCloses ==
    ASSUME StagingInv, ~flushed,
           \/ \E t \in Times : StageScript(t)
           \/ \E m \in Mergers : HasRead(m) /\ Unmoved(merge[m].mark) /\ SwapScript(merge[m])
    PROVE  KeepsCloses
<1> SUFFICES ASSUME NEW b \in Elements(window), b.by = "live"
             PROVE  Covers(window', b.t)
  BY DEF KeepsCloses
<1>1. b.t \in TimesOf(window) /\ b.t \in LiveTimes(window)
  BY DEF TimesOf, Elements, LiveTimes
<1>2. b.t \in Times
  <2>1. window \in Seq(Bars)
    BY DEF StagingInv, StagingTypeOK
  <2> QED BY <1>1, <2>1, NewestIsLast
<1>3. CASE \E t \in Times : StageScript(t)
  BY <1>1, <1>2, <1>3, ScriptStages DEF StagingInv
<1>4. ASSUME NEW m \in Mergers, HasRead(m), Unmoved(merge[m].mark), SwapScript(merge[m])
      PROVE  Covers(window', b.t)
  <2>1. window \in Snapshots /\ merge[m].seen \in Snapshots
    BY <1>4 DEF Snapshots, Unmoved
  <2>2. Covers(merge[m].seen, b.t)
    BY <1>1, <2>1 DEF StagingInv, SnapshotsAgree, Agree
  <2> QED BY <1>2, <1>4, <2>2, ScriptSwaps DEF StagingInv
<1> QED BY <1>3, <1>4

LEMMA StageKeepsCloses ==
    ASSUME StagingInv, Stage, UNCHANGED history
    PROVE  KeepsRetained /\ (~flushed' => KeepsCloses)
<1> DEFINE t == Head(retained)
<1>1. /\ retained \in Seq(Times) /\ retained # <<>> /\ flushed' = flushed
      /\ t \in Times /\ Elements(retained) = Elements(Tail(retained)) \cup {t}
  <2>1. retained \in Seq(Times) /\ retained # <<>> /\ flushed' = flushed
    BY DEF StagingInv, StagingTypeOK, Stage, history
  <2> QED BY <2>1, TailOf
<1>2. StageScript(t) \/ UNCHANGED redisVars
  BY DEF Stage
<1>3. KeepsRetained
  <2>1. CASE UNCHANGED retained
    BY <2>1, RetainedUnchanged
  <2>2. CASE StageScript(t) /\ retained' = Tail(retained)
    <3> HIDE DEF t
    <3>1. t <= staged'
      BY <1>1, <2>2, ScriptStages DEF StagingInv
    <3> QED BY <1>1, <2>2, <3>1 DEF KeepsRetained
  <2> QED BY <2>1, <2>2 DEF Stage
<1> HIDE DEF t
<1>4. ~flushed' => KeepsCloses
  BY <1>1, <1>2, ScriptsKeepCloses, WindowUnchanged DEF redisVars
<1> QED BY <1>3, <1>4

LEMMA StepKeepsCloses == StagingInv /\ [Next]_vars => KeepsRetained /\ (~flushed' => KeepsCloses)
<1> SUFFICES ASSUME StagingInv, [Next]_vars PROVE KeepsRetained /\ (~flushed' => KeepsCloses)
  OBVIOUS
<1>1. CASE UNCHANGED vars
  <2>1. UNCHANGED <<retained, window>>
    BY <1>1 DEF vars, memVars, liveVars, redisVars
  <2> QED BY <2>1, WindowUnchanged, RetainedUnchanged
<1>2. CASE Flush /\ flushed' = TRUE
  <2>1. UNCHANGED retained
    BY <1>2 DEF Flush, liveVars
  <2> QED BY <1>2, <2>1, RetainedUnchanged
<1>3. CASE AckTwice
  <2>1. UNCHANGED <<retained, window>>
    BY <1>3 DEF AckTwice
  <2> QED BY <2>1, WindowUnchanged, RetainedUnchanged
<1>4. CASE Step /\ UNCHANGED history
  <2> USE <1>4
  <2>1. CASE \/ BucketEnds \/ (\E t \in Times : BarArrives(t)) \/ GapFilled
             \/ FlushCycle \/ Drain \/ Publish \/ Ack \/ Drained \/ LoopWaits \/ LoopWakes
             \/ VendorOnline \/ BatchComplete \/ (\E m \in {"loop", "asked"} : Request(m))
    <3>1. UNCHANGED <<retained, window>>
      BY <2>1 DEF BucketEnds, BarArrives, GapFilled, FlushCycle, Drain, Publish, Ack, Drained,
                  LoopWaits, LoopWakes, VendorOnline, BatchComplete, Request, memVars, liveVars,
                  redisVars
    <3> QED BY <3>1, WindowUnchanged, RetainedUnchanged
  <2>2. CASE Retain
    <3>1. window' = window /\ retained \in Seq(Times)
      BY <2>2 DEF Retain, redisVars, StagingInv, StagingTypeOK
    <3>2. live.t \in Times
      BY <2>2 DEF Retain, StagingInv, StagingTypeOK, NoLive
    <3>3. Elements(retained) \subseteq Elements(retained')
      <4>1. CASE retained' = retained
        BY <4>1
      <4>2. CASE retained' = Append(retained, live.t)
        BY <3>1, <3>2, <4>2, Appended
      <4> QED BY <2>2, <4>1, <4>2 DEF Retain
    <3> QED BY <3>1, <3>3, WindowUnchanged DEF KeepsRetained
  <2>3. CASE Stage
    BY <2>3, StageKeepsCloses
  <2>4. CASE Crash
    <3>1. window' = window /\ emitting' = "drain"
      BY <2>4 DEF Crash, redisVars
    <3> QED BY <3>1, WindowUnchanged DEF KeepsRetained
  <2>5. ASSUME NEW m \in Mergers, Merge(m)
        PROVE  KeepsRetained /\ (~flushed' => KeepsCloses)
    <3>1. CASE VendorIsGone(m) \/ VendorRefuses(m) \/ Choose(m) \/ ReadWindow(m)
      <4>1. UNCHANGED <<retained, window>>
        BY <3>1 DEF VendorIsGone, VendorRefuses, Choose, ReadWindow, liveVars, redisVars
      <4> QED BY <4>1, WindowUnchanged, RetainedUnchanged
    <3>2. CASE Swapped(m) \/ NotSwapped(m) \/ SwapFails(m)
      <4>1. /\ UNCHANGED retained /\ HasRead(m) /\ flushed' = flushed
            /\ \/ Unmoved(merge[m].mark) /\ SwapScript(merge[m])
               \/ UNCHANGED window
        BY <3>2 DEF Swapped, NotSwapped, SwapFails, HasRead, history
      <4> QED BY <4>1, RetainedUnchanged, WindowUnchanged, ScriptsKeepCloses
    <3> QED BY <2>5, <3>1, <3>2 DEF Merge
  <2> QED BY <2>1, <2>2, <2>3, <2>4, <2>5 DEF Step
<1> QED BY <1>1, <1>2, <1>3, <1>4 DEF Next

(* A close leaves memory only once Redis has accepted it, and the window only because    *)
(* newer bars fill it: no merge, however many run beside the live path and whatever they *)
(* read, costs a close that was staged while it ran (redis_state.py                      *)
(* merge_history_candles), until an operator empties the window.                         *)
THEOREM ClosesKept == Spec => ClosesAreKept
<1>1. StagingInv /\ [Next]_vars => [KeepsRetained /\ (~flushed' => KeepsCloses)]_vars
  BY StepKeepsCloses
<1> QED BY <1>1, InvAlways, PTL DEF Spec, ClosesAreKept
-----------------------------------------------------------------------------
(* The archive, for any number of processes, requests and days: unless a   *)
(* writer replaced the file, died in it, overlapped another or could not   *)
(* read it, the file holds every day a finished write has put there.  A    *)
(* writer starts from the whole file, and nobody else moves the file       *)
(* between its read and its write.                                         *)
Days == 0..LastDay
Places == {"idle", "asked", "answered", "loaded", "writing"}
Kinds == {"none", "warm", "topUp", "merge", "replace"}
Work == [at : Places, kind : Kinds, range : {0} \cup Requests,
         got : SUBSET Days, base : SUBSET Days]

ArchiveTypeOK ==
    /\ file \in [state : {"absent", "whole", "broken", "torn"}, bars : SUBSET Days]
    /\ work \in [Archive!Procs -> Work]
    /\ asks \in Int
    /\ saved \in SUBSET Days
    /\ clean \in BOOLEAN
    /\ replies \in [Archive!Procs \cup Readers ->
                                      {"none", "warm", "topUp", "bars", "vendor", "refused"}]

Writes(p) == work[p].at \in {"loaded", "writing"}
OnDisk == IF file.state = "whole" THEN file.bars ELSE {}

\* While all is clean one process at a time is between the read and the end of the
\* write, it has read all that was saved, and it is not replacing the file.
OneWriter ==
    clean =>
        /\ \A p \in Archive!Procs : Writes(p) =>
              /\ work[p].kind # "replace"
              /\ work[p].base = saved
              /\ \A q \in Archive!Procs : Writes(q) => q = p
        /\ \A p \in Archive!Procs : work[p].at = "writing" => file.state = "broken"
        /\ (\A p \in Archive!Procs : work[p].at # "writing") => saved = OnDisk

\* Without pyarrow nothing is written; only a warming start is answered from the file.
Served ==
    /\ \A p \in Archive!Procs : work[p].at \in {"answered", "loaded", "writing"} => HasParquet
    /\ \A p \in Archive!Procs \cup Readers : replies[p] # "topUp"

ArchiveInv == ArchiveTypeOK /\ OneWriter /\ Served

-----------------------------------------------------------------------------
LEMMA BetweenIsSubset ==
    ASSUME NEW days, NEW from, NEW to
    PROVE  Archive!Between(days, from, to) \subseteq days
BY DEF Archive!Between

LEMMA ArchiveStart == Archive!Init => ArchiveInv
BY DEF Archive!Init, ArchiveInv, ArchiveTypeOK, OneWriter, Served, Writes, OnDisk, Archive!Idle, Work, Places, Kinds, Days

(* A process that finishes becomes idle and is told one thing. *)
LEMMA FinishType ==
    ASSUME ArchiveTypeOK, NEW p \in Archive!Procs, NEW reply \in {"none", "warm", "vendor", "refused"},
           Archive!Finish(p, reply)
    PROVE  /\ work' \in [Archive!Procs -> Work]
           /\ replies' \in [Archive!Procs \cup Readers ->
                                       {"none", "warm", "topUp", "bars", "vendor", "refused"}]
           /\ work'[p].at = "idle"
           /\ \A q \in Archive!Procs : q # p => work'[q] = work[q]
           /\ Served => \A q \in Archive!Procs \cup Readers : replies'[q] # "topUp"
<1>1. Archive!Idle \in Work /\ Archive!Idle.at = "idle"
  BY DEF Archive!Idle, Work, Places, Kinds
<1> QED BY <1>1 DEF Archive!Finish, ArchiveTypeOK, Served

(* Whatever leaves the file alone and begins no write keeps the invariant, and a *)
(* process that gives up while it has only read disturbs nobody.                 *)
LEMMA QuietArchive ==
    ASSUME ArchiveInv, ArchiveTypeOK', UNCHANGED <<file, saved>>, clean' \in BOOLEAN, clean' => clean,
           NEW p \in Archive!Procs,
           work'[p].at \notin {"loaded", "writing"},
           clean' => work[p].at # "writing",
           \A q \in Archive!Procs : q # p => work'[q] = work[q]
    PROVE  OneWriter'
<1> SUFFICES ASSUME clean' PROVE OneWriter'
  BY DEF OneWriter
<1>1. clean /\ OneWriter
  BY DEF ArchiveInv
<1>2. \A q \in Archive!Procs : Writes(q)' => Writes(q) /\ q # p /\ work'[q] = work[q]
  BY DEF Writes
<1>3. \A q \in Archive!Procs : work'[q].at = "writing" <=> work[q].at = "writing"
  OBVIOUS
<1>4. OnDisk' = OnDisk
  BY DEF OnDisk
<1> QED BY <1>1, <1>2, <1>3, <1>4 DEF OneWriter

-----------------------------------------------------------------------------
LEMMA AskKeepsInv ==
    ASSUME ArchiveInv, NEW p \in Archive!Procs, NEW kind \in {"warm", "topUp", "merge", "replace"},
           NEW r \in Requests, Archive!Ask(p, kind, r)
    PROVE  ArchiveInv'
<1> DEFINE Asked == /\ UNCHANGED replies
                   /\ work' = [work EXCEPT ![p] = [Archive!Idle EXCEPT !.at = "asked", !.kind = kind,
                                                                       !.range = r]]
<1>1. CASE Archive!MayUseCache(kind) /\ Archive!Finish(p, kind)
  <2>1. kind = "warm" /\ Archive!Finish(p, "warm") /\ work[p].at = "idle"
    BY <1>1 DEF Archive!Ask, Archive!MayUseCache
  <2>2. ArchiveTypeOK' /\ Served'
    BY <2>1, FinishType DEF ArchiveInv, ArchiveTypeOK, Served, Archive!Ask
  <2> QED BY <2>1, <2>2, FinishType, QuietArchive DEF ArchiveInv, ArchiveTypeOK, Archive!Ask
<1>2. CASE Asked
  <2>1. /\ work[p].at = "idle" /\ UNCHANGED <<file, saved, clean, replies>>
        /\ work' = [work EXCEPT ![p] = [Archive!Idle EXCEPT !.at = "asked", !.kind = kind, !.range = r]]
        /\ asks' = asks + 1
    BY <1>2 DEF Archive!Ask
  <2>2. /\ [Archive!Idle EXCEPT !.at = "asked", !.kind = kind, !.range = r] \in Work
        /\ [Archive!Idle EXCEPT !.at = "asked", !.kind = kind, !.range = r].at = "asked"
    BY DEF Archive!Idle, Work, Places, Kinds
  <2>3. /\ ArchiveTypeOK' /\ Served' /\ work'[p].at = "asked"
        /\ \A q \in Archive!Procs : q # p => work'[q] = work[q]
    BY <2>1, <2>2 DEF ArchiveInv, ArchiveTypeOK, Served
  <2> QED BY <2>1, <2>3, QuietArchive DEF ArchiveInv, ArchiveTypeOK
<1> QED BY <1>1, <1>2 DEF Archive!Ask

LEMMA AnswerKeepsInv ==
    ASSUME ArchiveInv, NEW p \in Archive!Procs, Archive!Answer(p)
    PROVE  ArchiveInv'
<1>1. PICK upTo : LET got == Archive!Between(Days, work[p].range.from, upTo)
                  IN IF got = {} \/ ~HasParquet
                     THEN Archive!Finish(p, IF p \in Warmers THEN "vendor" ELSE "refused")
                     ELSE /\ work' = [work EXCEPT ![p].at = "answered", ![p].got = got]
                          /\ UNCHANGED replies
  BY DEF Archive!Answer, Days
<1> DEFINE got == Archive!Between(Days, work[p].range.from, upTo)
<1>2. UNCHANGED <<file, asks, saved, clean>> /\ work[p].at = "asked"
  BY DEF Archive!Answer
<1>3. CASE got = {} \/ ~HasParquet
  <2>1. PICK reply \in {"none", "warm", "vendor", "refused"} : Archive!Finish(p, reply)
    BY <1>1, <1>3
  <2>2. ArchiveTypeOK' /\ Served'
    BY <1>2, <2>1, FinishType DEF ArchiveInv, ArchiveTypeOK, Served
  <2> QED BY <1>2, <2>1, <2>2, FinishType, QuietArchive DEF ArchiveInv, ArchiveTypeOK
<1>4. CASE ~(got = {} \/ ~HasParquet)
  <2>1. got \in SUBSET Days
    BY BetweenIsSubset
  <2>2. HasParquet /\ UNCHANGED replies
        /\ work' = [work EXCEPT ![p].at = "answered", ![p].got = got]
    BY <1>1, <1>4
  <2> HIDE DEF got
  <2>3. /\ ArchiveTypeOK' /\ Served' /\ work'[p].at = "answered"
        /\ \A q \in Archive!Procs : q # p => work'[q] = work[q]
    <3>1. work' = [work EXCEPT ![p] = [work[p] EXCEPT !.at = "answered", !.got = got]]
      BY <2>2 DEF ArchiveInv, ArchiveTypeOK
    <3>2. /\ [work[p] EXCEPT !.at = "answered", !.got = got] \in Work
          /\ [work[p] EXCEPT !.at = "answered", !.got = got].at = "answered"
      BY <2>1 DEF ArchiveInv, ArchiveTypeOK, Work, Places
    <3> QED BY <1>2, <2>2, <3>1, <3>2 DEF ArchiveInv, ArchiveTypeOK, Served
  <2> QED BY <1>2, <2>3, QuietArchive DEF ArchiveInv, ArchiveTypeOK
<1> QED BY <1>3, <1>4

LEMMA LoadKeepsInv ==
    ASSUME ArchiveInv, NEW p \in Archive!Procs, Archive!Load(p)
    PROVE  ArchiveInv'
<1>1. /\ work[p].at = "answered" /\ HasParquet
      /\ work' = [work EXCEPT ![p].at = "loaded", ![p].base = Archive!Base(work[p])]
      /\ clean' = (clean /\ Archive!Others(p) = {} /\ work[p].kind # "replace")
      /\ UNCHANGED <<file, asks, saved, replies>>
  BY DEF Archive!Load, ArchiveInv, Served
<1>2. Archive!Base(work[p]) \in SUBSET Days
  BY DEF Archive!Base, Archive!Held, ArchiveInv, ArchiveTypeOK
<1>3. /\ ArchiveTypeOK' /\ Served'
      /\ work'[p].at = "loaded" /\ work'[p].base = Archive!Base(work[p])
      /\ work'[p].kind = work[p].kind
      /\ \A q \in Archive!Procs : q # p => work'[q] = work[q]
  BY <1>1, <1>2 DEF ArchiveInv, ArchiveTypeOK, Served, Work, Places
<1>4. OneWriter'
  <2> SUFFICES ASSUME clean' PROVE OneWriter'
    BY DEF OneWriter
  <2>1. clean /\ work[p].kind # "replace" /\ \A q \in Archive!Procs : q # p => ~Writes(q)
    BY <1>1 DEF Archive!Others, Writes
  <2>2. \A q \in Archive!Procs : work[q].at # "writing" /\ work'[q].at # "writing"
    BY <1>1, <1>3, <2>1 DEF Writes
  <2>3. saved = OnDisk /\ saved' = OnDisk'
    BY <1>1, <2>1, <2>2 DEF ArchiveInv, OneWriter, OnDisk
  <2>4. work'[p].base = saved' /\ work'[p].kind # "replace"
    BY <1>1, <1>3, <2>1, <2>3 DEF Archive!Base, Archive!Held, OnDisk
  <2>5. \A q \in Archive!Procs : Writes(q)' => q = p
    BY <1>3, <2>1 DEF Writes
  <2> QED BY <2>2, <2>3, <2>4, <2>5 DEF OneWriter
<1> QED BY <1>3, <1>4 DEF ArchiveInv

(* A writer that could not read what is there starts from nothing, and not cleanly. *)
LEMMA LoadFailsKeepsInv ==
    ASSUME ArchiveInv, NEW p \in Archive!Procs, Archive!LoadFails(p)
    PROVE  ArchiveInv'
<1>1. /\ work[p].at = "answered" /\ HasParquet
      /\ work' = [work EXCEPT ![p].at = "loaded", ![p].base = {}]
      /\ ~clean'
      /\ UNCHANGED <<file, asks, saved, replies>>
  BY DEF Archive!LoadFails, ArchiveInv, Served
<1>2. clean' \in BOOLEAN
  BY DEF Archive!LoadFails
<1>3. /\ ArchiveTypeOK' /\ Served'
      /\ work'[p].at = "loaded" /\ work'[p].base = {}
      /\ \A q \in Archive!Procs : q # p => work'[q] = work[q]
  BY <1>1, <1>2 DEF ArchiveInv, ArchiveTypeOK, Served, Work, Places
<1> QED BY <1>1, <1>3 DEF ArchiveInv, OneWriter

LEMMA OpenFileKeepsInv ==
    ASSUME ArchiveInv, NEW p \in Archive!Procs, Archive!OpenFile(p)
    PROVE  ArchiveInv'
<1>1. /\ work[p].at = "loaded"
      /\ work' = [work EXCEPT ![p].at = "writing"]
      /\ file' = [state |-> IF \E q \in Archive!Procs : work[q].at = "writing"
                            THEN "torn" ELSE "broken", bars |-> {}]
      /\ UNCHANGED <<asks, saved, clean, replies>>
  BY DEF Archive!OpenFile
<1>2. /\ ArchiveTypeOK' /\ Served'
      /\ work'[p].at = "writing" /\ work'[p].base = work[p].base
      /\ work'[p].kind = work[p].kind
      /\ \A q \in Archive!Procs : q # p => work'[q] = work[q]
  BY <1>1 DEF ArchiveInv, ArchiveTypeOK, Served, Work, Places
<1>3. OneWriter'
  <2> SUFFICES ASSUME clean' PROVE OneWriter'
    BY DEF OneWriter
  <2>1. Writes(p) /\ clean /\ \A q \in Archive!Procs : Writes(q) => q = p
    BY <1>1 DEF ArchiveInv, OneWriter, Writes
  <2>2. file'.state = "broken"
    BY <1>1, <2>1 DEF Writes
  <2>3. \A q \in Archive!Procs : Writes(q)' => q = p
    BY <1>2, <2>1 DEF Writes
  <2>4. work'[p].kind # "replace" /\ work'[p].base = saved'
    BY <1>1, <1>2, <2>1 DEF ArchiveInv, OneWriter
  <2> QED BY <1>2, <2>2, <2>3, <2>4 DEF OneWriter
<1> QED BY <1>2, <1>3 DEF ArchiveInv

(* The one writer leaves what was saved and what it was given. *)
LEMMA CloseFileKeepsInv ==
    ASSUME ArchiveInv, NEW p \in Archive!Procs, Archive!CloseFile(p)
    PROVE  ArchiveInv'
<1> DEFINE union == Archive!merge_frames(work[p].base, work[p].got)
<1>1. /\ work[p].at = "writing"
      /\ \/ file' = [state |-> "whole", bars |-> union]
         \/ file.state # "broken" /\ file' = [state |-> "torn", bars |-> {}]
      /\ saved' = IF work[p].kind = "replace" THEN union ELSE saved \cup union
      /\ Archive!Finish(p, "vendor")
      /\ UNCHANGED <<asks, clean>>
  BY DEF Archive!CloseFile
<1>2. union \in SUBSET Days
  BY DEF Archive!merge_frames, ArchiveInv, ArchiveTypeOK, Work
<1>3. /\ work'[p].at = "idle" /\ \A q \in Archive!Procs : q # p => work'[q] = work[q]
      /\ ArchiveTypeOK' /\ Served'
  <2> HIDE DEF union
  <2> QED BY <1>1, <1>2, FinishType DEF ArchiveInv, ArchiveTypeOK, Served
<1>4. OneWriter'
  <2> SUFFICES ASSUME clean' PROVE OneWriter'
    BY DEF OneWriter
  <2>1. /\ clean /\ Writes(p) /\ work[p].kind # "replace" /\ work[p].base = saved
        /\ file.state = "broken" /\ \A q \in Archive!Procs : Writes(q) => q = p
    BY <1>1 DEF ArchiveInv, OneWriter, Writes
  <2>2. \A q \in Archive!Procs : ~Writes(q)'
    BY <1>3, <2>1 DEF Writes
  <2>3. file' = [state |-> "whole", bars |-> union] /\ saved' = saved \cup union
    BY <1>1, <2>1
  <2>4. saved' = OnDisk'
    BY <2>1, <2>3 DEF OnDisk, Archive!merge_frames
  <2> QED BY <2>2, <2>4 DEF OneWriter, Writes
<1> QED BY <1>3, <1>4 DEF ArchiveInv

(* A process that gives up, fails or dies; after a write has begun, not cleanly. *)
LEMMA GivingUpKeepsInv ==
    ASSUME ArchiveInv, NEW p \in Archive!Procs, Archive!VendorRaises(p) \/ Archive!WriteFails(p) \/ Archive!Dies(p)
    PROVE  ArchiveInv'
<1>1. PICK reply \in {"none", "warm", "vendor", "refused"} : Archive!Finish(p, reply)
  BY DEF Archive!VendorRaises, Archive!WriteFails, Archive!Dies
<1>2. /\ UNCHANGED <<file, asks, saved>> /\ clean' \in BOOLEAN /\ (clean' => clean)
      /\ clean' => work[p].at # "writing"
  <2>1. clean \in BOOLEAN
    BY DEF ArchiveInv, ArchiveTypeOK
  <2>2. CASE Archive!VendorRaises(p)
    BY <2>1, <2>2 DEF Archive!VendorRaises
  <2>3. CASE Archive!WriteFails(p)
    BY <2>1, <2>3 DEF Archive!WriteFails
  <2>4. CASE Archive!Dies(p)
    BY <2>1, <2>4 DEF Archive!Dies
  <2> QED BY <2>2, <2>3, <2>4
<1>3. ArchiveTypeOK' /\ Served'
  BY <1>1, <1>2, FinishType DEF ArchiveInv, ArchiveTypeOK, Served
<1>4. OneWriter'
  BY <1>1, <1>2, <1>3, FinishType, QuietArchive DEF ArchiveInv
<1> QED BY <1>3, <1>4 DEF ArchiveInv

LEMMA ReplayKeepsInv ==
    ASSUME ArchiveInv, NEW b \in Readers, Archive!Replay(b)
    PROVE  ArchiveInv'
BY DEF Archive!Replay, ArchiveInv, ArchiveTypeOK, OneWriter, Served, Writes, OnDisk

LEMMA ArchiveStep == ArchiveInv /\ [Archive!Next]_Archive!vars => ArchiveInv'
<1> SUFFICES ASSUME ArchiveInv, [Archive!Next]_Archive!vars PROVE ArchiveInv'
  OBVIOUS
<1>1. CASE \E p \in Archive!Procs : \E kind \in {"warm", "topUp", "merge", "replace"},
                                       r \in Requests : Archive!Ask(p, kind, r)
  BY <1>1, AskKeepsInv
<1>2. CASE \E p \in Archive!Procs : Archive!Answer(p)
  BY <1>2, AnswerKeepsInv
<1>3. CASE \E p \in Archive!Procs : Archive!Load(p)
  BY <1>3, LoadKeepsInv
<1>4. CASE \E p \in Archive!Procs : Archive!OpenFile(p)
  BY <1>4, OpenFileKeepsInv
<1>5. CASE \E p \in Archive!Procs : Archive!CloseFile(p)
  BY <1>5, CloseFileKeepsInv
<1>6. CASE \E p \in Archive!Procs : Archive!VendorRaises(p) \/ Archive!WriteFails(p) \/ Archive!Dies(p)
  BY <1>6, GivingUpKeepsInv
<1>7. CASE \E b \in Readers : Archive!Replay(b)
  BY <1>7, ReplayKeepsInv
<1>9. CASE \E p \in Archive!Procs : Archive!LoadFails(p)
  BY <1>9, LoadFailsKeepsInv
<1>8. CASE UNCHANGED Archive!vars
  BY <1>8 DEF Archive!vars, ArchiveInv, ArchiveTypeOK, OneWriter, Served, Writes, OnDisk
<1> QED BY <1>1, <1>2, <1>3, <1>4, <1>5, <1>6, <1>7, <1>8, <1>9 DEF Archive!Next

-----------------------------------------------------------------------------
(* Every day a finished write has put in the file stays there, for any     *)
(* number of services, downloads and readers and any answers of the        *)
(* vendor, unless a file is replaced, a writer dies in it, two overlap or  *)
(* one cannot read a file that reads (history_cache.py load, _write); and  *)
(* a top-up is never answered from it.                                     *)
THEOREM ArchiveGrows == Archive!Spec => []Archive!ArchiveOnlyGrows
<1>1. ArchiveInv => Archive!ArchiveOnlyGrows
  BY DEF ArchiveInv, OneWriter, Served, Archive!ArchiveOnlyGrows, OnDisk, Archive!Procs
<1> QED BY <1>1, ArchiveStart, ArchiveStep, PTL DEF Archive!Spec
-----------------------------------------------------------------------------
(* Ticks and bars, for any timeframes and any run of quotes, crashes,      *)
(* failed calls and flushes.  A bucket is spent once: what the resampler   *)
(* has under way is ahead of all that was staged, and what it retired is   *)
(* behind _last_closed.  A bar is true because a bar that may lack a quote *)
(* is partial, and a quote survives because Redis always has a bar that    *)
(* the service still has, or one behind the watermark.                     *)
BarsUnderWay == [at : Nat, heard : SUBSET Nat, last : Int, partial : BOOLEAN]
BarsSpent == [tf : Timeframes, at : Nat, heard : SUBSET Nat, last : Int, partial : BOOLEAN,
              whole : BOOLEAN, current : BOOLEAN, repaired : BOOLEAN]

MarketType ==
    /\ clock \in Nat
    /\ quotes \subseteq Nat
    /\ service \in {"down", "starting", "up"}
    /\ listening \in BOOLEAN
    /\ flying \subseteq Nat
    /\ missed \subseteq Nat
    /\ silent \subseteq Nat
    /\ deaf \subseteq Nat
ResamplerType ==
    /\ builders \in [Timeframes -> {NoBar} \cup BarsUnderWay]
    /\ lastClosed \in [Timeframes -> {Never} \cup Nat]
    /\ joined \in {Never} \cup Nat
    /\ retired \subseteq BarsSpent
LockType ==
    /\ holder \in {"nobody", "tick", "clock", "start"}
    /\ step \in {"idle", "before", "work", "after", "persist", "backfill", "join"}
    /\ inHand \in {Never} \cup Nat
    /\ unsaved \subseteq Timeframes
    /\ failed \in BOOLEAN
    /\ flushing \in [left : SUBSET Timeframes, moment : {Never} \cup Nat]
    /\ crashes \in Nat /\ faults \in Nat /\ flushes \in Nat
RedisType ==
    /\ openBar \in [Timeframes -> {NoBar} \cup BarsUnderWay]
    /\ mark \in [Timeframes -> {Never} \cup Nat]
    /\ closes \subseteq BarsSpent
    /\ kept \in [Timeframes -> SUBSET Nat]
TicksTypeOK == MarketType /\ ResamplerType /\ LockType /\ RedisType

\* Who is at which step, and what a service that is not up does not have.
InOneHand ==
    /\ holder = "nobody" <=> step = "idle"
    /\ holder = "tick" => step \in {"before", "work", "after", "persist"}
    /\ holder = "clock" => step \in {"before", "work", "after"}
    /\ holder = "start" => step \in {"after", "backfill", "join"}
    /\ (holder = "tick") <=> (inHand # Never)
    /\ (holder = "start") <=> (service = "starting")
    /\ service # "up" => flying = {} /\ ~listening /\ flushing = NoFlush
    /\ service = "down" => /\ holder = "nobody" /\ retired = {}
                           /\ \A tf \in Timeframes : builders[tf] = NoBar
    /\ step \in {"work", "backfill", "join"} => retired = {}
    /\ service = "up" => joined # Never
    /\ flushing # NoFlush => flushing.moment # Never /\ flushes > 0

\* Nothing is of the future, and a bar holds quotes of its bucket only.
InHand == {inHand} \ {Never}
Coming == flying \cup InHand
Holds(tf, bar) == bar # NoBar =>
    bar.heard # {} /\ \A t \in bar.heard : t \in quotes /\ Bucket(t, tf) = bar.at
OfThePast ==
    /\ \A t \in quotes \cup missed \cup silent \cup deaf : t <= clock
    /\ Coming \subseteq quotes
    /\ \A tf \in Timeframes : Holds(tf, builders[tf]) /\ Holds(tf, openBar[tf])
    /\ \A bar \in retired \cup closes : End(bar.at, bar.tf) <= clock /\ Holds(bar.tf, bar)
    /\ \A tf \in Timeframes : mark[tf] # Never => End(mark[tf], tf) <= clock

\* at is ahead of every bar staged.
Ahead(at, tf) == \A bar \in closes : bar.tf = tf => bar.at < at

\* service.py: "a batch never holds two bars of one symbol and timeframe".
OneOfASeries == \A a, b \in retired : a.tf = b.tf => a = b

BucketsAreSpent ==
    /\ \A tf \in Timeframes : builders[tf] # NoBar =>
          Ahead(builders[tf].at, tf) /\ lastClosed[tf] < builders[tf].at
    /\ \A tf \in Timeframes : openBar[tf] # NoBar =>
          Ahead(openBar[tf].at, tf) \/ openBar[tf].at <= mark[tf]
    /\ \A bar \in retired :
          /\ bar.at <= lastClosed[bar.tf]
          /\ Ahead(bar.at, bar.tf) \/ (holder = "start" /\ bar.at <= mark[bar.tf])
    /\ \A bar \in closes : \/ bar.at <= lastClosed[bar.tf]
                           \/ \A t \in Coming : bar.at < Bucket(t, bar.tf)

\* Quotes from an instant on that were missed were missed while the socket was closed.
Heard(from) == \A t \in missed : t >= from => t \in deaf

BarsAreTrue ==
    /\ service = "up" => Heard(joined)
    /\ flushing # NoFlush => Heard(flushing.moment)
    /\ \A tf \in Timeframes : builders[tf] # NoBar =>
          /\ End(builders[tf].at, tf) \notin silent
          /\ builders[tf].partial \/ (service = "up" /\ Heard(builders[tf].at))
    /\ \A t \in Coming : \A s \in silent : s < t
    /\ \A bar \in retired :
          /\ bar.whole => service = "up" /\ Heard(bar.at)
          /\ bar.current => End(bar.at, bar.tf) \notin silent
          /\ bar.repaired /\ ~bar.current => bar.last = Max(Quotes(bar))

\* The bar under way in Redis is one that the service still has.
Resumed(tf) ==
    \/ builders[tf].at = openBar[tf].at /\ openBar[tf].heard \subseteq builders[tf].heard
    \/ \E bar \in retired : bar.tf = tf /\ bar.at = openBar[tf].at
InHandIsFolded ==
    holder = "tick" /\ step \in {"after", "persist"} =>
        \A tf \in Timeframes : Bucket(inHand, tf) = builders[tf].at => inHand \in builders[tf].heard
Calm == faults = 0 /\ flushes = 0
NothingIsLost ==
    Calm =>
        /\ ~failed
        /\ step = "persist" => retired = {}
        /\ step = "persist" =>
             \A tf \in Timeframes \ unsaved : builders[tf] # NoBar => openBar[tf] = builders[tf]
        /\ service # "down" =>
             \A tf \in Timeframes :
                 openBar[tf] = NoBar \/ openBar[tf].at <= mark[tf] \/ Resumed(tf)

TicksInv ==
    /\ TicksTypeOK
    /\ InOneHand
    /\ OfThePast
    /\ OneOfASeries
    /\ BucketsAreSpent
    /\ BarsAreTrue
    /\ InHandIsFolded
    /\ NothingIsLost
    /\ QuotesSurvive
-----------------------------------------------------------------------------
(* Buckets, and the latest of some instants. *)

\* Every instant lies in its bucket, and buckets do not overlap (resampler.py:133).
LEMMA BucketFacts ==
    ASSUME NEW tf \in Timeframes, NEW t \in Nat
    PROVE  /\ Length[tf] \in Nat \ {0}
           /\ Bucket(t, tf) \in Nat
           /\ Bucket(t, tf) <= t
           /\ t < End(Bucket(t, tf), tf)
<1>1. Length[tf] \in Nat \ {0}
  BY TickBarsAssumption
<1>2. t % Length[tf] \in 0..(Length[tf] - 1)
  BY <1>1
<1>3. t % Length[tf] <= t
  BY <1>1
<1> QED BY <1>1, <1>2, <1>3 DEF Bucket, End

LEMMA Multiple ==
    ASSUME NEW L \in Nat \ {0}, NEW t \in Nat
    PROVE  \E q \in Int : t - (t % L) = L * q
BY Z3T(30)

LEMMA MultiplesApart ==
    ASSUME NEW L \in Nat \ {0}, NEW i \in Int, NEW j \in Int, L * i < L * j
    PROVE  L * i + L <= L * j
<1>1. i < j
  OBVIOUS
<1>2. L * (i + 1) <= L * j
  BY <1>1
<1> QED BY <1>2

LEMMA BucketsApart ==
    ASSUME NEW tf \in Timeframes, NEW t \in Nat, NEW u \in Nat,
           Bucket(u, tf) < Bucket(t, tf)
    PROVE  End(Bucket(u, tf), tf) <= Bucket(t, tf)
<1>1. Length[tf] \in Nat \ {0}
  BY TickBarsAssumption
<1>2. PICK i \in Int : Bucket(t, tf) = Length[tf] * i
  BY <1>1, Multiple DEF Bucket
<1>3. PICK j \in Int : Bucket(u, tf) = Length[tf] * j
  BY <1>1, Multiple DEF Bucket
<1>4. Length[tf] * j + Length[tf] <= Length[tf] * i
  BY <1>1, <1>2, <1>3, MultiplesApart
<1> QED BY <1>2, <1>3, <1>4 DEF End

LEMMA LatestExists ==
    ASSUME NEW n \in Nat, NEW S \in SUBSET (-1..n), S # {}
    PROVE  Max(S) \in S /\ \A t \in S : t <= Max(S)
<1> DEFINE T == {n - t : t \in S}
           R == {ss \in Nat \X Nat : ss[1] < ss[2]}
<1>1. T # {}
  OBVIOUS
<1>2. \A t \in S : n - t \in Nat
  OBVIOUS
<1>3. PICK x \in T : \A y \in T : ~(<<y, x>> \in R)
  <2>1. IsWellFoundedOn(R, Nat)
    BY NatLessThanWellFounded DEF OpToRel
  <2>2. T \subseteq Nat
    BY <1>2
  <2> HIDE DEF T, R
  <2> QED BY <1>1, <2>1, <2>2, WFMin
<1>4. PICK t \in S : x = n - t
  OBVIOUS
<1>5. \A u \in S : t >= u
  <2> TAKE u \in S
  <2>1. n - u \in T /\ n - u \in Nat /\ n - t \in Nat
    BY <1>2
  <2>2. <<n - u, x>> \notin R
    BY <1>3, <2>1
  <2>3. ~(n - u < n - t)
    BY <1>4, <2>1, <2>2
  <2> QED BY <2>3
<1> QED BY <1>5 DEF Max

LEMMA InOneBucket ==
    ASSUME NEW tf \in Timeframes, NEW u \in Nat, NEW t \in Nat
    PROVE  t \in InBucket(Bucket(u, tf), tf) <=> Bucket(t, tf) = Bucket(u, tf)
<1>1. /\ Bucket(u, tf) \in Nat /\ Bucket(t, tf) \in Nat /\ Length[tf] \in Nat
      /\ Bucket(t, tf) <= t /\ t < End(Bucket(t, tf), tf)
  BY BucketFacts
<1>2. /\ Bucket(u, tf) < Bucket(t, tf) => End(Bucket(u, tf), tf) <= Bucket(t, tf)
      /\ Bucket(t, tf) < Bucket(u, tf) => End(Bucket(t, tf), tf) <= Bucket(u, tf)
  BY BucketsApart
<1>3. t \in InBucket(Bucket(u, tf), tf) <=> Bucket(u, tf) <= t /\ t < End(Bucket(u, tf), tf)
  BY <1>1 DEF InBucket, End
<1> QED BY <1>1, <1>2, <1>3 DEF End

LEMMA BarOrNone ==
    ASSUME NEW bar \in {NoBar} \cup BarsUnderWay
    PROVE  /\ NoBar.at = Never /\ NoBar.heard = {}
           /\ bar = NoBar <=> bar.at = Never
           /\ bar # NoBar => bar \in BarsUnderWay /\ bar.at \in Nat /\ bar.at >= 0
BY DEF NoBar, Never, BarsUnderWay

-----------------------------------------------------------------------------
(* A step at a time. *)

USE DEF market, socket, resampler, lock, redis, past, counts,
        Never, MarketType, ResamplerType, LockType, RedisType

LEMMA NewQuoteIsLater ==
    ASSUME TicksInv, NEW bar \in retired \cup closes
    PROVE  bar.tf \in Timeframes /\ bar.at \in Nat /\ bar.at < Bucket(clock + 1, bar.tf)
<1>1. bar \in BarsSpent /\ clock \in Nat /\ End(bar.at, bar.tf) <= clock
  BY DEF TicksInv, TicksTypeOK, OfThePast
<1>2. bar.tf \in Timeframes /\ bar.at \in Nat
  BY <1>1 DEF BarsSpent
<1>3. clock + 1 < End(Bucket(clock + 1, bar.tf), bar.tf) /\ Bucket(clock + 1, bar.tf) \in Nat
      /\ Length[bar.tf] \in Nat
  BY <1>1, <1>2, BucketFacts
<1> QED BY <1>1, <1>2, <1>3 DEF End

\* A quote of the future is in the bucket of no bar that is spent.
LEMMA QuotesStay ==
    ASSUME TicksInv, TimePasses, NEW bar \in retired \cup closes
    PROVE  Quotes(bar)' = Quotes(bar) /\ quotes \subseteq quotes'
<1>1. bar \in BarsSpent /\ clock \in Nat /\ End(bar.at, bar.tf) <= clock
  BY DEF TicksInv, TicksTypeOK, OfThePast
<1>2. bar.tf \in Timeframes /\ bar.at \in Nat /\ Length[bar.tf] \in Nat
  BY <1>1, TickBarsAssumption DEF BarsSpent
<1>3. clock + 1 \notin InBucket(bar.at, bar.tf)
  BY <1>1, <1>2 DEF InBucket, End
<1>4. quotes' = quotes \/ quotes' = quotes \cup {clock + 1}
  BY DEF TimePasses
<1> QED BY <1>3, <1>4 DEF Quotes

LEMMA TimePassesKeeps ==
    ASSUME TicksInv, TimePasses
    PROVE  TicksInv'
<1>a. /\ clock \in Nat /\ clock' = clock + 1 /\ clock' \in Nat
      /\ quotes' \in {quotes, quotes \cup {clock'}}
      /\ flying' \in {flying, flying \cup {clock'}}
      /\ flying' # flying => clock' \in quotes' /\ listening
      /\ missed' \in {missed, missed \cup {clock'}}
      /\ missed' # missed => ~listening
      /\ silent' = IF service = "down" THEN silent \cup {clock'} ELSE silent
      /\ deaf' = IF service = "up" /\ ~listening THEN deaf \cup {clock'} ELSE deaf
      /\ UNCHANGED <<service, listening, builders, lastClosed, joined, retired, holder, step, inHand,
                     unsaved, failed, flushing, openBar, mark, closes, kept, crashes, faults, flushes>>
  BY DEF TimePasses, TicksInv, TicksTypeOK
<1>1. MarketType'
  BY <1>a DEF TicksInv, TicksTypeOK
<1>2. ResamplerType'
  BY DEF TicksInv, TicksTypeOK, TimePasses, NoBar, Never
<1>3. LockType'
  BY DEF TicksInv, TicksTypeOK, TimePasses, NoFlush, Never
<1>4. RedisType'
  BY DEF TicksInv, TicksTypeOK, TimePasses, NoBar, Never
<1>5. InOneHand'
  BY DEF TicksInv, TicksTypeOK, InOneHand, TimePasses, NoFlush, Never, Emitting
<1>6. OfThePast'
  <2>1. \A t \in quotes' \cup missed' \cup silent' \cup deaf' : t <= clock'
    BY <1>a DEF TicksInv, TicksTypeOK, OfThePast
  <2>2. (Coming \subseteq quotes)'
    BY <1>a DEF TicksInv, OfThePast, Coming, InHand
  <2>3. \A tf \in Timeframes : Holds(tf, builders[tf])' /\ Holds(tf, openBar[tf])'
    BY <1>a DEF TicksInv, OfThePast, Holds
  <2>4. \A bar \in retired \cup closes : Holds(bar.tf, bar)'
    BY <1>a DEF TicksInv, OfThePast, Holds
  <2>5. \A bar \in retired \cup closes : End(bar.at, bar.tf) \in Int /\ End(bar.at, bar.tf) <= clock
    <3> TAKE bar \in retired \cup closes
    <3>1. bar.tf \in Timeframes /\ bar.at \in Nat
      BY DEF TicksInv, TicksTypeOK, BarsSpent
    <3> QED BY <3>1, TickBarsAssumption DEF TicksInv, OfThePast, End
  <2>6. \A tf \in Timeframes : mark[tf] # Never => End(mark[tf], tf) \in Int /\ End(mark[tf], tf) <= clock
    BY TickBarsAssumption DEF TicksInv, TicksTypeOK, OfThePast, End
  <2>7. \A bar \in retired' \cup closes' : End(bar.at, bar.tf) <= clock'
    BY <1>a, <2>5
  <2>8. \A tf \in Timeframes : mark'[tf] # Never => End(mark'[tf], tf) <= clock'
    BY <1>a, <2>6
  <2> QED BY <1>a, <2>1, <2>2, <2>3, <2>4, <2>7, <2>8 DEF OfThePast, End
<1>7. OneOfASeries'
  BY DEF TicksInv, TicksTypeOK, OneOfASeries, TimePasses
<1>8. BucketsAreSpent'
  <2>1. \A bar \in closes : bar.at < Bucket(clock', bar.tf)
    BY <1>a, NewQuoteIsLater
  <2>2. Coming' \subseteq Coming \cup {clock'}
    BY <1>a DEF Coming, InHand
  <2>3. \A bar \in closes : \/ bar.at <= lastClosed[bar.tf]
                            \/ \A t \in Coming' : bar.at < Bucket(t, bar.tf)
    BY <2>1, <2>2 DEF TicksInv, BucketsAreSpent
  <2> QED BY <1>a, <2>3 DEF TicksInv, BucketsAreSpent, Ahead, Bucket
<1>9. BarsAreTrue'
  <2>1. \A from : service = "up" /\ Heard(from) => Heard(from)'
    BY <1>a DEF Heard
  <2>2. \A tf \in Timeframes : builders[tf] # NoBar => End(builders[tf].at, tf) \notin silent'
    BY <1>a DEF TicksInv, BarsAreTrue, InOneHand
  <2>3. \A t \in Coming' : \A s \in silent' : s < t
    <3>1. \A s \in silent : s <= clock /\ s \in Nat
      BY DEF TicksInv, TicksTypeOK, OfThePast
    <3>2. CASE service = "down"
      BY <1>a, <3>2 DEF TicksInv, InOneHand, Coming, InHand, Never
    <3>3. CASE service # "down"
      <4>1. silent' = silent /\ Coming' \subseteq Coming \cup {clock'}
        BY <1>a, <3>3 DEF Coming, InHand
      <4> QED BY <1>a, <3>1, <4>1 DEF TicksInv, BarsAreTrue
    <3> QED BY <3>2, <3>3
  <2>4. \A bar \in retired : bar.current => End(bar.at, bar.tf) \notin silent'
    BY <1>a DEF TicksInv, BarsAreTrue, InOneHand
  <2>5. \A bar \in retired : bar.repaired /\ ~bar.current => bar.last = Max(Quotes(bar)')
    BY QuotesStay DEF TicksInv, BarsAreTrue
  <2>7. \A tf \in Timeframes : builders[tf] # NoBar =>
            builders[tf].partial \/ (service = "up" /\ Heard(builders[tf].at)')
    BY <1>a, <2>1 DEF TicksInv, BarsAreTrue
  <2>8. \A bar \in retired : bar.whole => service = "up" /\ Heard(bar.at)'
    BY <2>1 DEF TicksInv, BarsAreTrue
  <2>9. /\ service = "up" => Heard(joined)'
        /\ flushing # NoFlush => Heard(flushing.moment)'
    BY <1>a, <2>1 DEF TicksInv, BarsAreTrue, InOneHand
  <2> QED BY <1>a, <2>2, <2>3, <2>4, <2>5, <2>7, <2>8, <2>9 DEF BarsAreTrue, Heard, End, Quotes, InBucket
<1>10. InHandIsFolded'
  BY DEF TicksInv, TicksTypeOK, InHandIsFolded, TimePasses
<1>11. NothingIsLost'
  BY DEF TicksInv, TicksTypeOK, NothingIsLost, TimePasses, Calm, Resumed
<1>12. QuotesSurvive'
  BY DEF TicksInv, TicksTypeOK, QuotesSurvive, TimePasses
<1> QED BY <1>1, <1>2, <1>3, <1>4, <1>5, <1>6, <1>7, <1>8, <1>9, <1>10, <1>11, <1>12
       DEF TicksInv, TicksTypeOK

LEMMA StageNextKeeps ==
    ASSUME TicksInv, StageNext
    PROVE  TicksInv'
<1>1. MarketType'
  BY DEF TicksInv, TicksTypeOK, StageNext, Emitting, StageBar, WholeOnes
<1>2. ResamplerType'
  BY DEF TicksInv, TicksTypeOK, StageNext, Emitting, StageBar, WholeOnes, NoBar, Never
<1>3. LockType'
  BY DEF TicksInv, TicksTypeOK, StageNext, Emitting, StageBar, WholeOnes, NoFlush, Never
<1>4. RedisType'
  <2> PICK bar \in retired : StageBar(bar)
    BY DEF StageNext, WholeOnes
  <2>1. bar \in BarsSpent /\ bar.tf \in Timeframes /\ bar.at \in Nat /\ kept' = kept
    BY DEF StageNext, TicksInv, TicksTypeOK, BarsSpent
  <2> QED BY <2>1 DEF StageBar, TicksInv, TicksTypeOK
<1>5. InOneHand'
  BY DEF TicksInv, TicksTypeOK, InOneHand, StageNext, Emitting, StageBar, WholeOnes, NoFlush, Never
<1>6. OfThePast'
  BY DEF TicksInv, TicksTypeOK, OfThePast, StageNext, Emitting, StageBar, WholeOnes, Coming, InHand, Holds, End, NoBar
<1>7. OneOfASeries'
  BY DEF TicksInv, TicksTypeOK, OneOfASeries, StageNext, Emitting, StageBar, WholeOnes
<1>8. BucketsAreSpent'
  <2> PICK bar \in retired : StageBar(bar) /\ retired' = retired \ {bar}
    BY DEF StageNext, WholeOnes
  <2>1. /\ bar.tf \in Timeframes /\ bar.at \in Nat /\ bar.at <= lastClosed[bar.tf]
        /\ mark \in [Timeframes -> {Never} \cup Nat]
        /\ lastClosed \in [Timeframes -> {Never} \cup Nat]
        /\ \A tf \in Timeframes : builders[tf].at \in Int /\ openBar[tf].at \in Int
        /\ \A b \in closes \cup retired : b.at \in Nat /\ b.tf \in Timeframes
        /\ UNCHANGED <<builders, lastClosed, flying, inHand, holder>>
    BY DEF StageNext, TicksInv, TicksTypeOK, BarsSpent, BarsUnderWay, NoBar, Never, BucketsAreSpent
  <2>2. CASE bar.at <= mark[bar.tf]
    <3>1. UNCHANGED <<mark, openBar, closes>>
      BY <2>2 DEF StageBar
    <3> QED BY <2>1, <3>1 DEF TicksInv, BucketsAreSpent, Ahead, Coming, InHand, Bucket
  <2>3. CASE ~(bar.at <= mark[bar.tf])
    <3>1. /\ mark' = [mark EXCEPT ![bar.tf] = bar.at]
          /\ openBar' = IF openBar[bar.tf].at = bar.at THEN [openBar EXCEPT ![bar.tf] = NoBar]
                                                       ELSE openBar
          /\ closes' = closes \cup {bar}
      BY <2>3 DEF StageBar
    <3>2. \A tf \in Timeframes, at \in Int :
            Ahead(at, tf) /\ (bar.tf = tf => bar.at < at) => \A b \in closes' : b.tf = tf => b.at < at
      BY <3>1 DEF Ahead
    <3>3. \A tf \in Timeframes : builders'[tf] # NoBar =>
              \A b \in closes' : b.tf = tf => b.at < builders'[tf].at
      <4> SUFFICES ASSUME NEW tf \in Timeframes, builders[tf] # NoBar
                   PROVE  \A b \in closes' : b.tf = tf => b.at < builders[tf].at
        BY <2>1
      <4>1. Ahead(builders[tf].at, tf) /\ lastClosed[tf] < builders[tf].at
        BY DEF TicksInv, BucketsAreSpent
      <4>2. bar.tf = tf => bar.at < builders[tf].at
        BY <2>1, <4>1
      <4> QED BY <2>1, <3>2, <4>1, <4>2
    <3>4. \A tf \in Timeframes : openBar'[tf] # NoBar =>
              \/ \A b \in closes' : b.tf = tf => b.at < openBar'[tf].at
              \/ openBar'[tf].at <= mark'[tf]
      <4> SUFFICES ASSUME NEW tf \in Timeframes, openBar'[tf] # NoBar, ~(openBar'[tf].at <= mark'[tf])
                   PROVE  \A b \in closes' : b.tf = tf => b.at < openBar'[tf].at
        OBVIOUS
      <4>1. openBar'[tf] = openBar[tf]
        BY <2>1, <3>1 DEF TicksInv, TicksTypeOK
      <4>2. mark'[tf] \in Int /\ (IF tf = bar.tf THEN mark'[tf] = bar.at ELSE mark'[tf] = mark[tf])
        BY <2>1, <3>1
      <4>3. ~(openBar[tf].at <= mark[tf])
        BY <2>1, <2>3, <4>1, <4>2
      <4>4. Ahead(openBar[tf].at, tf)
        BY <4>1, <4>3 DEF TicksInv, BucketsAreSpent
      <4>5. bar.tf = tf => bar.at < openBar[tf].at
        BY <2>1, <4>1, <4>2
      <4> QED BY <2>1, <3>2, <4>1, <4>4, <4>5
    <3>5. \A r \in retired' : /\ r.at <= lastClosed[r.tf]
                              /\ Ahead(r.at, r.tf)' \/ (holder = "start" /\ r.at <= mark'[r.tf])
      <4> TAKE r \in retired'
      <4>1. r \in retired /\ r # bar /\ r.tf # bar.tf /\ r.tf \in Timeframes
        BY <2>1 DEF TicksInv, OneOfASeries
      <4>2. /\ r.at <= lastClosed[r.tf]
            /\ Ahead(r.at, r.tf) \/ (holder = "start" /\ r.at <= mark[r.tf])
        BY <4>1 DEF TicksInv, BucketsAreSpent
      <4> QED BY <2>1, <3>1, <4>1, <4>2 DEF Ahead
    <3>6. \A b \in closes' : b.at <= lastClosed[b.tf] \/ \A t \in Coming : b.at < Bucket(t, b.tf)
      <4>1. \A b \in closes : b.at <= lastClosed[b.tf] \/ \A t \in Coming : b.at < Bucket(t, b.tf)
        BY DEF TicksInv, BucketsAreSpent
      <4>2. \A b \in closes' : b \in closes \/ b = bar
        BY <3>1
      <4> QED BY <2>1, <4>1, <4>2
    <3>7. \A tf \in Timeframes : builders[tf] # NoBar => lastClosed[tf] < builders[tf].at
      BY DEF TicksInv, BucketsAreSpent
    <3> QED BY <2>1, <3>3, <3>4, <3>5, <3>6, <3>7 DEF BucketsAreSpent, Ahead, Coming, InHand, Bucket
  <2> QED BY <2>2, <2>3
<1>9. BarsAreTrue'
  BY DEF TicksInv, TicksTypeOK, BarsAreTrue, StageNext, Emitting, StageBar, WholeOnes, Heard, Coming, InHand, Quotes
<1>10. InHandIsFolded'
  BY DEF TicksInv, TicksTypeOK, InHandIsFolded, StageNext, Emitting, StageBar, WholeOnes
<1>11. NothingIsLost'
  <2> SUFFICES ASSUME Calm, service # "down",
                      NEW tf \in Timeframes, openBar'[tf] # NoBar, ~(openBar'[tf].at <= mark'[tf])
               PROVE  Resumed(tf)'
    BY DEF StageNext, Emitting, NothingIsLost, TicksInv, Calm
  <2> PICK bar \in retired : StageBar(bar) /\ retired' = retired \ {bar}
    BY DEF StageNext, WholeOnes
  <2>1. /\ bar.tf \in Timeframes /\ bar.at \in Nat /\ UNCHANGED builders
        /\ mark \in [Timeframes -> {Never} \cup Nat]
        /\ openBar \in [Timeframes -> {NoBar} \cup BarsUnderWay]
    BY DEF StageNext, TicksInv, TicksTypeOK, BarsSpent
  <2>2. openBar'[tf] = openBar[tf]
    BY <2>1 DEF StageBar
  <2>3. openBar[tf].at \in Int
    BY <2>1, BarOrNone DEF BarsUnderWay, Never
  <2>4. ~(openBar[tf].at <= mark[tf])
    BY <2>1, <2>2, <2>3 DEF StageBar, Never
  <2>5. ~(bar.tf = tf /\ bar.at = openBar[tf].at)
    BY <2>1, <2>2, <2>4 DEF StageBar
  <2>6. Resumed(tf)
    BY <2>2, <2>4 DEF TicksInv, NothingIsLost
  <2> QED BY <2>1, <2>2, <2>5, <2>6 DEF Resumed
<1>12. QuotesSurvive'
  <2> SUFFICES ASSUME faults = 0, flushes = 0, NEW tf \in Timeframes, NEW t \in kept[tf]
               PROVE  Bucket(t, tf) <= mark'[tf] \/ t \in openBar'[tf].heard
    BY DEF StageNext, QuotesSurvive, Bucket, TicksInv, TicksTypeOK
  <2> PICK bar \in retired : StageBar(bar) /\ retired' = retired \ {bar}
    BY DEF StageNext, WholeOnes
  <2>1. /\ bar.tf \in Timeframes /\ bar.at \in Nat
        /\ mark \in [Timeframes -> {Never} \cup Nat]
        /\ openBar \in [Timeframes -> {NoBar} \cup BarsUnderWay]
        /\ t \in Nat
    BY DEF StageNext, TicksInv, TicksTypeOK, BarsSpent
  <2>2. Bucket(t, tf) <= mark[tf] \/ t \in openBar[tf].heard
    BY DEF TicksInv, TicksTypeOK, QuotesSurvive
  <2>3. Bucket(t, tf) \in Nat /\ (Bucket(t, tf) <= mark[tf] => Bucket(t, tf) <= mark'[tf])
    <3>1. Bucket(t, tf) \in Nat
      BY <2>1, BucketFacts
    <3> QED BY <2>1, <3>1 DEF StageBar, Never
  <2>4. CASE t \in openBar[tf].heard /\ openBar'[tf] # openBar[tf]
    <3>1. tf = bar.tf /\ openBar[tf].at = bar.at /\ mark'[tf] = bar.at
      BY <2>1, <2>4 DEF StageBar
    <3>2. Bucket(t, tf) = openBar[tf].at
      BY <2>4, BarOrNone DEF TicksInv, OfThePast, Holds, NoBar
    <3> QED BY <2>1, <3>1, <3>2
  <2> QED BY <2>2, <2>3, <2>4
<1> QED BY <1>1, <1>2, <1>3, <1>4, <1>5, <1>6, <1>7, <1>8, <1>9, <1>10, <1>11, <1>12
       DEF TicksInv, TicksTypeOK

\* A repair leaves a bar its bucket and its flags, and completes it from its bucket.
LEMMA RepairedBar ==
    ASSUME TicksInv, NEW bar \in retired, NEW sent \in {bar, Completed(bar)}, NEW new,
           new = [sent EXCEPT !.partial = FALSE]
    PROVE  /\ new \in BarsSpent
           /\ new.tf = bar.tf /\ new.at = bar.at /\ new.whole = bar.whole
           /\ new.current = bar.current
           /\ Holds(new.tf, new)
           /\ new.repaired /\ ~new.current => new.last = Max(Quotes(bar))
<1> DEFINE vendor == quotes \cap InBucket(bar.at, bar.tf)
<1>1. /\ bar \in BarsSpent /\ bar.tf \in Timeframes /\ bar.at \in Nat
      /\ quotes \subseteq Nat /\ clock \in Nat /\ \A t \in quotes : t <= clock
  BY DEF TicksInv, TicksTypeOK, BarsSpent, OfThePast
<1>2. /\ Holds(bar.tf, bar) /\ bar # NoBar
      /\ bar.repaired /\ ~bar.current => bar.last = Max(Quotes(bar))
  BY <1>1 DEF TicksInv, OfThePast, BarsAreTrue, BarsSpent, NoBar, Never
<1>3. PICK u \in bar.heard : u \in quotes /\ u \in Nat /\ Bucket(u, bar.tf) = bar.at
  BY <1>1, <1>2 DEF Holds
<1>4. \A t \in Nat : t \in InBucket(bar.at, bar.tf) <=> Bucket(t, bar.tf) = bar.at
  BY <1>1, <1>3, InOneBucket
<1>5. vendor \subseteq Nat /\ u \in vendor /\ vendor \subseteq -1..clock
  BY <1>1, <1>3, <1>4
<1>6. Max(vendor) \in Nat
  <2> HIDE DEF vendor
  <2> QED BY <1>1, <1>5, LatestExists
<1>7. CASE sent = bar
  BY <1>1, <1>2, <1>7 DEF BarsSpent, Holds
<1>8. CASE sent = Completed(bar)
  <2>1. new = [bar EXCEPT !.heard = bar.heard \cup vendor, !.repaired = TRUE,
                          !.last = IF bar.current THEN bar.last ELSE Max(vendor),
                          !.partial = FALSE]
    BY <1>1, <1>8 DEF Completed, BarsSpent
  <2> HIDE DEF vendor
  <2>2. new \in BarsSpent
    <3>1. bar.heard \cup vendor \in SUBSET Nat
      BY <1>1, <1>5 DEF BarsSpent
    <3>2. (IF bar.current THEN bar.last ELSE Max(vendor)) \in Int
      BY <1>1, <1>6 DEF BarsSpent
    <3> QED BY <1>1, <2>1, <3>1, <3>2 DEF BarsSpent
  <2>3. /\ new.tf = bar.tf /\ new.at = bar.at /\ new.whole = bar.whole
        /\ new.current = bar.current /\ new.heard = bar.heard \cup vendor
        /\ ~bar.current => new.last = Max(vendor)
    BY <1>1, <2>1 DEF BarsSpent
  <2>4. \A t \in vendor : t \in quotes /\ Bucket(t, bar.tf) = bar.at
    BY <1>1, <1>4 DEF vendor
  <2> QED BY <1>2, <1>3, <2>2, <2>3, <2>4 DEF Holds, Quotes, vendor
<1> QED BY <1>7, <1>8

LEMMA RepairNextKeeps ==
    ASSUME TicksInv, RepairNext
    PROVE  TicksInv'
<1> PICK bar \in retired : \E sent \in {bar, Completed(bar)} :
        retired' = (retired \ {bar}) \cup {[sent EXCEPT !.partial = FALSE]}
  BY DEF RepairNext
<1> PICK sent \in {bar, Completed(bar)} :
        retired' = (retired \ {bar}) \cup {[sent EXCEPT !.partial = FALSE]}
  OBVIOUS
<1> DEFINE new == [sent EXCEPT !.partial = FALSE]
<1>a. /\ new \in BarsSpent
      /\ new.tf = bar.tf /\ new.at = bar.at /\ new.whole = bar.whole
      /\ new.current = bar.current
      /\ Holds(new.tf, new)
      /\ new.repaired /\ ~new.current => new.last = Max(Quotes(bar))
  BY RepairedBar
<1>b. /\ retired' = (retired \ {bar}) \cup {new} /\ bar \in retired
      /\ UNCHANGED <<clock, quotes, service, listening, flying, missed, silent, deaf, builders,
                     lastClosed, joined, holder, step, inHand, unsaved, failed, flushing, openBar,
                     mark, closes, kept, crashes, faults, flushes>>
      /\ Emitting
  BY DEF RepairNext
<1> HIDE DEF new
<1>1. MarketType'
  BY DEF TicksInv, TicksTypeOK, RepairNext, Emitting, WholeOnes, Completed
<1>2. ResamplerType'
  BY <1>a, <1>b DEF TicksInv, TicksTypeOK
<1>3. LockType'
  BY DEF TicksInv, TicksTypeOK, RepairNext, Emitting, WholeOnes, Completed, NoFlush, Never
<1>4. RedisType'
  BY DEF TicksInv, TicksTypeOK, RepairNext, Emitting, WholeOnes, Completed, NoBar, Never
<1>5. InOneHand'
  BY DEF TicksInv, TicksTypeOK, InOneHand, RepairNext, Emitting, WholeOnes, Completed, NoFlush, Never
<1>6. OfThePast'
  BY <1>a, <1>b DEF TicksInv, OfThePast, Coming, InHand, Holds, End, Bucket
<1>7. OneOfASeries'
  BY <1>a, <1>b DEF TicksInv, OneOfASeries
<1>8. BucketsAreSpent'
  BY <1>a, <1>b DEF TicksInv, BucketsAreSpent, Ahead, Coming, InHand, Bucket
<1>9. BarsAreTrue'
  BY <1>a, <1>b DEF TicksInv, BarsAreTrue, Heard, Coming, InHand, Quotes, End, InBucket
<1>10. InHandIsFolded'
  BY DEF TicksInv, TicksTypeOK, InHandIsFolded, RepairNext, Emitting, WholeOnes, Completed
<1>11. NothingIsLost'
  <2>1. step # "persist"
    BY <1>b DEF Emitting
  <2>2. \A tf \in Timeframes : Resumed(tf) => Resumed(tf)'
    BY <1>a, <1>b DEF Resumed
  <2> QED BY <1>b, <2>1, <2>2 DEF TicksInv, NothingIsLost, Calm
<1>12. QuotesSurvive'
  BY DEF TicksInv, TicksTypeOK, QuotesSurvive, RepairNext, Emitting, WholeOnes, Completed
<1> QED BY <1>1, <1>2, <1>3, <1>4, <1>5, <1>6, <1>7, <1>8, <1>9, <1>10, <1>11, <1>12
       DEF TicksInv, TicksTypeOK

LEMMA EmitEndsKeeps ==
    ASSUME TicksInv, EmitEnds
    PROVE  TicksInv'
<1>1. MarketType'
  BY DEF TicksInv, TicksTypeOK, EmitEnds, Release, Emitting
<1>2. ResamplerType'
  BY DEF TicksInv, TicksTypeOK, EmitEnds, Release, Emitting, NoBar, Never
<1>3. LockType'
  BY DEF TicksInv, TicksTypeOK, EmitEnds, Release, Emitting, NoFlush, Never
<1>4. RedisType'
  BY DEF TicksInv, TicksTypeOK, EmitEnds, Release, Emitting, NoBar, Never
<1>5. InOneHand'
  BY DEF TicksInv, TicksTypeOK, InOneHand, EmitEnds, Release, Emitting, NoFlush, Never
<1>6. OfThePast'
  BY DEF TicksInv, TicksTypeOK, OfThePast, EmitEnds, Release, Emitting, Coming, InHand, Holds, End, NoBar
<1>7. OneOfASeries'
  BY DEF TicksInv, TicksTypeOK, OneOfASeries, EmitEnds, Release, Emitting
<1>8. BucketsAreSpent'
  BY DEF TicksInv, TicksTypeOK, BucketsAreSpent, EmitEnds, Release, Emitting, Ahead, Coming, InHand
<1>9. BarsAreTrue'
  BY DEF TicksInv, TicksTypeOK, BarsAreTrue, EmitEnds, Release, Emitting, Heard, Coming, InHand, Quotes
<1>10. InHandIsFolded'
  BY DEF TicksInv, TicksTypeOK, InHandIsFolded, EmitEnds, Release, Emitting
<1>11. NothingIsLost'
  BY DEF TicksInv, TicksTypeOK, NothingIsLost, EmitEnds, Release, Emitting, Calm, Resumed
<1>12. QuotesSurvive'
  BY DEF TicksInv, TicksTypeOK, QuotesSurvive, EmitEnds, Release, Emitting
<1> QED BY <1>1, <1>2, <1>3, <1>4, <1>5, <1>6, <1>7, <1>8, <1>9, <1>10, <1>11, <1>12
       DEF TicksInv, TicksTypeOK

LEMMA EmitFailsKeeps ==
    ASSUME TicksInv, EmitFails
    PROVE  TicksInv'
<1>1. MarketType'
  BY DEF TicksInv, TicksTypeOK, EmitFails, Dies, Release, Emitting
<1>2. ResamplerType'
  BY DEF TicksInv, TicksTypeOK, EmitFails, Dies, Release, Emitting, NoBar, Never
<1>3. LockType'
  <2>1. faults + 1 \in Nat /\ {tf \in Timeframes : builders[tf] # NoBar} \subseteq Timeframes
    BY DEF TicksInv, TicksTypeOK
  <2>2. /\ holder' \in {"nobody", "tick", "clock", "start"}
        /\ step' \in {"idle", "before", "work", "after", "persist", "backfill", "join"}
        /\ inHand' \in {Never} \cup Nat
    BY DEF EmitFails, Dies, Release, TicksInv, TicksTypeOK
  <2>3. unsaved' \subseteq Timeframes /\ failed' \in BOOLEAN
    BY <2>1 DEF EmitFails, Dies, Release, TicksInv, TicksTypeOK
  <2>4. flushing' \in [left : SUBSET Timeframes, moment : {Never} \cup Nat]
    BY DEF EmitFails, Dies, NoFlush, TicksInv, TicksTypeOK
  <2>5. crashes' \in Nat /\ faults' \in Nat /\ flushes' \in Nat
    BY <2>1 DEF EmitFails, TicksInv, TicksTypeOK
  <2> QED BY <2>2, <2>3, <2>4, <2>5
<1>4. RedisType'
  BY DEF TicksInv, TicksTypeOK, EmitFails, Dies, Release, Emitting, NoBar, Never
<1>5. InOneHand'
  BY DEF TicksInv, TicksTypeOK, InOneHand, EmitFails, Dies, Release, Emitting, NoFlush, Never
<1>6. OfThePast'
  BY DEF TicksInv, TicksTypeOK, OfThePast, EmitFails, Dies, Release, Emitting, Coming, InHand, Holds, End, NoBar
<1>7. OneOfASeries'
  BY DEF TicksInv, TicksTypeOK, OneOfASeries, EmitFails, Dies, Release, Emitting
<1>8. BucketsAreSpent'
  BY DEF TicksInv, TicksTypeOK, BucketsAreSpent, EmitFails, Dies, Release, Emitting, Ahead, Coming, InHand
<1>9. BarsAreTrue'
  BY DEF TicksInv, TicksTypeOK, BarsAreTrue, EmitFails, Dies, Release, Emitting, Heard, Coming, InHand, Quotes
<1>10. InHandIsFolded'
  BY DEF TicksInv, TicksTypeOK, InHandIsFolded, EmitFails, Dies, Release, Emitting
<1>11. NothingIsLost'
  BY DEF TicksInv, TicksTypeOK, NothingIsLost, EmitFails, Dies, Release, Emitting, Calm, Resumed
<1>12. QuotesSurvive'
  BY DEF TicksInv, TicksTypeOK, QuotesSurvive, EmitFails, Dies, Release, Emitting
<1> QED BY <1>1, <1>2, <1>3, <1>4, <1>5, <1>6, <1>7, <1>8, <1>9, <1>10, <1>11, <1>12
       DEF TicksInv, TicksTypeOK

LEMMA TickTakenKeeps ==
    ASSUME TicksInv, NEW t \in Instants, TickTaken(t)
    PROVE  TicksInv'
<1>1. MarketType'
  BY DEF TicksInv, TicksTypeOK, TickTaken, Instants
<1>2. ResamplerType'
  BY DEF TicksInv, TicksTypeOK, TickTaken, Instants, NoBar, Never
<1>3. LockType'
  BY DEF TicksInv, TicksTypeOK, TickTaken, Instants, NoFlush, Never
<1>4. RedisType'
  BY DEF TicksInv, TicksTypeOK, TickTaken, Instants, NoBar, Never
<1>5. InOneHand'
  BY DEF TicksInv, TicksTypeOK, InOneHand, TickTaken, Instants, NoFlush, Never, Emitting
<1>6. OfThePast'
  BY DEF TicksInv, TicksTypeOK, OfThePast, TickTaken, Instants, Coming, InHand, Holds, End, NoBar
<1>7. OneOfASeries'
  BY DEF TicksInv, TicksTypeOK, OneOfASeries, TickTaken, Instants
<1>8. BucketsAreSpent'
  BY DEF TicksInv, TicksTypeOK, BucketsAreSpent, TickTaken, Instants, Ahead, Coming, InHand
<1>9. BarsAreTrue'
  BY DEF TicksInv, TicksTypeOK, BarsAreTrue, TickTaken, Instants, Heard, Coming, InHand, Quotes
<1>10. InHandIsFolded'
  BY DEF TicksInv, TicksTypeOK, InHandIsFolded, TickTaken, Instants
<1>11. NothingIsLost'
  BY DEF TicksInv, TicksTypeOK, NothingIsLost, TickTaken, Instants, Calm, Resumed
<1>12. QuotesSurvive'
  BY DEF TicksInv, TicksTypeOK, QuotesSurvive, TickTaken, Instants
<1> QED BY <1>1, <1>2, <1>3, <1>4, <1>5, <1>6, <1>7, <1>8, <1>9, <1>10, <1>11, <1>12
       DEF TicksInv, TicksTypeOK

\* What a bar under way is when a quote of a later bucket, or the clock, retires it.
LEMMA RetiredBar ==
    ASSUME TicksInv, NEW tf \in Timeframes, builders[tf] # NoBar, NEW end \in Nat,
           End(builders[tf].at, tf) <= end, end <= clock
    PROVE  /\ Retired(tf, TRUE) \in BarsSpent
           /\ Retired(tf, TRUE).tf = tf /\ Retired(tf, TRUE).at = builders[tf].at
           /\ ~Retired(tf, TRUE).repaired /\ Retired(tf, TRUE).current
           /\ Retired(tf, TRUE).whole <=> ~builders[tf].partial
           /\ End(builders[tf].at, tf) <= clock
           /\ Holds(tf, Retired(tf, TRUE))
<1>1. builders[tf] \in BarsUnderWay /\ Holds(tf, builders[tf])
  BY DEF TicksInv, TicksTypeOK, OfThePast
<1>2. Retired(tf, TRUE) \in BarsSpent
  BY <1>1 DEF Retired, BarsSpent, BarsUnderWay
<1>3. End(builders[tf].at, tf) <= clock
  BY <1>1, TickBarsAssumption DEF TicksInv, TicksTypeOK, End, BarsUnderWay
<1>4. Holds(tf, Retired(tf, TRUE))
  BY <1>1 DEF Retired, Holds
<1> QED BY <1>2, <1>3, <1>4 DEF Retired

\* The bar that a quote goes into.
LEMMA FoldedBar ==
    ASSUME TicksInv, NEW tf \in Timeframes, inHand \in Nat, inHand \in quotes,
           service = "up", tf \in Takes(inHand),
           NEW new, new = Folded(IF builders[tf].at = Bucket(inHand, tf) THEN builders[tf]
                                 ELSE Opened(Bucket(inHand, tf)), inHand)
    PROVE  /\ new \in BarsUnderWay /\ new # NoBar
           /\ new.at = Bucket(inHand, tf) /\ inHand \in new.heard
           /\ builders[tf].at = Bucket(inHand, tf) =>
                 builders[tf].heard \subseteq new.heard /\ new.partial = builders[tf].partial
           /\ builders[tf].at # Bucket(inHand, tf) => new.partial \/ Heard(Bucket(inHand, tf))
           /\ Holds(tf, new)
<1>1. Bucket(inHand, tf) \in Nat
  BY BucketFacts
<1>2. joined \in Nat
  BY DEF TicksInv, TicksTypeOK, InOneHand
<1>3. CASE builders[tf].at = Bucket(inHand, tf)
  <2>1. builders[tf] \in BarsUnderWay /\ Holds(tf, builders[tf]) /\ builders[tf] # NoBar
    BY <1>1, <1>3, BarOrNone DEF TicksInv, TicksTypeOK, OfThePast
  <2>2. new = [builders[tf] EXCEPT !.heard = @ \cup {inHand}, !.last = inHand]
    BY <1>3 DEF Folded
  <2>3. builders[tf].heard \cup {inHand} \in SUBSET Nat /\ inHand \in Int
    BY <2>1 DEF BarsUnderWay
  <2>4. new \in BarsUnderWay
    BY <2>1, <2>2, <2>3 DEF BarsUnderWay
  <2>5. /\ new.at = builders[tf].at /\ new.partial = builders[tf].partial
        /\ new.heard = builders[tf].heard \cup {inHand}
    BY <2>1, <2>2 DEF BarsUnderWay
  <2>6. new # NoBar
    BY <1>1, <1>3, <2>5 DEF NoBar
  <2> QED BY <1>3, <2>1, <2>4, <2>5, <2>6 DEF Holds
<1>4. CASE builders[tf].at # Bucket(inHand, tf)
  <2> DEFINE part == joined # Never /\ Bucket(inHand, tf) < joined
  <2>1. new = [at |-> Bucket(inHand, tf), heard |-> {inHand}, last |-> inHand, partial |-> part]
    BY <1>4 DEF Folded, Opened, NoBar
  <2>6. part \in BOOLEAN
    BY Zenon
  <2> HIDE DEF part
  <2>2. new \in BarsUnderWay /\ new.at = Bucket(inHand, tf) /\ new.heard = {inHand}
    <3>1. {inHand} \in SUBSET Nat /\ inHand \in Int
      OBVIOUS
    <3> QED BY <1>1, <2>1, <2>6, <3>1 DEF BarsUnderWay
  <2>3. new # NoBar
    BY <1>1, <2>2 DEF NoBar
  <2>4. new.partial \/ Heard(Bucket(inHand, tf))
    <3>1. Heard(joined) /\ missed \subseteq Nat
      BY DEF TicksInv, TicksTypeOK, BarsAreTrue
    <3> SUFFICES ASSUME ~new.partial, NEW t \in missed, t >= Bucket(inHand, tf) PROVE t \in deaf
      BY DEF Heard
    <3>2. ~(joined # Never /\ Bucket(inHand, tf) < joined)
      <4>1. new.partial = part
        BY <2>1
      <4>2. ~part
        BY <4>1, Zenon
      <4> QED BY <4>2 DEF part
    <3>3. t \in Nat /\ t >= joined
      BY <1>1, <1>2, <3>1, <3>2
    <3> QED BY <3>1, <3>3 DEF Heard
  <2>5. Holds(tf, new)
    BY <2>2 DEF Holds
  <2> QED BY <1>4, <2>2, <2>3, <2>4, <2>5
<1> QED BY <1>3, <1>4

LEMMA FoldKeeps ==
    ASSUME TicksInv, Fold
    PROVE  TicksInv'
<1> DEFINE takes == Takes(inHand)
           closing == Closing(inHand)
           B(tf) == Bucket(inHand, tf)
<1>a. /\ holder = "tick" /\ step = "work" /\ step' = "after" /\ retired = {}
      /\ inHand \in Nat /\ inHand \in quotes /\ inHand <= clock /\ service = "up" /\ clock \in Nat
      /\ UNCHANGED <<clock, quotes, service, listening, flying, missed, silent, deaf, joined, holder,
                     inHand, unsaved, failed, flushing, openBar, mark, closes, kept, crashes, faults,
                     flushes>>
  <2>1. inHand \in Nat /\ service # "down" /\ service # "starting" /\ retired = {}
    BY DEF Fold, TicksInv, TicksTypeOK, InOneHand
  <2>2. inHand \in quotes
    BY <2>1 DEF TicksInv, OfThePast, Coming, InHand
  <2> QED BY <2>1, <2>2 DEF Fold, TicksInv, TicksTypeOK, OfThePast
<1>b. \A tf \in Timeframes :
        /\ B(tf) \in Nat /\ B(tf) <= inHand /\ inHand < End(B(tf), tf)
        /\ tf \in takes <=> B(tf) > lastClosed[tf] /\ (builders[tf] = NoBar \/ B(tf) >= builders[tf].at)
        /\ tf \in closing <=> tf \in takes /\ builders[tf] # NoBar /\ B(tf) > builders[tf].at
  BY <1>a, BucketFacts DEF Takes, Closing
<1>c. /\ takes \subseteq Timeframes /\ closing \subseteq takes
      /\ retired' = {Retired(tf, TRUE) : tf \in closing}
      /\ lastClosed' = [tf \in Timeframes |-> IF tf \in closing THEN builders[tf].at ELSE lastClosed[tf]]
  BY <1>a DEF Fold, Retire, Takes, Closing
<1>d. \A tf \in closing :
        /\ Retired(tf, TRUE) \in BarsSpent
        /\ Retired(tf, TRUE).tf = tf /\ Retired(tf, TRUE).at = builders[tf].at
        /\ ~Retired(tf, TRUE).repaired /\ Retired(tf, TRUE).current
        /\ Retired(tf, TRUE).whole <=> ~builders[tf].partial
        /\ End(builders[tf].at, tf) <= clock
        /\ Holds(tf, Retired(tf, TRUE))
  <2> TAKE tf \in closing
  <2>1. tf \in Timeframes /\ builders[tf] # NoBar /\ builders[tf].at < B(tf)
    BY <1>b, <1>c DEF TicksInv, TicksTypeOK, BarsUnderWay
  <2>2. PICK u \in builders[tf].heard : u \in Nat /\ Bucket(u, tf) = builders[tf].at
    BY <2>1 DEF TicksInv, TicksTypeOK, OfThePast, Holds
  <2>3. End(builders[tf].at, tf) <= B(tf)
    BY <1>a, <2>1, <2>2, BucketsApart
  <2>4. B(tf) \in Nat /\ B(tf) <= clock
    BY <1>a, <1>b, <2>1
  <2> HIDE DEF B
  <2> QED BY <2>1, <2>3, <2>4, RetiredBar
<1>e. \A tf \in Timeframes \ takes : builders'[tf] = builders[tf]
  BY DEF Fold
<1>f. \A tf \in takes :
        /\ builders'[tf] \in BarsUnderWay /\ builders'[tf] # NoBar
        /\ builders'[tf].at = B(tf) /\ inHand \in builders'[tf].heard
        /\ builders[tf].at = B(tf) => builders[tf].heard \subseteq builders'[tf].heard
                                      /\ builders'[tf].partial = builders[tf].partial
        /\ builders[tf].at # B(tf) => builders'[tf].partial \/ Heard(B(tf))
        /\ Holds(tf, builders'[tf])
  <2> TAKE tf \in takes
  <2>1. tf \in Timeframes
    BY <1>c
  <2>2. builders'[tf] = Folded(IF builders[tf].at = B(tf) THEN builders[tf] ELSE Opened(B(tf)), inHand)
    BY <2>1 DEF Fold
  <2> QED BY <1>a, <2>1, <2>2, FoldedBar
<1>g. builders' \in [Timeframes -> {NoBar} \cup BarsUnderWay]
  <2>1. builders' = [tf \in Timeframes |-> builders'[tf]]
    BY DEF Fold
  <2> QED BY <1>e, <1>f, <2>1 DEF TicksInv, TicksTypeOK
<1>h. \A tf \in Timeframes :
        /\ builders[tf] \in {NoBar} \cup BarsUnderWay /\ lastClosed[tf] \in {Never} \cup Nat
        /\ lastClosed'[tf] = IF tf \in closing THEN builders[tf].at ELSE lastClosed[tf]
        /\ builders[tf] # NoBar => /\ builders[tf].at \in Nat /\ lastClosed[tf] < builders[tf].at
                                   /\ Ahead(builders[tf].at, tf)
        /\ builders[tf] = NoBar <=> builders[tf].at = Never
  BY <1>c, BarOrNone DEF TicksInv, TicksTypeOK, BucketsAreSpent
<1> HIDE DEF takes, closing, B
<1>1. MarketType'
  BY DEF TicksInv, TicksTypeOK, Fold, Retire, Retired, Closing, Takes, Folded, Opened
<1>2. ResamplerType'
  <2>1. lastClosed' \in [Timeframes -> {Never} \cup Nat]
    BY <1>b, <1>c, <1>h
  <2>2. retired' \subseteq BarsSpent
    BY <1>c, <1>d
  <2> QED BY <1>a, <1>g, <2>1, <2>2 DEF TicksInv, TicksTypeOK
<1>3. LockType'
  BY DEF TicksInv, TicksTypeOK, Fold, Retire, Retired, Closing, Takes, Folded, Opened, NoFlush, Never
<1>4. RedisType'
  BY DEF TicksInv, TicksTypeOK, Fold, Retire, Retired, Closing, Takes, Folded, Opened, NoBar, Never
<1>5. InOneHand'
  BY DEF TicksInv, TicksTypeOK, InOneHand, Fold, Retire, Retired, Closing, Takes, Folded, Opened, NoFlush, Never, Emitting
<1>6. OfThePast'
  <2>1. \A tf \in Timeframes : Holds(tf, builders'[tf])
    BY <1>e, <1>f DEF TicksInv, OfThePast
  <2>2. \A bar \in retired' : End(bar.at, bar.tf) <= clock /\ Holds(bar.tf, bar)
    BY <1>c, <1>d
  <2>3. \A bar \in closes : End(bar.at, bar.tf) <= clock /\ Holds(bar.tf, bar)
    BY DEF TicksInv, OfThePast
  <2> QED BY <1>a, <2>1, <2>2, <2>3 DEF TicksInv, OfThePast, Coming, InHand, Holds, End, Bucket
<1>7. OneOfASeries'
  <2> SUFFICES ASSUME NEW s \in closing, NEW t \in closing, Retired(s, TRUE).tf = Retired(t, TRUE).tf
               PROVE  Retired(s, TRUE) = Retired(t, TRUE)
    BY <1>c DEF OneOfASeries
  <2>1. Retired(s, TRUE).tf = s /\ Retired(t, TRUE).tf = t
    BY <1>d
  <2>2. s = t
    BY <2>1
  <2> QED BY <2>2
<1>8. BucketsAreSpent'
  <2>1. \A tf \in Timeframes : lastClosed'[tf] >= lastClosed[tf] /\ lastClosed'[tf] \in Int
    BY <1>b, <1>h
  <2>2. \A bar \in closes : bar.tf \in Timeframes /\ bar.at \in Nat
    BY DEF TicksInv, TicksTypeOK, BarsSpent
  <2>3. \A tf \in Timeframes : builders'[tf] # NoBar =>
            Ahead(builders'[tf].at, tf) /\ lastClosed'[tf] < builders'[tf].at
    <3> TAKE tf \in Timeframes
    <3>1. CASE tf \in takes
      <4>1. /\ builders'[tf].at = B(tf) /\ B(tf) > lastClosed[tf]
            /\ tf \in closing => B(tf) > builders[tf].at
        BY <1>b, <1>f, <3>1
      <4>2. lastClosed'[tf] < B(tf)
        BY <1>h, <4>1
      <4>3. Ahead(B(tf), tf)
        <5> SUFFICES ASSUME NEW bar \in closes, bar.tf = tf PROVE bar.at < B(tf)
          BY DEF Ahead
        <5>1. bar.at <= lastClosed[tf] \/ \A t \in Coming : bar.at < Bucket(t, tf)
          BY DEF TicksInv, BucketsAreSpent
        <5>2. inHand \in Coming
          BY <1>a DEF Coming, InHand
        <5> QED BY <1>b, <1>h, <2>2, <4>1, <5>1, <5>2 DEF B
      <4> QED BY <4>1, <4>2, <4>3
    <3>2. CASE tf \notin takes
      BY <1>c, <1>e, <1>h, <3>2
    <3> QED BY <3>1, <3>2
  <2>4. \A bar \in retired' : bar.at <= lastClosed'[bar.tf] /\ Ahead(bar.at, bar.tf)
    <3> TAKE bar \in retired'
    <3>1. PICK tf \in closing : bar = Retired(tf, TRUE)
      BY <1>c
    <3>2. tf \in Timeframes /\ builders[tf] # NoBar /\ bar.tf = tf /\ bar.at = builders[tf].at
      BY <1>b, <1>c, <1>d, <3>1
    <3>3. builders[tf].at \in Nat /\ Ahead(builders[tf].at, tf)
      BY <1>h, <3>2
    <3>4. lastClosed'[tf] = builders[tf].at
      BY <1>c, <3>1, <3>2
    <3> QED BY <3>2, <3>3, <3>4
  <2>5. \A bar \in closes : \/ bar.at <= lastClosed'[bar.tf]
                            \/ \A t \in Coming : bar.at < Bucket(t, bar.tf)
    <3> TAKE bar \in closes
    <3>1. \/ bar.at <= lastClosed[bar.tf]
          \/ \A t \in Coming : bar.at < Bucket(t, bar.tf)
      BY DEF TicksInv, BucketsAreSpent
    <3> QED BY <1>h, <2>1, <2>2, <3>1
  <2>6. \A tf \in Timeframes : openBar[tf] # NoBar =>
            Ahead(openBar[tf].at, tf) \/ openBar[tf].at <= mark[tf]
    BY DEF TicksInv, BucketsAreSpent
  <2> QED BY <1>a, <2>3, <2>4, <2>5, <2>6 DEF BucketsAreSpent, Ahead, Coming, InHand, Bucket
<1>9. BarsAreTrue'
  <2>1. \A tf \in Timeframes : builders'[tf] # NoBar => End(builders'[tf].at, tf) \notin silent
    <3> TAKE tf \in Timeframes
    <3>1. CASE tf \in takes
      <4>1. builders'[tf].at = B(tf) /\ inHand < End(B(tf), tf) /\ B(tf) \in Nat /\ Length[tf] \in Nat
        BY <1>b, <1>f, <3>1, TickBarsAssumption
      <4>2. inHand \in Coming /\ silent \subseteq Nat
        BY <1>a DEF Coming, InHand, TicksInv, TicksTypeOK
      <4>3. \A s \in silent : s < inHand
        BY <4>2 DEF TicksInv, BarsAreTrue
      <4> QED BY <1>a, <4>1, <4>2, <4>3 DEF End
    <3>2. CASE tf \notin takes
      BY <1>e, <3>2 DEF TicksInv, BarsAreTrue
    <3> QED BY <3>1, <3>2
  <2>2. \A tf \in Timeframes : builders'[tf] # NoBar => builders'[tf].partial \/ Heard(builders'[tf].at)
    <3> TAKE tf \in Timeframes
    <3>1. builders[tf] # NoBar => builders[tf].partial \/ Heard(builders[tf].at)
      BY DEF TicksInv, BarsAreTrue
    <3>2. CASE tf \in takes
      BY <1>b, <1>c, <1>f, <1>h, <3>1, <3>2
    <3>3. CASE tf \notin takes
      BY <1>e, <3>1, <3>3
    <3> QED BY <3>2, <3>3
  <2>3. \A bar \in retired' : /\ bar.whole => Heard(bar.at)
                              /\ End(bar.at, bar.tf) \notin silent
                              /\ ~bar.repaired
    <3> SUFFICES ASSUME NEW tf \in closing
                 PROVE  /\ Retired(tf, TRUE).whole => Heard(Retired(tf, TRUE).at)
                        /\ End(Retired(tf, TRUE).at, Retired(tf, TRUE).tf) \notin silent
                        /\ ~Retired(tf, TRUE).repaired
      BY <1>c
    <3>1. builders[tf] # NoBar /\ tf \in Timeframes
      BY <1>b, <1>c
    <3>2. /\ End(builders[tf].at, tf) \notin silent
          /\ builders[tf].partial \/ Heard(builders[tf].at)
      BY <3>1 DEF TicksInv, BarsAreTrue
    <3> QED BY <1>d, <3>2
  <2>4. /\ Heard(joined)
        /\ flushing # NoFlush => Heard(flushing.moment)
        /\ \A t \in Coming : \A s \in silent : s < t
    BY <1>a DEF TicksInv, BarsAreTrue
  <2> QED BY <1>a, <2>1, <2>2, <2>3, <2>4 DEF BarsAreTrue, Heard, Coming, InHand, Quotes, End, InBucket
<1>10. InHandIsFolded'
  <2> SUFFICES ASSUME NEW tf \in Timeframes, B(tf) = builders'[tf].at
               PROVE  inHand \in builders'[tf].heard
    BY <1>a DEF InHandIsFolded, B, Bucket
  <2>1. tf \in takes
    BY <1>b, <1>e, <1>h
  <2> QED BY <1>f, <2>1
<1>11. NothingIsLost'
  <2> SUFFICES ASSUME Calm, NEW tf \in Timeframes, openBar[tf] # NoBar, ~(openBar[tf].at <= mark[tf])
               PROVE  Resumed(tf)'
    BY <1>a DEF NothingIsLost, TicksInv, Calm
  <2>1. builders[tf].at = openBar[tf].at /\ openBar[tf].heard \subseteq builders[tf].heard
    BY <1>a DEF NothingIsLost, TicksInv, Resumed
  <2>2. openBar[tf].at # Never
    BY BarOrNone DEF TicksInv, TicksTypeOK
  <2>3. CASE tf \in closing
    <3>1. Retired(tf, TRUE) \in retired' /\ Retired(tf, TRUE).tf = tf /\ Retired(tf, TRUE).at = openBar'[tf].at
      BY <1>a, <1>c, <1>d, <2>1, <2>3
    <3> QED BY <3>1 DEF Resumed
  <2>4. CASE tf \in takes /\ tf \notin closing
    <3>1. builders[tf].at = B(tf)
      BY <1>b, <1>h, <2>1, <2>2, <2>4
    <3> QED BY <1>a, <1>f, <2>1, <2>4, <3>1 DEF Resumed
  <2>5. CASE tf \notin takes
    BY <1>a, <1>e, <2>1, <2>5 DEF Resumed
  <2> QED BY <2>3, <2>4, <2>5
<1>12. QuotesSurvive'
  BY DEF TicksInv, TicksTypeOK, QuotesSurvive, Fold, Retire, Retired, Closing, Takes, Folded, Opened
<1> QED BY <1>1, <1>2, <1>3, <1>4, <1>5, <1>6, <1>7, <1>8, <1>9, <1>10, <1>11, <1>12
       DEF TicksInv, TicksTypeOK

LEMMA PersistKeeps ==
    ASSUME TicksInv, NEW tf \in Timeframes, Persist(tf)
    PROVE  TicksInv'
<1>1. MarketType'
  BY DEF TicksInv, TicksTypeOK, Persist
<1>2. ResamplerType'
  BY DEF TicksInv, TicksTypeOK, Persist, NoBar, Never
<1>3. LockType'
  BY DEF TicksInv, TicksTypeOK, Persist, NoFlush, Never
<1>4. RedisType'
  BY DEF TicksInv, TicksTypeOK, Persist, NoBar, Never
<1>5. InOneHand'
  BY DEF TicksInv, TicksTypeOK, InOneHand, Persist, NoFlush, Never, Emitting
<1>6. OfThePast'
  BY DEF TicksInv, TicksTypeOK, OfThePast, Persist, Coming, InHand, Holds, End, NoBar
<1>7. OneOfASeries'
  BY DEF TicksInv, TicksTypeOK, OneOfASeries, Persist
<1>8. BucketsAreSpent'
  BY DEF TicksInv, TicksTypeOK, BucketsAreSpent, Persist, Ahead, Coming, InHand
<1>9. BarsAreTrue'
  BY DEF TicksInv, TicksTypeOK, BarsAreTrue, Persist, Heard, Coming, InHand, Quotes
<1>10. InHandIsFolded'
  BY DEF TicksInv, TicksTypeOK, InHandIsFolded, Persist
<1>11. NothingIsLost'
  BY DEF TicksInv, TicksTypeOK, NothingIsLost, Persist, Calm, Resumed
<1>12. QuotesSurvive'
  <2> SUFFICES ASSUME Calm, NEW s \in Timeframes, NEW t \in kept[s]
               PROVE  Bucket(t, s) <= mark[s] \/ t \in openBar'[s].heard
    BY DEF Persist, TicksInv, TicksTypeOK, QuotesSurvive, Calm, Bucket
  <2>1. Bucket(t, s) <= mark[s] \/ t \in openBar[s].heard
    BY DEF TicksInv, TicksTypeOK, QuotesSurvive, Calm
  <2>2. openBar' = [openBar EXCEPT ![tf] = builders[tf]] /\ openBar \in [Timeframes -> {NoBar} \cup BarsUnderWay]
        /\ step = "persist" /\ mark[s] \in Int
    BY DEF Persist, TicksInv, TicksTypeOK
  <2>3. CASE s = tf /\ t \in openBar[s].heard
    <3>1. openBar[s] # NoBar /\ t \in Nat /\ Bucket(t, s) = openBar[s].at
      BY <2>2, <2>3, BarOrNone DEF TicksInv, TicksTypeOK, OfThePast, Holds
    <3>2. retired = {} /\ service # "down"
      BY <2>2 DEF TicksInv, InOneHand, NothingIsLost
    <3>3. openBar[s].at <= mark[s] \/ Resumed(s)
      BY <3>1, <3>2 DEF TicksInv, NothingIsLost
    <3>4. openBar[s].at <= mark[s] \/ openBar[s].heard \subseteq builders[s].heard
      BY <3>2, <3>3 DEF Resumed
    <3> QED BY <2>2, <2>3, <3>1, <3>4
  <2> QED BY <2>1, <2>2, <2>3
<1> QED BY <1>1, <1>2, <1>3, <1>4, <1>5, <1>6, <1>7, <1>8, <1>9, <1>10, <1>11, <1>12
       DEF TicksInv, TicksTypeOK

LEMMA TickDoneKeeps ==
    ASSUME TicksInv, TickDone
    PROVE  TicksInv'
<1>a. /\ step = "persist" /\ unsaved = {} /\ holder = "tick" /\ inHand \in Nat /\ service = "up"
      /\ kept' = IF failed THEN kept
                 ELSE [tf \in Timeframes |-> IF Bucket(inHand, tf) = builders[tf].at
                                             THEN kept[tf] \cup {inHand} ELSE kept[tf]]
      /\ holder' = "nobody" /\ step' = "idle" /\ inHand' = Never /\ unsaved' = {} /\ failed' = FALSE
      /\ UNCHANGED <<clock, quotes, service, listening, flying, missed, silent, deaf, builders,
                     lastClosed, joined, retired, flushing, openBar, mark, closes, crashes, faults,
                     flushes>>
  BY DEF TickDone, Release, TicksInv, TicksTypeOK, InOneHand
<1>1. MarketType'
  BY DEF TicksInv, TicksTypeOK, TickDone, Release
<1>2. ResamplerType'
  BY DEF TicksInv, TicksTypeOK, TickDone, Release, NoBar, Never
<1>3. LockType'
  BY DEF TicksInv, TicksTypeOK, TickDone, Release, NoFlush, Never
<1>4. RedisType'
  <2>1. kept' \in [Timeframes -> SUBSET Nat]
    BY <1>a DEF TicksInv, TicksTypeOK
  <2> QED BY <1>a, <2>1 DEF TicksInv, TicksTypeOK
<1>5. InOneHand'
  BY DEF TicksInv, TicksTypeOK, InOneHand, TickDone, Release, NoFlush, Never, Emitting
<1>6. OfThePast'
  BY DEF TicksInv, TicksTypeOK, OfThePast, TickDone, Release, Coming, InHand, Holds, End, NoBar
<1>7. OneOfASeries'
  BY DEF TicksInv, TicksTypeOK, OneOfASeries, TickDone, Release
<1>8. BucketsAreSpent'
  <2>1. Coming' \subseteq Coming
    BY <1>a DEF Coming, InHand
  <2>2. \A bar \in closes : \/ bar.at <= lastClosed[bar.tf]
                            \/ \A t \in Coming' : bar.at < Bucket(t, bar.tf)
    BY <2>1 DEF TicksInv, BucketsAreSpent
  <2>3. \A bar \in retired : bar.at <= lastClosed[bar.tf] /\ Ahead(bar.at, bar.tf)
    BY <1>a DEF TicksInv, BucketsAreSpent
  <2> QED BY <1>a, <2>2, <2>3 DEF TicksInv, BucketsAreSpent, Ahead, Bucket
<1>9. BarsAreTrue'
  BY DEF TicksInv, TicksTypeOK, BarsAreTrue, TickDone, Release, Heard, Coming, InHand, Quotes
<1>10. InHandIsFolded'
  BY DEF TicksInv, TicksTypeOK, InHandIsFolded, TickDone, Release
<1>11. NothingIsLost'
  BY DEF TicksInv, TicksTypeOK, NothingIsLost, TickDone, Release, Calm, Resumed
<1>12. QuotesSurvive'
  <2> SUFFICES ASSUME Calm, NEW s \in Timeframes, NEW t \in kept'[s]
               PROVE  Bucket(t, s) <= mark[s] \/ t \in openBar[s].heard
    BY <1>a DEF TicksInv, TicksTypeOK, QuotesSurvive, Calm, Bucket
  <2>1. CASE t \in kept[s]
    BY <2>1 DEF TicksInv, TicksTypeOK, QuotesSurvive, Calm
  <2>2. CASE t \notin kept[s]
    <3>1. t = inHand /\ Bucket(inHand, s) = builders[s].at
      BY <1>a, <2>2 DEF TicksInv, TicksTypeOK
    <3>2. inHand \in builders[s].heard
      BY <1>a, <3>1 DEF TicksInv, InHandIsFolded
    <3>3. builders[s] # NoBar
      BY <3>2, BarOrNone DEF TicksInv, TicksTypeOK
    <3>4. openBar[s] = builders[s]
      BY <1>a, <3>3 DEF TicksInv, NothingIsLost
    <3> QED BY <3>1, <3>2, <3>4
  <2> QED BY <2>1, <2>2
<1> QED BY <1>1, <1>2, <1>3, <1>4, <1>5, <1>6, <1>7, <1>8, <1>9, <1>10, <1>11, <1>12
       DEF TicksInv, TicksTypeOK

LEMMA TickFailsKeeps ==
    ASSUME TicksInv, TickFails
    PROVE  TicksInv'
<1>a. faults' \in Nat /\ UNCHANGED <<crashes, flushes>>
  BY DEF TickFails, TicksInv, TicksTypeOK
<1>1. MarketType'
  BY DEF TicksInv, TicksTypeOK, TickFails, Release
<1>2. ResamplerType'
  BY DEF TicksInv, TicksTypeOK, TickFails, Release, NoBar, Never
<1>3. LockType'
  BY <1>a DEF TickFails, Release, TicksInv, TicksTypeOK
<1>4. RedisType'
  BY DEF TicksInv, TicksTypeOK, TickFails, Release, NoBar, Never
<1>5. InOneHand'
  BY DEF TicksInv, TicksTypeOK, InOneHand, TickFails, Release, NoFlush, Never, Emitting
<1>6. OfThePast'
  BY DEF TicksInv, TicksTypeOK, OfThePast, TickFails, Release, Coming, InHand, Holds, End, NoBar
<1>7. OneOfASeries'
  BY DEF TicksInv, TicksTypeOK, OneOfASeries, TickFails, Release
<1>8. BucketsAreSpent'
  BY DEF TicksInv, TicksTypeOK, BucketsAreSpent, TickFails, Release, Ahead, Coming, InHand
<1>9. BarsAreTrue'
  BY DEF TicksInv, TicksTypeOK, BarsAreTrue, TickFails, Release, Heard, Coming, InHand, Quotes
<1>10. InHandIsFolded'
  BY DEF TicksInv, TicksTypeOK, InHandIsFolded, TickFails, Release
<1>11. NothingIsLost'
  BY DEF TicksInv, TicksTypeOK, NothingIsLost, TickFails, Release, Calm, Resumed
<1>12. QuotesSurvive'
  BY DEF TicksInv, TicksTypeOK, QuotesSurvive, TickFails, Release
<1> QED BY <1>1, <1>2, <1>3, <1>4, <1>5, <1>6, <1>7, <1>8, <1>9, <1>10, <1>11, <1>12
       DEF TicksInv, TicksTypeOK

LEMMA ClockTurnsKeeps ==
    ASSUME TicksInv, ClockTurns
    PROVE  TicksInv'
<1>1. MarketType'
  BY DEF TicksInv, TicksTypeOK, ClockTurns
<1>2. ResamplerType'
  BY DEF TicksInv, TicksTypeOK, ClockTurns, NoBar, Never
<1>3. LockType'
  BY DEF TicksInv, TicksTypeOK, ClockTurns, NoFlush, Never
<1>4. RedisType'
  BY DEF TicksInv, TicksTypeOK, ClockTurns, NoBar, Never
<1>5. InOneHand'
  BY DEF TicksInv, TicksTypeOK, InOneHand, ClockTurns, NoFlush, Never, Emitting
<1>6. OfThePast'
  BY DEF TicksInv, TicksTypeOK, OfThePast, ClockTurns, Coming, InHand, Holds, End, NoBar
<1>7. OneOfASeries'
  BY DEF TicksInv, TicksTypeOK, OneOfASeries, ClockTurns
<1>8. BucketsAreSpent'
  BY DEF TicksInv, TicksTypeOK, BucketsAreSpent, ClockTurns, Ahead, Coming, InHand
<1>9. BarsAreTrue'
  BY DEF TicksInv, TicksTypeOK, BarsAreTrue, ClockTurns, Heard, Coming, InHand, Quotes
<1>10. InHandIsFolded'
  BY DEF TicksInv, TicksTypeOK, InHandIsFolded, ClockTurns
<1>11. NothingIsLost'
  BY DEF TicksInv, TicksTypeOK, NothingIsLost, ClockTurns, Calm, Resumed
<1>12. QuotesSurvive'
  BY DEF TicksInv, TicksTypeOK, QuotesSurvive, ClockTurns
<1> QED BY <1>1, <1>2, <1>3, <1>4, <1>5, <1>6, <1>7, <1>8, <1>9, <1>10, <1>11, <1>12
       DEF TicksInv, TicksTypeOK

LEMMA CloseEndedKeeps ==
    ASSUME TicksInv, CloseEnded
    PROVE  TicksInv'
<1>a. /\ holder = "clock" /\ step = "work" /\ step' = "after" /\ retired = {}
      /\ service = "up" /\ inHand = Never /\ clock \in Nat
      /\ retired' = {Retired(tf, TRUE) : tf \in Ended}
      /\ lastClosed' = [tf \in Timeframes |-> IF tf \in Ended THEN builders[tf].at ELSE lastClosed[tf]]
      /\ builders' = [tf \in Timeframes |-> IF tf \in Ended THEN NoBar ELSE builders[tf]]
      /\ UNCHANGED <<clock, quotes, service, listening, flying, missed, silent, deaf, joined, holder,
                     inHand, unsaved, failed, flushing, openBar, mark, closes, kept, crashes, faults,
                     flushes>>
  BY DEF CloseEnded, Retire, TicksInv, TicksTypeOK, InOneHand
<1>b. \A tf \in Timeframes :
        /\ builders[tf] \in {NoBar} \cup BarsUnderWay /\ lastClosed[tf] \in {Never} \cup Nat
        /\ builders[tf] # NoBar => /\ builders[tf].at \in Nat /\ lastClosed[tf] < builders[tf].at
                                   /\ Ahead(builders[tf].at, tf)
        /\ builders[tf] = NoBar <=> builders[tf].at = Never
  BY BarOrNone DEF TicksInv, TicksTypeOK, BucketsAreSpent
<1>c. \A tf \in Ended :
        /\ tf \in Timeframes /\ builders[tf] # NoBar
        /\ Retired(tf, TRUE) \in BarsSpent
        /\ Retired(tf, TRUE).tf = tf /\ Retired(tf, TRUE).at = builders[tf].at
        /\ ~Retired(tf, TRUE).repaired /\ Retired(tf, TRUE).current
        /\ Retired(tf, TRUE).whole <=> ~builders[tf].partial
        /\ End(builders[tf].at, tf) <= clock
        /\ Holds(tf, Retired(tf, TRUE))
  <2> TAKE tf \in Ended
  <2>1. tf \in Timeframes /\ builders[tf] # NoBar /\ clock >= End(builders[tf].at, tf)
    BY DEF Ended
  <2>2. End(builders[tf].at, tf) \in Nat
    BY <1>b, <2>1, TickBarsAssumption DEF End
  <2> DEFINE end == End(builders[tf].at, tf)
  <2>3. end <= clock
    <3>1. clock \in Nat /\ end \in Nat /\ clock >= end
      BY <1>a, <2>1, <2>2
    <3> HIDE DEF end
    <3> QED BY <3>1
  <2>4. clock \in Nat /\ clock <= clock
    BY <1>a
  <2> HIDE DEF Ended
  <2> QED BY <2>1, <2>3, <2>4, RetiredBar
<1>1. MarketType'
  BY DEF TicksInv, TicksTypeOK, CloseEnded, Retire, Retired, Ended
<1>2. ResamplerType'
  <2>1. builders' \in [Timeframes -> {NoBar} \cup BarsUnderWay]
    BY <1>a, <1>b
  <2>2. lastClosed' \in [Timeframes -> {Never} \cup Nat]
    BY <1>a, <1>b, <1>c
  <2>3. retired' \subseteq BarsSpent
    <3> SUFFICES ASSUME NEW bar \in retired' PROVE bar \in BarsSpent
      OBVIOUS
    <3>1. PICK tf \in Ended : bar = Retired(tf, TRUE)
      BY <1>a
    <3> QED BY <1>c, <3>1
  <2>4. joined' \in {Never} \cup Nat
    BY <1>a DEF TicksInv, TicksTypeOK
  <2> QED BY <2>1, <2>2, <2>3, <2>4
<1>3. LockType'
  BY DEF TicksInv, TicksTypeOK, CloseEnded, Retire, Retired, Ended, NoFlush, Never
<1>4. RedisType'
  BY DEF TicksInv, TicksTypeOK, CloseEnded, Retire, Retired, Ended, NoBar, Never
<1>5. InOneHand'
  BY DEF TicksInv, TicksTypeOK, InOneHand, CloseEnded, Retire, Retired, Ended, NoFlush, Never, Emitting
<1>6. OfThePast'
  <2>1. \A tf \in Timeframes : Holds(tf, builders'[tf])
    BY <1>a DEF TicksInv, OfThePast, Holds
  <2>2. \A bar \in retired' : End(bar.at, bar.tf) <= clock /\ Holds(bar.tf, bar)
    <3> TAKE bar \in retired'
    <3>1. PICK tf \in Ended : bar = Retired(tf, TRUE)
      BY <1>a
    <3>2. bar.tf = tf /\ bar.at = builders[tf].at /\ Holds(tf, bar) /\ End(builders[tf].at, tf) <= clock
      BY <1>c, <3>1
    <3> QED BY <3>2
  <2>3. \A bar \in closes : End(bar.at, bar.tf) <= clock /\ Holds(bar.tf, bar)
    BY DEF TicksInv, OfThePast
  <2> QED BY <1>a, <2>1, <2>2, <2>3 DEF TicksInv, OfThePast, Coming, InHand, Holds, End, Bucket
<1>7. OneOfASeries'
  <2> SUFFICES ASSUME NEW s \in Ended, NEW t \in Ended, Retired(s, TRUE).tf = Retired(t, TRUE).tf
               PROVE  Retired(s, TRUE) = Retired(t, TRUE)
    BY <1>a DEF OneOfASeries
  <2>1. Retired(s, TRUE).tf = s /\ Retired(t, TRUE).tf = t
    BY <1>c
  <2>2. s = t
    BY <2>1
  <2> QED BY <2>2
<1>8. BucketsAreSpent'
  <2>1. \A tf \in Timeframes : lastClosed'[tf] >= lastClosed[tf] /\ lastClosed'[tf] \in Int
    <3> TAKE tf \in Timeframes
    <3>1. /\ lastClosed'[tf] = IF tf \in Ended THEN builders[tf].at ELSE lastClosed[tf]
          /\ tf \in Ended => builders[tf] # NoBar
      BY <1>a, <1>c
    <3> QED BY <1>b, <3>1
  <2>2. \A bar \in closes : bar.tf \in Timeframes /\ bar.at \in Nat
    BY DEF TicksInv, TicksTypeOK, BarsSpent
  <2>3. \A tf \in Timeframes : builders'[tf] # NoBar =>
            Ahead(builders'[tf].at, tf) /\ lastClosed'[tf] < builders'[tf].at
    BY <1>a, <1>b
  <2>4. \A bar \in retired' : bar.at <= lastClosed'[bar.tf] /\ Ahead(bar.at, bar.tf)
    <3> TAKE bar \in retired'
    <3>1. PICK tf \in Ended : bar = Retired(tf, TRUE)
      BY <1>a
    <3>2. tf \in Timeframes /\ builders[tf] # NoBar /\ bar.tf = tf /\ bar.at = builders[tf].at
      BY <1>c, <3>1
    <3>3. builders[tf].at \in Nat /\ Ahead(builders[tf].at, tf)
      BY <1>b, <3>2
    <3>4. lastClosed'[tf] = builders[tf].at
      BY <1>a, <3>1, <3>2
    <3> QED BY <3>2, <3>3, <3>4
  <2>5. \A bar \in closes : \/ bar.at <= lastClosed'[bar.tf]
                            \/ \A t \in Coming : bar.at < Bucket(t, bar.tf)
    <3> TAKE bar \in closes
    <3>1. \/ bar.at <= lastClosed[bar.tf]
          \/ \A t \in Coming : bar.at < Bucket(t, bar.tf)
      BY DEF TicksInv, BucketsAreSpent
    <3> QED BY <1>b, <2>1, <2>2, <3>1
  <2>6. \A tf \in Timeframes : openBar[tf] # NoBar =>
            Ahead(openBar[tf].at, tf) \/ openBar[tf].at <= mark[tf]
    BY DEF TicksInv, BucketsAreSpent
  <2> QED BY <1>a, <2>3, <2>4, <2>5, <2>6 DEF BucketsAreSpent, Ahead, Coming, InHand, Bucket
<1>9. BarsAreTrue'
  <2>1. \A tf \in Timeframes : builders'[tf] # NoBar =>
            /\ End(builders'[tf].at, tf) \notin silent
            /\ builders'[tf].partial \/ Heard(builders'[tf].at)
    BY <1>a DEF TicksInv, BarsAreTrue
  <2>2. \A bar \in retired' : /\ bar.whole => Heard(bar.at)
                              /\ End(bar.at, bar.tf) \notin silent
                              /\ ~bar.repaired
    <3> SUFFICES ASSUME NEW tf \in Ended
                 PROVE  /\ Retired(tf, TRUE).whole => Heard(Retired(tf, TRUE).at)
                        /\ End(Retired(tf, TRUE).at, Retired(tf, TRUE).tf) \notin silent
                        /\ ~Retired(tf, TRUE).repaired
      BY <1>a
    <3>1. /\ End(builders[tf].at, tf) \notin silent
          /\ builders[tf].partial \/ Heard(builders[tf].at)
      BY <1>c DEF TicksInv, BarsAreTrue
    <3> QED BY <1>c, <3>1
  <2>3. /\ Heard(joined)
        /\ flushing # NoFlush => Heard(flushing.moment)
        /\ \A t \in Coming : \A s \in silent : s < t
    BY <1>a DEF TicksInv, BarsAreTrue
  <2> QED BY <1>a, <2>1, <2>2, <2>3 DEF BarsAreTrue, Heard, Coming, InHand, Quotes, End, InBucket
<1>10. InHandIsFolded'
  BY DEF TicksInv, TicksTypeOK, InHandIsFolded, CloseEnded, Retire, Retired, Ended
<1>11. NothingIsLost'
  <2> SUFFICES ASSUME Calm, NEW tf \in Timeframes, openBar[tf] # NoBar, ~(openBar[tf].at <= mark[tf])
               PROVE  Resumed(tf)'
    BY <1>a DEF NothingIsLost, TicksInv, Calm
  <2>1. builders[tf].at = openBar[tf].at /\ openBar[tf].heard \subseteq builders[tf].heard
    BY <1>a DEF NothingIsLost, TicksInv, Resumed
  <2>2. CASE tf \in Ended
    <3>1. Retired(tf, TRUE) \in retired' /\ Retired(tf, TRUE).tf = tf /\ Retired(tf, TRUE).at = openBar'[tf].at
      BY <1>a, <1>c, <2>1, <2>2
    <3> QED BY <3>1 DEF Resumed
  <2>3. CASE tf \notin Ended
    BY <1>a, <2>1, <2>3 DEF Resumed
  <2> QED BY <2>2, <2>3
<1>12. QuotesSurvive'
  BY DEF TicksInv, TicksTypeOK, QuotesSurvive, CloseEnded, Retire, Retired, Ended
<1> QED BY <1>1, <1>2, <1>3, <1>4, <1>5, <1>6, <1>7, <1>8, <1>9, <1>10, <1>11, <1>12
       DEF TicksInv, TicksTypeOK

\* The bars that a start goes on with, and those that it retires.
Restored == {tf \in Timeframes : openBar[tf] # NoBar}
Over == {tf \in Restored : clock >= End(openBar[tf].at, tf)}
Outlasted(tf) ==
    [tf |-> tf, at |-> openBar[tf].at, heard |-> openBar[tf].heard, last |-> openBar[tf].last,
     partial |-> TRUE, whole |-> FALSE, current |-> FALSE, repaired |-> FALSE]

LEMMA StartKeeps ==
    ASSUME TicksInv, Start
    PROVE  TicksInv'
<1> DEFINE Again(tf) == [openBar[tf] EXCEPT !.partial = TRUE]
<1>a. /\ service = "down" /\ service' = "starting" /\ holder' = "start" /\ step' = "after"
      /\ retired = {} /\ flying = {} /\ ~listening /\ flushing = NoFlush /\ holder = "nobody"
      /\ inHand = Never /\ clock \in Nat
      /\ UNCHANGED <<clock, quotes, listening, flying, missed, silent, deaf, joined,
                     inHand, unsaved, failed, flushing, openBar, mark, closes, kept, crashes, faults,
                     flushes>>
  BY DEF Start, TicksInv, TicksTypeOK, InOneHand
<1>b. \A tf \in Restored :
        /\ tf \in Timeframes /\ openBar[tf] # NoBar /\ openBar[tf] \in BarsUnderWay
        /\ openBar[tf].at \in Nat /\ Holds(tf, openBar[tf]) /\ End(openBar[tf].at, tf) \in Nat
        /\ Ahead(openBar[tf].at, tf) \/ openBar[tf].at <= mark[tf]
  <2> TAKE tf \in Restored
  <2>1. tf \in Timeframes /\ openBar[tf] # NoBar /\ openBar[tf] \in BarsUnderWay
    BY DEF Restored, TicksInv, TicksTypeOK
  <2>2. openBar[tf].at \in Nat /\ Holds(tf, openBar[tf])
    BY <2>1 DEF BarsUnderWay, TicksInv, OfThePast
  <2>3. End(openBar[tf].at, tf) \in Nat
    BY <2>1, <2>2, TickBarsAssumption DEF End
  <2> QED BY <2>1, <2>2, <2>3 DEF TicksInv, BucketsAreSpent
<1>c. \A tf \in Restored :
        /\ Again(tf) \in BarsUnderWay /\ Again(tf) # NoBar /\ Again(tf).at = openBar[tf].at
        /\ Again(tf).heard = openBar[tf].heard /\ Again(tf).last = openBar[tf].last /\ Again(tf).partial
  BY <1>b DEF BarsUnderWay, NoBar
<1>d. /\ builders' = [tf \in Timeframes |-> IF tf \in Restored \ Over THEN Again(tf) ELSE NoBar]
      /\ lastClosed' = [tf \in Timeframes |-> IF tf \in Over THEN openBar[tf].at ELSE Never]
      /\ retired' = {Outlasted(tf) : tf \in Over}
  <2>1. \A tf \in Over : Outlasted(tf) = [tf |-> tf, at |-> Again(tf).at, heard |-> Again(tf).heard,
              last |-> Again(tf).last, partial |-> TRUE, whole |-> FALSE,
              current |-> FALSE, repaired |-> FALSE]
    BY <1>c DEF Outlasted, Over
  <2>2. retired' = {[tf |-> tf, at |-> Again(tf).at, heard |-> Again(tf).heard,
              last |-> Again(tf).last, partial |-> TRUE, whole |-> FALSE,
              current |-> FALSE, repaired |-> FALSE] : tf \in Over}
    BY DEF Start, Restored, Over
  <2>3. retired' = {Outlasted(tf) : tf \in Over}
    BY <2>1, <2>2
  <2> QED BY <2>3 DEF Start, Restored, Over
<1>e. \A tf \in Over :
        /\ tf \in Restored /\ End(openBar[tf].at, tf) <= clock
        /\ Outlasted(tf) \in BarsSpent /\ Holds(tf, Outlasted(tf))
        /\ Outlasted(tf).tf = tf /\ Outlasted(tf).at = openBar[tf].at
        /\ ~Outlasted(tf).whole /\ ~Outlasted(tf).repaired /\ ~Outlasted(tf).current
  <2> TAKE tf \in Over
  <2>1. tf \in Restored /\ clock >= End(openBar[tf].at, tf)
    BY DEF Over
  <2>2. End(openBar[tf].at, tf) <= clock
    BY <1>a, <1>b, <2>1
  <2>3. Outlasted(tf) \in BarsSpent
    BY <1>b, <2>1 DEF Outlasted, BarsSpent, BarsUnderWay
  <2> QED BY <1>b, <2>1, <2>2, <2>3 DEF Outlasted, Holds
\* A bar that is not over is ahead of the watermark.
<1>f. \A tf \in Restored \ Over :
        clock < End(openBar[tf].at, tf) /\ Ahead(openBar[tf].at, tf)
  <2> TAKE tf \in Restored \ Over
  <2>1. clock < End(openBar[tf].at, tf)
    BY <1>a, <1>b DEF Over
  <2>2. mark[tf] # Never => End(mark[tf], tf) <= clock
    BY <1>b DEF TicksInv, OfThePast
  <2>3. mark[tf] \in {Never} \cup Nat /\ Length[tf] \in Nat
    BY <1>b, TickBarsAssumption DEF TicksInv, TicksTypeOK
  <2>4. ~(openBar[tf].at <= mark[tf])
    BY <1>a, <1>b, <2>1, <2>2, <2>3 DEF End
  <2> QED BY <1>b, <2>1, <2>4
<1> HIDE DEF Again
<1>1. MarketType'
  BY DEF TicksInv, TicksTypeOK, Start
<1>2. ResamplerType'
  <2>1. builders' \in [Timeframes -> {NoBar} \cup BarsUnderWay]
    BY <1>c, <1>d
  <2>2. lastClosed' \in [Timeframes -> {Never} \cup Nat]
    BY <1>b, <1>d, <1>e
  <2>3. retired' \subseteq BarsSpent
    BY <1>d, <1>e
  <2> QED BY <1>a, <2>1, <2>2, <2>3 DEF TicksInv, TicksTypeOK
<1>3. LockType'
  BY DEF TicksInv, TicksTypeOK, Start, NoFlush, Never
<1>4. RedisType'
  BY DEF TicksInv, TicksTypeOK, Start, NoBar, Never
<1>5. InOneHand'
  BY <1>a DEF TicksInv, InOneHand
<1>6. OfThePast'
  <2>1. \A tf \in Timeframes : Holds(tf, builders'[tf])
    BY <1>b, <1>c, <1>d DEF Holds
  <2>2. \A bar \in retired' : End(bar.at, bar.tf) <= clock /\ Holds(bar.tf, bar)
    BY <1>d, <1>e
  <2>3. \A bar \in closes : End(bar.at, bar.tf) <= clock /\ Holds(bar.tf, bar)
    BY DEF TicksInv, OfThePast
  <2> QED BY <1>a, <2>1, <2>2, <2>3 DEF TicksInv, OfThePast, Coming, InHand, Holds, End, Bucket
<1>7. OneOfASeries'
  <2> SUFFICES ASSUME NEW s \in Over, NEW t \in Over, Outlasted(s).tf = Outlasted(t).tf
               PROVE  Outlasted(s) = Outlasted(t)
    BY <1>d DEF OneOfASeries
  <2>1. s = t
    BY <1>e
  <2> QED BY <2>1
<1>8. BucketsAreSpent'
  <2>1. \A tf \in Timeframes : builders'[tf] # NoBar =>
            Ahead(builders'[tf].at, tf) /\ lastClosed'[tf] < builders'[tf].at
    <3> SUFFICES ASSUME NEW tf \in Restored \ Over
                 PROVE  Ahead(builders'[tf].at, tf) /\ lastClosed'[tf] < builders'[tf].at
      BY <1>d
    <3>1. builders'[tf].at = openBar[tf].at /\ lastClosed'[tf] = Never
      BY <1>b, <1>c, <1>d
    <3> QED BY <1>b, <1>f, <3>1
  <2>2. \A bar \in retired' : /\ bar.at <= lastClosed'[bar.tf]
                              /\ Ahead(bar.at, bar.tf) \/ bar.at <= mark[bar.tf]
    <3> SUFFICES ASSUME NEW tf \in Over
                 PROVE  /\ Outlasted(tf).at <= lastClosed'[Outlasted(tf).tf]
                        /\ \/ Ahead(Outlasted(tf).at, Outlasted(tf).tf)
                           \/ Outlasted(tf).at <= mark[Outlasted(tf).tf]
      BY <1>d
    <3>1. /\ tf \in Restored /\ tf \in Timeframes /\ openBar[tf].at \in Nat
          /\ Ahead(openBar[tf].at, tf) \/ openBar[tf].at <= mark[tf]
      BY <1>b, <1>e
    <3>2. lastClosed'[tf] = openBar[tf].at
      BY <1>d, <3>1
    <3> QED BY <1>e, <3>1, <3>2 DEF Ahead
  <2>3. Coming = {}
    BY <1>a DEF Coming, InHand
  <2>4. \A tf \in Timeframes : openBar[tf] # NoBar =>
            Ahead(openBar[tf].at, tf) \/ openBar[tf].at <= mark[tf]
    BY DEF TicksInv, BucketsAreSpent
  <2> QED BY <1>a, <2>1, <2>2, <2>3, <2>4 DEF BucketsAreSpent, Ahead, Coming, InHand, Bucket
<1>9. BarsAreTrue'
  <2>1. \A tf \in Timeframes : builders'[tf] # NoBar =>
            End(builders'[tf].at, tf) \notin silent /\ builders'[tf].partial
    <3> SUFFICES ASSUME NEW tf \in Restored \ Over
                 PROVE  End(builders'[tf].at, tf) \notin silent /\ builders'[tf].partial
      BY <1>d
    <3>1. builders'[tf].at = openBar[tf].at /\ builders'[tf].partial
      BY <1>b, <1>c, <1>d
    <3>2. \A s \in silent : s <= clock /\ s \in Nat
      BY DEF TicksInv, TicksTypeOK, OfThePast
    <3>3. End(openBar[tf].at, tf) \notin silent
      BY <1>a, <1>b, <1>f, <3>2
    <3> QED BY <3>1, <3>3
  <2>2. \A bar \in retired' : ~bar.whole /\ ~bar.repaired /\ ~bar.current
    BY <1>d, <1>e
  <2>3. Coming = {}
    BY <1>a DEF Coming, InHand
  <2> QED BY <1>a, <2>1, <2>2, <2>3 DEF BarsAreTrue, Heard, Coming, InHand, End
<1>10. InHandIsFolded'
  BY DEF TicksInv, TicksTypeOK, InHandIsFolded, Start
<1>11. NothingIsLost'
  <2> SUFFICES ASSUME Calm, NEW tf \in Timeframes, openBar[tf] # NoBar, ~(openBar[tf].at <= mark[tf])
               PROVE  Resumed(tf)'
    BY <1>a DEF NothingIsLost, TicksInv, Calm
  <2>1. tf \in Restored
    BY DEF Restored
  <2>2. CASE tf \in Over
    <3>1. Outlasted(tf) \in retired' /\ Outlasted(tf).tf = tf /\ Outlasted(tf).at = openBar'[tf].at
      BY <1>a, <1>d, <1>e, <2>2
    <3> QED BY <3>1 DEF Resumed
  <2>3. CASE tf \notin Over
    <3>1. builders'[tf] = Again(tf)
      BY <1>d, <2>1, <2>3
    <3> QED BY <1>a, <1>c, <2>1, <3>1 DEF Resumed
  <2> QED BY <2>2, <2>3
<1>12. QuotesSurvive'
  BY DEF TicksInv, TicksTypeOK, QuotesSurvive, Start
<1> QED BY <1>1, <1>2, <1>3, <1>4, <1>5, <1>6, <1>7, <1>8, <1>9, <1>10, <1>11, <1>12
       DEF TicksInv, TicksTypeOK

\* The newest bar of the vendor has ended.
LEMMA NewestHasEnded ==
    ASSUME TicksInv, NEW tf \in Timeframes
    PROVE  /\ VendorNewest(tf) \in {Never} \cup Nat
           /\ VendorNewest(tf) # Never => End(VendorNewest(tf), tf) <= clock
<1> DEFINE over == {t \in quotes : clock >= End(Bucket(t, tf), tf)}
           S == {Never} \cup {Bucket(t, tf) : t \in over}
<1>1. clock \in Nat /\ Length[tf] \in Nat \ {0} /\ quotes \subseteq Nat
  BY TickBarsAssumption DEF TicksInv, TicksTypeOK
<1>2. \A t \in over : Bucket(t, tf) \in Nat /\ End(Bucket(t, tf), tf) <= clock
  <2> TAKE t \in over
  <2>1. Bucket(t, tf) \in Nat /\ End(Bucket(t, tf), tf) \in Nat
    BY <1>1, BucketFacts DEF End
  <2> QED BY <1>1, <2>1
<1>3. \A at \in S : at = Never \/ (at \in Nat /\ End(at, tf) <= clock)
  BY <1>2
<1>4. S \subseteq -1..clock
  <2> SUFFICES ASSUME NEW at \in S PROVE at \in -1..clock
    OBVIOUS
  <2>1. at = Never \/ (at \in Nat /\ at + Length[tf] <= clock)
    BY <1>3 DEF End
  <2> HIDE DEF S
  <2> QED BY <1>1, <2>1
<1>5. Max(S) \in S
  <2>1. S # {}
    OBVIOUS
  <2> HIDE DEF S
  <2> QED BY <1>1, <1>4, <2>1, LatestExists
<1>6. VendorNewest(tf) = Max(S)
  BY DEF VendorNewest
<1> HIDE DEF S
<1> QED BY <1>3, <1>5, <1>6

LEMMA BackfillKeeps ==
    ASSUME TicksInv, Backfill
    PROVE  TicksInv'
<1>a. /\ holder = "start" /\ step = "backfill" /\ step' = "join" /\ service = "starting" /\ retired = {}
      /\ flying = {} /\ inHand = Never
      /\ UNCHANGED <<clock, quotes, service, listening, flying, missed, silent, deaf, builders,
                     lastClosed, joined, retired, holder, inHand, unsaved, failed, flushing, openBar,
                     closes, kept, crashes, faults, flushes>>
  BY DEF Backfill, TicksInv, TicksTypeOK, InOneHand
<1>b. \A tf \in Timeframes : mark[tf] \in {Never} \cup Nat /\ (mark[tf] # Never => End(mark[tf], tf) <= clock)
  BY DEF TicksInv, TicksTypeOK, OfThePast
<1>c. /\ mark' = [tf \in Timeframes |-> mark'[tf]]
      /\ \A tf \in Timeframes : /\ mark'[tf] \in {Never} \cup Nat
                                /\ mark[tf] <= mark'[tf]
                                /\ mark'[tf] # Never => End(mark'[tf], tf) <= clock
  <2>1. PICK served \in SUBSET Timeframes :
           mark' = [tf \in Timeframes |->
              IF tf \in served THEN Max({mark[tf], VendorNewest(tf)}) ELSE mark[tf]]
    BY DEF Backfill
  <2>2. \A tf \in Timeframes : /\ Max({mark[tf], VendorNewest(tf)}) \in {mark[tf], VendorNewest(tf)}
                               /\ mark[tf] <= Max({mark[tf], VendorNewest(tf)})
    <3> TAKE tf \in Timeframes
    <3>1. VendorNewest(tf) \in {Never} \cup Nat /\ (VendorNewest(tf) # Never => End(VendorNewest(tf), tf) <= clock)
      BY NewestHasEnded
    <3>2. clock \in Nat /\ Length[tf] \in Nat
      BY TickBarsAssumption DEF TicksInv, TicksTypeOK
    <3> DEFINE S == {mark[tf], VendorNewest(tf)}
    <3>3. S \subseteq -1..clock /\ S # {} /\ mark[tf] \in S
      BY <1>b, <3>1, <3>2 DEF End
    <3> HIDE DEF S
    <3>4. Max(S) \in S /\ mark[tf] <= Max(S)
      BY <3>2, <3>3, LatestExists
    <3> QED BY <3>4 DEF S
  <2>3. \A tf \in Timeframes : mark'[tf] = IF tf \in served THEN Max({mark[tf], VendorNewest(tf)}) ELSE mark[tf]
    BY <2>1
  <2>4. mark' = [tf \in Timeframes |-> mark'[tf]]
    BY <2>1
  <2>5. ASSUME NEW tf \in Timeframes
        PROVE  /\ mark'[tf] \in {Never} \cup Nat
               /\ mark[tf] <= mark'[tf]
               /\ mark'[tf] # Never => End(mark'[tf], tf) <= clock
    <3>1. mark'[tf] \in {mark[tf], VendorNewest(tf)} /\ mark[tf] <= mark'[tf]
      <4>1. CASE tf \in served
        BY <2>2, <2>3, <4>1
      <4>2. CASE tf \notin served
        <5>1. mark'[tf] = mark[tf]
          BY <2>3, <4>2
        <5>2. mark[tf] \in Int
          BY <1>b
        <5> QED BY <5>1, <5>2
      <4> QED BY <4>1, <4>2
    <3>2. VendorNewest(tf) \in {Never} \cup Nat /\ (VendorNewest(tf) # Never => End(VendorNewest(tf), tf) <= clock)
      BY NewestHasEnded
    <3> QED BY <1>b, <3>1, <3>2
  <2> QED BY <2>4, <2>5
<1>1. MarketType'
  BY DEF TicksInv, TicksTypeOK, Backfill, VendorNewest
<1>2. ResamplerType'
  BY DEF TicksInv, TicksTypeOK, Backfill, VendorNewest, NoBar, Never
<1>3. LockType'
  BY DEF TicksInv, TicksTypeOK, Backfill, VendorNewest, NoFlush, Never
<1>4. RedisType'
  BY <1>a, <1>c DEF TicksInv, TicksTypeOK
<1>5. InOneHand'
  BY DEF TicksInv, TicksTypeOK, InOneHand, Backfill, VendorNewest, NoFlush, Never, Emitting
<1>6. OfThePast'
  BY <1>a, <1>c DEF TicksInv, OfThePast, Coming, InHand, Holds, End, Bucket
<1>7. OneOfASeries'
  BY DEF TicksInv, TicksTypeOK, OneOfASeries, Backfill, VendorNewest
<1>8. BucketsAreSpent'
  <2>1. \A tf \in Timeframes : openBar[tf] # NoBar =>
            Ahead(openBar[tf].at, tf) \/ openBar[tf].at <= mark'[tf]
    <3> SUFFICES ASSUME NEW tf \in Timeframes, openBar[tf] # NoBar, ~Ahead(openBar[tf].at, tf)
                 PROVE  openBar[tf].at <= mark'[tf]
      OBVIOUS
    <3>1. openBar[tf].at <= mark[tf] /\ openBar[tf].at \in Int
      BY BarOrNone DEF TicksInv, TicksTypeOK, BucketsAreSpent
    <3> QED BY <1>b, <1>c, <3>1
  <2>2. /\ \A tf \in Timeframes : builders[tf] # NoBar =>
              Ahead(builders[tf].at, tf) /\ lastClosed[tf] < builders[tf].at
        /\ \A bar \in closes : \/ bar.at <= lastClosed[bar.tf]
                               \/ \A t \in Coming : bar.at < Bucket(t, bar.tf)
    BY DEF TicksInv, BucketsAreSpent
  <2> QED BY <1>a, <2>1, <2>2 DEF BucketsAreSpent, Ahead, Coming, InHand, Bucket
<1>9. BarsAreTrue'
  BY DEF TicksInv, TicksTypeOK, BarsAreTrue, Backfill, VendorNewest, Heard, Coming, InHand, Quotes
<1>10. InHandIsFolded'
  BY DEF TicksInv, TicksTypeOK, InHandIsFolded, Backfill, VendorNewest
<1>11. NothingIsLost'
  <2> SUFFICES ASSUME Calm, NEW tf \in Timeframes, openBar[tf] # NoBar
               PROVE  openBar[tf].at <= mark'[tf] \/ Resumed(tf)
    BY <1>a DEF NothingIsLost, TicksInv, Calm, Resumed
  <2>1. openBar[tf].at \in Int
    BY BarOrNone DEF TicksInv, TicksTypeOK
  <2>2. openBar[tf].at <= mark[tf] \/ Resumed(tf)
    BY <1>a DEF NothingIsLost, TicksInv
  <2> QED BY <1>b, <1>c, <2>1, <2>2
<1>12. QuotesSurvive'
  <2> SUFFICES ASSUME Calm, NEW s \in Timeframes, NEW t \in kept[s]
               PROVE  Bucket(t, s) <= mark'[s] \/ t \in openBar[s].heard
    BY <1>a DEF TicksInv, TicksTypeOK, QuotesSurvive, Calm, Bucket
  <2>1. Bucket(t, s) <= mark[s] \/ t \in openBar[s].heard
    BY DEF TicksInv, TicksTypeOK, QuotesSurvive, Calm
  <2>2. Bucket(t, s) \in Nat
    BY BucketFacts DEF TicksInv, TicksTypeOK
  <2> QED BY <1>b, <1>c, <2>1, <2>2
<1> QED BY <1>1, <1>2, <1>3, <1>4, <1>5, <1>6, <1>7, <1>8, <1>9, <1>10, <1>11, <1>12
       DEF TicksInv, TicksTypeOK

LEMMA JoinKeeps ==
    ASSUME TicksInv, Join
    PROVE  TicksInv'
<1>a. /\ holder = "start" /\ step = "join" /\ service = "starting" /\ service' = "up" /\ joined' = clock + 1
      /\ flying = {} /\ inHand = Never /\ clock \in Nat
      /\ listening' \in BOOLEAN /\ holder' = "nobody" /\ step' = "idle" /\ inHand' = Never
      /\ unsaved' = {} /\ failed' = FALSE
      /\ UNCHANGED <<clock, quotes, flying, missed, silent, deaf, builders, lastClosed, retired,
                     flushing, openBar, mark, closes, kept, crashes, faults, flushes>>
  BY DEF Join, Release, Moment, TicksInv, TicksTypeOK, InOneHand
<1>1. MarketType'
  BY DEF TicksInv, TicksTypeOK, Join, Release, Moment
<1>2. ResamplerType'
  BY DEF TicksInv, TicksTypeOK, Join, Release, Moment, NoBar, Never
<1>3. LockType'
  BY DEF TicksInv, TicksTypeOK, Join, Release, Moment, NoFlush, Never
<1>4. RedisType'
  BY DEF TicksInv, TicksTypeOK, Join, Release, Moment, NoBar, Never
<1>5. InOneHand'
  BY DEF TicksInv, TicksTypeOK, InOneHand, Join, Release, Moment, NoFlush, Never, Emitting
<1>6. OfThePast'
  BY DEF TicksInv, TicksTypeOK, OfThePast, Join, Release, Moment, Coming, InHand, Holds, End, NoBar
<1>7. OneOfASeries'
  BY DEF TicksInv, TicksTypeOK, OneOfASeries, Join, Release, Moment
<1>8. BucketsAreSpent'
  <2>1. \A bar \in retired : bar.at <= lastClosed[bar.tf] /\ Ahead(bar.at, bar.tf)
    BY <1>a DEF TicksInv, InOneHand
  <2>2. Coming' = {}
    BY <1>a DEF Coming, InHand
  <2>3. /\ \A tf \in Timeframes : builders[tf] # NoBar =>
              Ahead(builders[tf].at, tf) /\ lastClosed[tf] < builders[tf].at
        /\ \A tf \in Timeframes : openBar[tf] # NoBar =>
              Ahead(openBar[tf].at, tf) \/ openBar[tf].at <= mark[tf]
    BY DEF TicksInv, BucketsAreSpent
  <2> QED BY <1>a, <2>1, <2>2, <2>3 DEF BucketsAreSpent, Ahead
<1>9. BarsAreTrue'
  <2>1. retired = {} /\ flushing = NoFlush
    BY <1>a DEF TicksInv, InOneHand
  <2>2. \A t \in missed : t <= clock /\ t \in Nat
    BY DEF TicksInv, TicksTypeOK, OfThePast
  <2>3. Heard(joined')
    <3> SUFFICES ASSUME NEW t \in missed, t >= joined' PROVE FALSE
      BY DEF Heard
    <3> QED BY <1>a, <2>2
  <2>4. Coming' = {}
    BY <1>a DEF Coming, InHand
  <2>5. \A tf \in Timeframes : builders[tf] # NoBar =>
            End(builders[tf].at, tf) \notin silent /\ builders[tf].partial
    BY <1>a DEF TicksInv, BarsAreTrue
  <2> QED BY <1>a, <2>1, <2>3, <2>4, <2>5 DEF BarsAreTrue, Heard, End
<1>10. InHandIsFolded'
  BY DEF TicksInv, TicksTypeOK, InHandIsFolded, Join, Release, Moment
<1>11. NothingIsLost'
  <2> SUFFICES ASSUME Calm, NEW tf \in Timeframes, openBar[tf] # NoBar, ~(openBar[tf].at <= mark[tf])
               PROVE  Resumed(tf)
    BY <1>a DEF NothingIsLost, TicksInv, Calm, Resumed
  <2> QED BY <1>a DEF NothingIsLost, TicksInv
<1>12. QuotesSurvive'
  BY DEF TicksInv, TicksTypeOK, QuotesSurvive, Join, Release, Moment
<1> QED BY <1>1, <1>2, <1>3, <1>4, <1>5, <1>6, <1>7, <1>8, <1>9, <1>10, <1>11, <1>12
       DEF TicksInv, TicksTypeOK

LEMMA KilledKeeps ==
    ASSUME TicksInv, Killed
    PROVE  TicksInv'
<1>a. crashes' \in Nat /\ UNCHANGED <<faults, flushes>>
  BY DEF Killed, TicksInv, TicksTypeOK
<1>1. MarketType'
  BY DEF TicksInv, TicksTypeOK, Killed, Dies, Release
<1>2. ResamplerType'
  BY DEF TicksInv, TicksTypeOK, Killed, Dies, Release, NoBar, Never
<1>3. LockType'
  BY <1>a DEF Killed, Dies, Release, NoFlush, TicksInv, TicksTypeOK
<1>4. RedisType'
  BY DEF TicksInv, TicksTypeOK, Killed, Dies, Release, NoBar, Never
<1>5. InOneHand'
  BY DEF TicksInv, TicksTypeOK, InOneHand, Killed, Dies, Release, NoFlush, Never, Emitting
<1>6. OfThePast'
  BY DEF TicksInv, TicksTypeOK, OfThePast, Killed, Dies, Release, Coming, InHand, Holds, End, NoBar
<1>7. OneOfASeries'
  BY DEF TicksInv, TicksTypeOK, OneOfASeries, Killed, Dies, Release
<1>8. BucketsAreSpent'
  BY DEF TicksInv, TicksTypeOK, BucketsAreSpent, Killed, Dies, Release, Ahead, Coming, InHand
<1>9. BarsAreTrue'
  BY DEF TicksInv, TicksTypeOK, BarsAreTrue, Killed, Dies, Release, Heard, Coming, InHand, Quotes
<1>10. InHandIsFolded'
  BY DEF TicksInv, TicksTypeOK, InHandIsFolded, Killed, Dies, Release
<1>11. NothingIsLost'
  BY DEF TicksInv, TicksTypeOK, NothingIsLost, Killed, Dies, Release, Calm, Resumed
<1>12. QuotesSurvive'
  BY DEF TicksInv, TicksTypeOK, QuotesSurvive, Killed, Dies, Release
<1> QED BY <1>1, <1>2, <1>3, <1>4, <1>5, <1>6, <1>7, <1>8, <1>9, <1>10, <1>11, <1>12
       DEF TicksInv, TicksTypeOK

LEMMA SocketOpensKeeps ==
    ASSUME TicksInv, SocketOpens
    PROVE  TicksInv'
<1>1. MarketType'
  BY DEF TicksInv, TicksTypeOK, SocketOpens
<1>2. ResamplerType'
  BY DEF TicksInv, TicksTypeOK, SocketOpens, NoBar, Never
<1>3. LockType'
  BY DEF TicksInv, TicksTypeOK, SocketOpens, NoFlush, Never
<1>4. RedisType'
  BY DEF TicksInv, TicksTypeOK, SocketOpens, NoBar, Never
<1>5. InOneHand'
  BY DEF TicksInv, TicksTypeOK, InOneHand, SocketOpens, NoFlush, Never, Emitting
<1>6. OfThePast'
  BY DEF TicksInv, TicksTypeOK, OfThePast, SocketOpens, Coming, InHand, Holds, End, NoBar
<1>7. OneOfASeries'
  BY DEF TicksInv, TicksTypeOK, OneOfASeries, SocketOpens
<1>8. BucketsAreSpent'
  BY DEF TicksInv, TicksTypeOK, BucketsAreSpent, SocketOpens, Ahead, Coming, InHand
<1>9. BarsAreTrue'
  BY DEF TicksInv, TicksTypeOK, BarsAreTrue, SocketOpens, Heard, Coming, InHand, Quotes
<1>10. InHandIsFolded'
  BY DEF TicksInv, TicksTypeOK, InHandIsFolded, SocketOpens
<1>11. NothingIsLost'
  BY DEF TicksInv, TicksTypeOK, NothingIsLost, SocketOpens, Calm, Resumed
<1>12. QuotesSurvive'
  BY DEF TicksInv, TicksTypeOK, QuotesSurvive, SocketOpens
<1> QED BY <1>1, <1>2, <1>3, <1>4, <1>5, <1>6, <1>7, <1>8, <1>9, <1>10, <1>11, <1>12
       DEF TicksInv, TicksTypeOK

LEMMA SocketDropsKeeps ==
    ASSUME TicksInv, SocketDrops
    PROVE  TicksInv'
<1>1. MarketType'
  BY DEF TicksInv, TicksTypeOK, SocketDrops
<1>2. ResamplerType'
  BY DEF TicksInv, TicksTypeOK, SocketDrops, NoBar, Never
<1>3. LockType'
  BY DEF TicksInv, TicksTypeOK, SocketDrops, NoFlush, Never
<1>4. RedisType'
  BY DEF TicksInv, TicksTypeOK, SocketDrops, NoBar, Never
<1>5. InOneHand'
  BY DEF TicksInv, TicksTypeOK, InOneHand, SocketDrops, NoFlush, Never, Emitting
<1>6. OfThePast'
  BY DEF TicksInv, TicksTypeOK, OfThePast, SocketDrops, Coming, InHand, Holds, End, NoBar
<1>7. OneOfASeries'
  BY DEF TicksInv, TicksTypeOK, OneOfASeries, SocketDrops
<1>8. BucketsAreSpent'
  BY DEF TicksInv, TicksTypeOK, BucketsAreSpent, SocketDrops, Ahead, Coming, InHand
<1>9. BarsAreTrue'
  BY DEF TicksInv, TicksTypeOK, BarsAreTrue, SocketDrops, Heard, Coming, InHand, Quotes
<1>10. InHandIsFolded'
  BY DEF TicksInv, TicksTypeOK, InHandIsFolded, SocketDrops
<1>11. NothingIsLost'
  BY DEF TicksInv, TicksTypeOK, NothingIsLost, SocketDrops, Calm, Resumed
<1>12. QuotesSurvive'
  BY DEF TicksInv, TicksTypeOK, QuotesSurvive, SocketDrops
<1> QED BY <1>1, <1>2, <1>3, <1>4, <1>5, <1>6, <1>7, <1>8, <1>9, <1>10, <1>11, <1>12
       DEF TicksInv, TicksTypeOK

LEMMA FlushAskedKeeps ==
    ASSUME TicksInv, FlushAsked
    PROVE  TicksInv'
<1>a. /\ service = "up" /\ flushing = NoFlush /\ clock \in Nat
      /\ flushing' = [left |-> Timeframes, moment |-> clock + 1] /\ flushing'.moment = clock + 1
      /\ UNCHANGED <<clock, quotes, service, listening, flying, missed, silent, deaf, builders,
                     lastClosed, joined, retired, holder, step, inHand, unsaved, failed, openBar, mark,
                     closes, kept, crashes, faults>>
  BY DEF FlushAsked, Moment, TicksInv, TicksTypeOK
<1>1. MarketType'
  BY DEF TicksInv, TicksTypeOK, FlushAsked, Moment
<1>2. ResamplerType'
  BY DEF TicksInv, TicksTypeOK, FlushAsked, Moment, NoBar, Never
<1>3. LockType'
  BY DEF TicksInv, TicksTypeOK, FlushAsked, Moment, NoFlush, Never
<1>4. RedisType'
  BY DEF TicksInv, TicksTypeOK, FlushAsked, Moment, NoBar, Never
<1>5. InOneHand'
  BY DEF TicksInv, TicksTypeOK, InOneHand, FlushAsked, Moment, NoFlush, Never, Emitting
<1>6. OfThePast'
  BY DEF TicksInv, TicksTypeOK, OfThePast, FlushAsked, Moment, Coming, InHand, Holds, End, NoBar
<1>7. OneOfASeries'
  BY DEF TicksInv, TicksTypeOK, OneOfASeries, FlushAsked, Moment
<1>8. BucketsAreSpent'
  BY DEF TicksInv, TicksTypeOK, BucketsAreSpent, FlushAsked, Moment, Ahead, Coming, InHand
<1>9. BarsAreTrue'
  <2>1. Heard(clock + 1)
    BY <1>a DEF Heard, TicksInv, TicksTypeOK, OfThePast
  <2> QED BY <1>a, <2>1 DEF TicksInv, BarsAreTrue, Heard, Coming, InHand, Quotes, End, InBucket
<1>10. InHandIsFolded'
  BY DEF TicksInv, TicksTypeOK, InHandIsFolded, FlushAsked, Moment
<1>11. NothingIsLost'
  BY DEF TicksInv, TicksTypeOK, NothingIsLost, FlushAsked, Moment, Calm, Resumed
<1>12. QuotesSurvive'
  BY DEF TicksInv, TicksTypeOK, QuotesSurvive, FlushAsked, Moment
<1> QED BY <1>1, <1>2, <1>3, <1>4, <1>5, <1>6, <1>7, <1>8, <1>9, <1>10, <1>11, <1>12
       DEF TicksInv, TicksTypeOK

LEMMA FlushDiscardsKeeps ==
    ASSUME TicksInv, NEW tf \in Timeframes, FlushDiscards(tf)
    PROVE  TicksInv'
<1>a. /\ service = "up" /\ holder # "start" /\ flushing # NoFlush /\ flushes > 0
      /\ flushing' = [flushing EXCEPT !.left = @ \ {tf}] /\ flushing'.moment = flushing.moment
      /\ openBar' = [openBar EXCEPT ![tf] = NoBar] /\ mark' = [mark EXCEPT ![tf] = Never]
      /\ UNCHANGED <<clock, quotes, service, listening, flying, missed, silent, deaf, builders,
                     lastClosed, joined, retired, holder, step, inHand, unsaved, failed,
                     closes, crashes, faults, flushes>>
  BY DEF FlushDiscards, TicksInv, TicksTypeOK, InOneHand, NoFlush
<1>b. /\ openBar \in [Timeframes -> {NoBar} \cup BarsUnderWay]
      /\ mark \in [Timeframes -> {Never} \cup Nat]
  BY DEF TicksInv, TicksTypeOK
<1>1. MarketType'
  BY DEF TicksInv, TicksTypeOK, FlushDiscards
<1>2. ResamplerType'
  BY DEF TicksInv, TicksTypeOK, FlushDiscards, NoBar, Never
<1>3. LockType'
  BY DEF TicksInv, TicksTypeOK, FlushDiscards, NoFlush, Never
<1>4. RedisType'
  BY DEF TicksInv, TicksTypeOK, FlushDiscards, NoBar, Never
<1>5. InOneHand'
  BY DEF TicksInv, TicksTypeOK, InOneHand, FlushDiscards, NoFlush, Never, Emitting
<1>6. OfThePast'
  BY DEF TicksInv, TicksTypeOK, OfThePast, FlushDiscards, Coming, InHand, Holds, End, NoBar
<1>7. OneOfASeries'
  BY DEF TicksInv, TicksTypeOK, OneOfASeries, FlushDiscards
<1>8. BucketsAreSpent'
  <2>1. \A s \in Timeframes : openBar'[s] # NoBar =>
            Ahead(openBar'[s].at, s) \/ openBar'[s].at <= mark'[s]
    <3> SUFFICES ASSUME NEW s \in Timeframes, openBar'[s] # NoBar
                 PROVE  Ahead(openBar'[s].at, s) \/ openBar'[s].at <= mark'[s]
      OBVIOUS
    <3>1. openBar'[s] = openBar[s] /\ mark'[s] = mark[s]
      BY <1>a, <1>b
    <3> QED BY <3>1 DEF TicksInv, BucketsAreSpent
  <2>2. \A bar \in retired : bar.at <= lastClosed[bar.tf] /\ Ahead(bar.at, bar.tf)
    BY <1>a DEF TicksInv, BucketsAreSpent
  <2>3. /\ \A s \in Timeframes : builders[s] # NoBar =>
              Ahead(builders[s].at, s) /\ lastClosed[s] < builders[s].at
        /\ \A bar \in closes : \/ bar.at <= lastClosed[bar.tf]
                               \/ \A t \in Coming : bar.at < Bucket(t, bar.tf)
    BY DEF TicksInv, BucketsAreSpent
  <2> QED BY <1>a, <2>1, <2>2, <2>3 DEF BucketsAreSpent, Ahead, Coming, InHand, Bucket
<1>9. BarsAreTrue'
  <2>1. flushing # NoFlush => Heard(flushing.moment)
    BY DEF TicksInv, BarsAreTrue
  <2> QED BY <1>a, <2>1 DEF TicksInv, BarsAreTrue, Heard, Coming, InHand, Quotes, End, InBucket
<1>10. InHandIsFolded'
  BY DEF TicksInv, TicksTypeOK, InHandIsFolded, FlushDiscards
<1>11. NothingIsLost'
  <2>1. ~Calm'
    BY <1>a DEF Calm, TicksInv, TicksTypeOK
  <2> QED BY <2>1 DEF NothingIsLost, Calm
<1>12. QuotesSurvive'
  BY DEF TicksInv, TicksTypeOK, QuotesSurvive, FlushDiscards
<1> QED BY <1>1, <1>2, <1>3, <1>4, <1>5, <1>6, <1>7, <1>8, <1>9, <1>10, <1>11, <1>12
       DEF TicksInv, TicksTypeOK

LEMMA FlushJoinsKeeps ==
    ASSUME TicksInv, FlushJoins
    PROVE  TicksInv'
<1>1. MarketType'
  BY DEF TicksInv, TicksTypeOK, FlushJoins
<1>2. ResamplerType'
  BY DEF TicksInv, TicksTypeOK, FlushJoins, NoBar, Never
<1>3. LockType'
  BY DEF TicksInv, TicksTypeOK, FlushJoins, NoFlush, Never
<1>4. RedisType'
  BY DEF TicksInv, TicksTypeOK, FlushJoins, NoBar, Never
<1>5. InOneHand'
  BY DEF TicksInv, TicksTypeOK, InOneHand, FlushJoins, NoFlush, Never, Emitting
<1>6. OfThePast'
  BY DEF TicksInv, TicksTypeOK, OfThePast, FlushJoins, Coming, InHand, Holds, End, NoBar
<1>7. OneOfASeries'
  BY DEF TicksInv, TicksTypeOK, OneOfASeries, FlushJoins
<1>8. BucketsAreSpent'
  BY DEF TicksInv, TicksTypeOK, BucketsAreSpent, FlushJoins, Ahead, Coming, InHand
<1>9. BarsAreTrue'
  BY DEF TicksInv, TicksTypeOK, BarsAreTrue, FlushJoins, Heard, Coming, InHand, Quotes
<1>10. InHandIsFolded'
  BY DEF TicksInv, TicksTypeOK, InHandIsFolded, FlushJoins
<1>11. NothingIsLost'
  BY DEF TicksInv, TicksTypeOK, NothingIsLost, FlushJoins, Calm, Resumed
<1>12. QuotesSurvive'
  BY DEF TicksInv, TicksTypeOK, QuotesSurvive, FlushJoins
<1> QED BY <1>1, <1>2, <1>3, <1>4, <1>5, <1>6, <1>7, <1>8, <1>9, <1>10, <1>11, <1>12
       DEF TicksInv, TicksTypeOK

-----------------------------------------------------------------------------
(* All of it. *)

LEMMA TicksStart == TicksInit => TicksInv
<1> SUFFICES ASSUME TicksInit PROVE TicksInv
  OBVIOUS
<1>1. TicksTypeOK
  BY DEF TicksInit, TicksTypeOK, NoFlush
<1>2. InOneHand /\ OneOfASeries /\ InHandIsFolded
  BY DEF TicksInit, InOneHand, OneOfASeries, InHandIsFolded, NoFlush
<1>3. OfThePast
  BY DEF TicksInit, OfThePast, Coming, InHand, Holds
<1>4. BucketsAreSpent /\ BarsAreTrue
  BY DEF TicksInit, BucketsAreSpent, BarsAreTrue, Coming, InHand
<1>5. NothingIsLost
  BY DEF TicksInit, NothingIsLost
<1>6. QuotesSurvive
  BY DEF TicksInit, QuotesSurvive
<1> QED BY <1>1, <1>2, <1>3, <1>4, <1>5, <1>6 DEF TicksInv

LEMMA TicksStand ==
    ASSUME TicksInv, UNCHANGED tickVars
    PROVE  TicksInv'
<1>1. /\ UNCHANGED <<clock, quotes, service, listening, flying, missed, silent, deaf, builders,
                     lastClosed, joined, retired, holder, step, inHand>>
      /\ UNCHANGED <<unsaved, failed, flushing, openBar, mark, closes, kept, crashes, faults, flushes>>
  BY DEF tickVars
<1>2. TicksTypeOK' /\ InOneHand' /\ OneOfASeries' /\ InHandIsFolded'
  BY <1>1 DEF TicksInv, TicksTypeOK, InOneHand, OneOfASeries, InHandIsFolded, Bucket
<1>3. OfThePast'
  BY <1>1 DEF TicksInv, OfThePast, Coming, InHand, Holds, End, Bucket
<1>4. BucketsAreSpent'
  BY <1>1 DEF TicksInv, BucketsAreSpent, Ahead, Coming, InHand, Bucket
<1>5. BarsAreTrue'
  BY <1>1 DEF TicksInv, BarsAreTrue, Heard, Coming, InHand, Quotes, End, InBucket
<1>6. NothingIsLost' /\ QuotesSurvive'
  BY <1>1 DEF TicksInv, NothingIsLost, Calm, Resumed, QuotesSurvive, Bucket
<1> QED BY <1>2, <1>3, <1>4, <1>5, <1>6 DEF TicksInv

LEMMA TicksStep == TicksInv /\ [TicksNext]_tickVars => TicksInv'
<1> SUFFICES ASSUME TicksInv, [TicksNext]_tickVars PROVE TicksInv'
  OBVIOUS
<1>1. CASE UNCHANGED tickVars
  BY <1>1, TicksStand
<1>2. CASE TicksNext
  <2>1. CASE TimePasses
    BY <2>1, TimePassesKeeps
  <2>2. CASE Emission \/ EmitFails
    BY <2>2, StageNextKeeps, RepairNextKeeps, EmitEndsKeeps, EmitFailsKeeps DEF Emission
  <2>3. CASE \E t \in Instants : TickTaken(t)
    BY <2>3, TickTakenKeeps
  <2>4. CASE Handles \/ TickFails
    BY <2>4, FoldKeeps, PersistKeeps, TickDoneKeeps, TickFailsKeeps DEF Handles
  <2>5. CASE FlushLoop
    BY <2>5, ClockTurnsKeeps, CloseEndedKeeps DEF FlushLoop
  <2>6. CASE Start \/ Backfill \/ Join \/ Killed
    BY <2>6, StartKeeps, BackfillKeeps, JoinKeeps, KilledKeeps
  <2>7. CASE SocketOpens \/ SocketDrops
    BY <2>7, SocketOpensKeeps, SocketDropsKeeps
  <2>8. CASE FlushAsked \/ (\E tf \in Timeframes : FlushDiscards(tf)) \/ FlushJoins
    BY <2>8, FlushAskedKeeps, FlushDiscardsKeeps, FlushJoinsKeeps
  <2> QED BY <1>2, <2>1, <2>2, <2>3, <2>4, <2>5, <2>6, <2>7, <2>8 DEF TicksNext
<1> QED BY <1>1, <1>2

\* The inductive invariant of the tick path: it holds in every state.
LEMMA TicksInvariant == TicksSpec => []TicksInv
BY TicksStart, TicksStep, PTL DEF TicksSpec

\* Every variable of the tick path keeps its type: the bars that the resampler holds and
\* retires, the locks, and what Redis keeps (resampler.py, _builders and _last_closed).
THEOREM TicksTypeCorrect == TicksSpec => []TicksTypeOK
<1>1. TicksInv => TicksTypeOK
  BY DEF TicksInv
<1> QED BY <1>1, TicksInvariant, PTL

\* A quote whose handler succeeded is in Redis from then on, in the bar under way or behind
\* the watermark, through every restart: what _persist_open_bar writes is what a start
\* restores (service.py, _restore_open_candles), as long as no call failed and nobody flushed.
THEOREM QuotesOutliveRestarts == TicksSpec => []QuotesSurvive
<1>1. TicksInv => QuotesSurvive
  BY DEF TicksInv
<1> QED BY <1>1, TicksInvariant, PTL

\* Only staging stages: the one bar it stages is whole or mended, and ahead of the watermark
\* or known to be at or behind it.
LEMMA OnlyStagingStages ==
    ASSUME TicksInv, [TicksNext]_tickVars, NEW bar \in closes' \ closes
    PROVE  /\ bar \in retired /\ bar \in BarsSpent
           /\ ~(bar.at <= mark[bar.tf])
<1>1. closes' # closes
  OBVIOUS
<1>2. CASE StageNext
  <2>1. PICK b \in WholeOnes : StageBar(b)
    BY <1>2 DEF StageNext
  <2>2. ~(b.at <= mark[b.tf]) /\ closes' = closes \cup {b}
    BY <1>1, <2>1 DEF StageBar
  <2>3. bar = b /\ bar \in retired
    BY <2>1, <2>2 DEF WholeOnes
  <2> QED BY <2>2, <2>3 DEF TicksInv, TicksTypeOK
<1>3. CASE ~StageNext
  <2>1. closes' = closes
    <3>1. CASE UNCHANGED tickVars
      BY <3>1 DEF tickVars
    <3>2. CASE RepairNext \/ EmitEnds \/ EmitFails \/ Start \/ Backfill \/ Join \/ Killed
      BY <3>2 DEF RepairNext, EmitEnds, EmitFails, Start, Backfill, Join, Killed
    <3>3. CASE TimePasses \/ (\E t \in Instants : TickTaken(t)) \/ Fold \/ TickDone \/ TickFails
      BY <3>3 DEF TimePasses, TickTaken, Fold, TickDone, TickFails
    <3>4. CASE (\E tf \in Timeframes : Persist(tf)) \/ FlushLoop \/ SocketOpens \/ SocketDrops
      BY <3>4 DEF Persist, FlushLoop, ClockTurns, CloseEnded, SocketOpens, SocketDrops
    <3>5. CASE FlushAsked \/ (\E tf \in Timeframes : FlushDiscards(tf)) \/ FlushJoins
      BY <3>5 DEF FlushAsked, FlushDiscards, FlushJoins
    <3> QED BY <1>3, <3>1, <3>2, <3>3, <3>4, <3>5 DEF TicksNext, Emission, Handles
  <2> QED BY <1>1, <2>1
<1> QED BY <1>2, <1>3

\* A bar is only ever staged ahead of every bar staged before it in its series: no late
\* quote, restart, failed call or flush brings a bucket back (resampler.py, _last_closed;
\* stage_closed_candle's watermark).
THEOREM BarsMoveForward == TicksSpec => StagesForward
<1>1. ASSUME TicksInv, [TicksNext]_tickVars, NEW bar \in closes' \ closes, NEW old \in closes,
             bar.tf = old.tf
      PROVE  bar.at > old.at
  <2>1. bar \in retired /\ bar \in BarsSpent /\ ~(bar.at <= mark[bar.tf])
    BY <1>1, OnlyStagingStages
  <2>2. Ahead(bar.at, bar.tf)
    BY <1>1, <2>1 DEF TicksInv, BucketsAreSpent
  <2>3. old.at < bar.at /\ old.at \in Nat /\ bar.at \in Nat
    BY <1>1, <2>1, <2>2 DEF Ahead, TicksInv, TicksTypeOK, BarsSpent
  <2> QED BY <2>3
<1>2. TicksInv /\ [TicksNext]_tickVars =>
        [\A bar \in closes' \ closes, old \in closes :
            bar.tf = old.tf => bar.at > old.at]_tickVars
  BY <1>1
<1> QED BY <1>2, TicksInvariant, PTL DEF TicksSpec, StagesForward

\* What is staged is what the market did: a whole bar missed no quote of its bucket except
\* while the socket was closed, and a mended one whose bucket ended while the service was down
\* closes at the last quote of the bucket (resampler.py, partial; repair.py, merge_partial_bar).
THEOREM BarsAreHonest == TicksSpec => StagedBarsAreTrue
<1>1. ASSUME TicksInv, [TicksNext]_tickVars, NEW bar \in closes' \ closes
      PROVE  IsTrue(bar)
  <2>1. bar \in retired /\ bar \in BarsSpent
    BY <1>1, OnlyStagingStages
  <2>2. /\ bar.whole => Heard(bar.at)
        /\ bar.current => End(bar.at, bar.tf) \notin silent
        /\ bar.repaired /\ ~bar.current => bar.last = Max(Quotes(bar))
    BY <1>1, <2>1 DEF TicksInv, BarsAreTrue
  <2>3. bar.whole => Quotes(bar) \cap missed \subseteq deaf
    <3> SUFFICES ASSUME bar.whole, NEW t \in Quotes(bar), t \in missed PROVE t \in deaf
      OBVIOUS
    <3>1. bar.at \in Nat /\ Length[bar.tf] \in Nat
      BY <2>1, TickBarsAssumption DEF BarsSpent
    <3>2. t >= bar.at
      BY <3>1 DEF Quotes, InBucket, End
    <3> QED BY <2>2, <3>2 DEF Heard
  <2> QED BY <2>2, <2>3 DEF IsTrue
<1>2. TicksInv /\ [TicksNext]_tickVars =>
        [\A bar \in closes' \ closes : IsTrue(bar)]_tickVars
  BY <1>1
<1> QED BY <1>2, TicksInvariant, PTL DEF TicksSpec, StagedBarsAreTrue
==============================================================================
