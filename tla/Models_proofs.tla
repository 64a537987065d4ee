----------------------------- MODULE Models_proofs -----------------------------
(***************************************************************************)
(* Proofs about the parts of MCModels that have no proof module of their   *)
(* own, each for any values of its constants: the windowed rate, the lists *)
(* of the detail window, the packaging of a commit and the history behind  *)
(* the curve of a card; and about the parts beside one another.            *)
(***************************************************************************)
EXTENDS MCModels, MicroProjection_proofs, DataLemmas

(* Where the window of a sequence of samples begins.                        *)
Begin(samples) ==
    LET old == {i \in DOMAIN samples : samples[i].at <= clock - Window}
    IN  IF old = {} THEN 1 ELSE Max(old)

LEMMA BeginIs ==
  ASSUME clock \in Int, NEW s \in Seq(Samples), s # <<>>
  PROVE  /\ Begin(s) \in 1..Len(s)
         /\ \A i \in 1..Len(s) : i > Begin(s) => s[i].at > clock - Window
         /\ Begin(s) > 1 => s[Begin(s)].at <= clock - Window
         /\ s[1].at <= clock - Window => s[Begin(s)].at <= clock - Window
  <1> DEFINE old == {i \in DOMAIN s : s[i].at <= clock - Window}
  <1>1. Begin(s) = IF old = {} THEN 1 ELSE Max(old)
    BY DEF Begin
  <1>2. Len(s) \in Nat /\ Len(s) >= 1 /\ DOMAIN s = 1..Len(s)
    BY EmptySeq, LenProperties
  <1>3. \A i \in 1..Len(s) : s[i].at \in Int
    <2>1. \A i \in 1..Len(s) : s[i] \in Samples
      BY ElementOfSeq
    <2> QED
      BY <2>1, WindowAssumption DEF Samples
  <1>4. \A i \in 1..Len(s) : i \in old <=> s[i].at <= clock - Window
    BY <1>2
  <1>5. old # {} => Max(old) \in old /\ \A i \in old : i <= Max(old)
    BY <1>2, GreatestIndex
  <1> HIDE DEF old
  <1>6. old \subseteq 1..Len(s)
    BY <1>2 DEF old
  <1>7. CASE old = {}
    BY <1>1, <1>2, <1>3, <1>4, <1>7, WindowAssumption
  <1>8. CASE old # {}
    <2>1. /\ Begin(s) \in 1..Len(s) /\ Begin(s) \in old
          /\ \A i \in old : i <= Begin(s)
      BY <1>1, <1>5, <1>6, <1>8
    <2>2. s[Begin(s)].at <= clock - Window
      BY <1>4, <2>1
    <2>3. \A i \in 1..Len(s) : i > Begin(s) => ~(s[i].at <= clock - Window)
      BY <1>4, <2>1
    <2>4. \A i \in 1..Len(s) : i > Begin(s) => s[i].at > clock - Window
      BY <1>3, <2>3, WindowAssumption
    <2> QED
      BY <2>1, <2>2, <2>4
  <1> QED
    BY <1>7, <1>8

LEMMA PrunedIs ==
  ASSUME clock \in Int, NEW s \in Seq(Samples), s # <<>>
  PROVE  /\ Pruned(s) \in Seq(Samples)
         /\ Len(Pruned(s)) = Len(s) - Begin(s) + 1
         /\ \A i \in 1..Len(Pruned(s)) : Pruned(s)[i] = s[i + Begin(s) - 1]
         /\ Pruned(s) # <<>> /\ Head(Pruned(s)) = s[Begin(s)]
  <1>1. Begin(s) \in 1..Len(s) /\ Len(s) \in Nat
    BY BeginIs, LenProperties
  <1>2. Pruned(s) = SubSeq(s, Begin(s), Len(s))
    BY DEF Pruned, Begin
  <1>3. \A i \in Begin(s)..Len(s) : s[i] \in Samples
    BY <1>1, ElementOfSeq
  <1>4. /\ Pruned(s) \in Seq(Samples)
        /\ Len(Pruned(s)) = Len(s) - Begin(s) + 1
        /\ \A i \in 1..Len(s) - Begin(s) + 1 : Pruned(s)[i] = s[Begin(s) + i - 1]
    BY <1>1, <1>2, <1>3, SubSeqProperties
  <1>5. Pruned(s) # <<>> /\ Head(Pruned(s)) = s[Begin(s)]
    BY <1>1, <1>2, <1>4, HeadTailOfSubSeq, EmptySeq
  <1>6. \A i \in 1..Len(Pruned(s)) : Begin(s) + i - 1 = i + Begin(s) - 1
    BY <1>1, <1>4
  <1> QED
    BY <1>4, <1>5, <1>6

-----------------------------------------------------------------------------
(* What collect observes: all bytes since the base, no fewer than before,   *)
(* and after a rebaseline exactly as many.                                  *)
Observed == IF total > Base THEN total - Base ELSE 0

LEMMA ObservedIs ==
  ASSUME RateInv, baseline # Unknown
  PROVE  /\ Base \in 0..MaxBytes /\ Observed \in 0..MaxBytes /\ Base + Observed = total
         /\ previous <= Observed
         /\ stale => Observed = previous
         /\ Sample(Observed) \in Samples
  BY WindowAssumption DEF RateInv, ValuesInv, CountingInv, Base, Observed, Samples, Sample
(* The sample starts a new log, or the log and the window go on.            *)
Restarted ==
    /\ log' = <<Sample(Observed)>> /\ history' = <<Sample(Observed)>>
    /\ rate' = [bytes |-> 0, elapsed |-> 0]

Longer    == Append(history, Sample(Observed))
LongerLog == Append(log, Sample(Observed))
Skipped   == Len(log) - Len(history)

Continued ==
    /\ ~stale /\ history # <<>> /\ clock > Last(history).at
    /\ log' = LongerLog /\ history' = Pruned(Longer)
    /\ rate' = [bytes   |-> Observed - Head(Pruned(Longer)).bytes,
                elapsed |-> clock - Head(Pruned(Longer)).at]

LEMMA SingleIs ==
  ASSUME RateInv, NEW x \in Samples, x.at = clock
  PROVE  /\ <<x>> \in Seq(Samples) /\ <<x>> # <<>> /\ Len(<<x>>) = 1
         /\ Begin(<<x>>) = 1 /\ Pruned(<<x>>) = <<x>> /\ Head(<<x>>) = x
  <1>1. <<x>> \in Seq(Samples) /\ <<x>> # <<>> /\ Len(<<x>>) = 1 /\ <<x>>[1] = x /\ Head(<<x>>) = x
    OBVIOUS
  <1>2. clock \in Int
    BY DEF RateInv, ValuesInv
  <1>3. Begin(<<x>>) = 1
    <2>1. Begin(<<x>>) \in 1..Len(<<x>>)
      BY <1>1, <1>2, BeginIs
    <2>2. Begin(<<x>>) \in 1..1
      BY <1>1, <2>1
    <2> QED
      BY <2>2
  <1>4. Pruned(<<x>>) = SubSeq(<<x>>, 1, Len(<<x>>))
    BY <1>3 DEF Pruned, Begin
  <1>5. Pruned(<<x>>) = <<x>>
    BY <1>1, <1>4, SubSeqFull
  <1> QED
    BY <1>1, <1>3, <1>5

LEMMA CollectCases == ASSUME RateInv, Collect PROVE Restarted \/ Continued
  <1> DEFINE x == Sample(Observed)
             samples == IF Moved THEN Append(Carried, x) ELSE <<x>>
             window == Pruned(samples)
  <1>1. /\ baseline # Unknown /\ history # <<>>
        /\ history' = window
        /\ log' = IF stale \/ ~Moved THEN <<x>> ELSE Append(log, x)
        /\ rate' = [bytes |-> Observed - Head(window).bytes, elapsed |-> clock - Head(window).at]
    BY DEF Collect, Observed, RateInv, CountingInv
  <1>2. x \in Samples /\ x.at = clock /\ x.bytes = Observed
    BY <1>1, ObservedIs DEF Sample
  <1>3. Observed \in Int /\ clock \in Int
    BY <1>1, ObservedIs, WindowAssumption DEF RateInv, ValuesInv
  <1>4. CASE stale \/ ~Moved
    <2>1. samples = <<x>>
      <3>1. CASE ~Moved
        BY <3>1
      <3>2. CASE stale
        <4>1. Moved /\ Carried = <<>>
          BY <3>2 DEF Moved, Carried
        <4>2. Append(<<>>, x) = <<x>>
          OBVIOUS
        <4> QED
          BY <4>1, <4>2
      <3> QED
        BY <1>4, <3>1, <3>2
    <2>2. window = <<x>> /\ Head(window) = x
      BY <1>2, <2>1, SingleIs
    <2> QED
      BY <1>1, <1>2, <1>3, <1>4, <2>2 DEF Restarted
  <1>5. CASE ~stale /\ Moved
    <2>1. Carried = history /\ samples = Append(history, x) /\ clock > Last(history).at
      BY <1>1, <1>5 DEF Moved, Carried
    <2> QED
      BY <1>1, <1>5, <2>1 DEF Continued, Longer, LongerLog
  <1> QED
    BY <1>4, <1>5

(* A log and a window that go on: the window is still the end of the log,   *)
(* with the new sample in both.                                             *)
LEMMA AppendIs ==
  ASSUME NEW s \in Seq(Samples), NEW x \in Samples
  PROVE  /\ Append(s, x) \in Seq(Samples) /\ Append(s, x) # <<>>
         /\ Len(s) \in Nat /\ Len(Append(s, x)) = Len(s) + 1
         /\ Append(s, x)[Len(s) + 1] = x
         /\ \A i \in 1..Len(s) : Append(s, x)[i] = s[i]
  BY AppendProperties, LenProperties

LEMMA ContinuedIs ==
  ASSUME RateInv, baseline # Unknown, Continued
  PROVE  /\ Longer \in Seq(Samples) /\ LongerLog \in Seq(Samples)
         /\ Longer # <<>> /\ LongerLog # <<>> /\ Sample(Observed) \in Samples
         /\ Sample(Observed).at = clock /\ Sample(Observed).bytes = Observed /\ clock \in Nat
         /\ Len(history) \in Nat /\ Len(log) \in Nat /\ Skipped \in Nat
         /\ Len(Longer) = Len(history) + 1 /\ Len(LongerLog) = Len(log) + 1
         /\ Longer[Len(Longer)] = Sample(Observed) /\ LongerLog[Len(LongerLog)] = Sample(Observed)
         /\ \A i \in 1..Len(Longer) : Longer[i] = LongerLog[i + Skipped]
         /\ \A i, j \in 1..Len(LongerLog) :
                i <= j => /\ LongerLog[i].at + j - i <= LongerLog[j].at
                          /\ LongerLog[j].at <= clock
                          /\ LongerLog[i].bytes <= LongerLog[j].bytes
         /\ Skipped > 0 => Longer[1].at <= clock - Window
  <1> DEFINE x == Sample(Observed)
             H == Append(history, x)
             L == Append(log, x)
             n == Len(history)
             m == Len(log)
             skip == m - n
  <1>1. /\ history \in Seq(Samples) /\ log \in Seq(Samples) /\ x \in Samples
        /\ clock \in Nat /\ history # <<>> /\ clock > Last(history).at
        /\ Observed \in Nat /\ previous <= Observed /\ previous = Last(history).bytes
    <2>1. x \in Samples /\ Observed \in 0..MaxBytes /\ previous <= Observed
      BY ObservedIs
    <2>2. history # <<>> /\ clock > Last(history).at
      BY Zenon DEF Continued
    <2>3. /\ history \in Seq(Samples) /\ log \in Seq(Samples)
          /\ clock \in 0..RateTime /\ previous = Last(history).bytes
      BY DEF RateInv, ValuesInv, CountingInv
    <2> QED
      BY <2>1, <2>2, <2>3, WindowAssumption
  <1>2. x.at = clock /\ x.bytes = Observed
    BY DEF Sample
  <1>3. /\ H \in Seq(Samples) /\ H # <<>> /\ n \in Nat /\ Len(H) = n + 1 /\ H[n + 1] = x
        /\ \A i \in 1..n : H[i] = history[i]
    BY <1>1, AppendIs
  <1>4. /\ L \in Seq(Samples) /\ L # <<>> /\ m \in Nat /\ Len(L) = m + 1 /\ L[m + 1] = x
        /\ \A i \in 1..m : L[i] = log[i]
    BY <1>1, AppendIs
  <1>5. n >= 1
    BY <1>1, <1>3, EmptySeq
  <1>6. /\ n <= m
        /\ \A i \in 1..n : history[i] = log[i + m - n]
        /\ n < m => history[1].at <= clock - Window
    BY <1>1, <1>3, <1>4 DEF RateInv, SuffixInv
  <1>7. \A i \in 1..m : log[i] \in Samples /\ log[i].at \in Nat /\ log[i].bytes \in Nat
    <2>1. \A i \in 1..m : log[i] \in Samples
      BY <1>1, ElementOfSeq
    <2> QED
      BY <2>1, WindowAssumption DEF Samples
  <1>8. /\ log[m] = Last(history) /\ log[m].at < clock /\ log[m].bytes <= Observed
    <2>1. history[n] = log[n + m - n] /\ n + m - n = m
      BY <1>3, <1>4, <1>5, <1>6
    <2> QED
      BY <1>1, <2>1 DEF Last
  <1>9. \A i, j \in 1..m :
           i <= j => /\ log[i].at + j - i <= log[j].at /\ log[j].at <= clock
                     /\ log[i].bytes <= log[j].bytes
    BY DEF RateInv, LogInv
  <1> HIDE DEF x, H, L, n, m, Longer, LongerLog, Skipped
  <1>10. \A i \in 1..Len(H) : H[i] = L[i + skip]
    <2> SUFFICES ASSUME NEW i \in 1..(n + 1) PROVE H[i] = L[i + skip]
      BY <1>3
    <2>1. CASE i = n + 1
      <3>1. i + skip = m + 1
        BY <1>3, <1>4, <2>1
      <3> QED
        BY <1>3, <1>4, <2>1, <3>1
    <2>2. CASE i \in 1..n
      <3>1. i + skip \in 1..m /\ i + skip = i + m - n
        BY <1>3, <1>4, <1>6, <2>2
      <3> QED
        BY <1>3, <1>4, <1>6, <2>2, <3>1
    <2> QED
      BY <1>3, <2>1, <2>2
  <1>11. ASSUME NEW i \in 1..Len(L), NEW j \in 1..Len(L), i <= j
         PROVE  /\ L[i].at + j - i <= L[j].at /\ L[j].at <= clock
                /\ L[i].bytes <= L[j].bytes
    <2>1. CASE j \in 1..m
      <3>1. i \in 1..m
        BY <1>4, <1>11, <2>1
      <3> QED
        BY <1>4, <1>9, <1>11, <2>1, <3>1
    <2>2. CASE j = m + 1 /\ i = m + 1
      BY <1>1, <1>2, <1>4, <2>2
    <2>3. CASE j = m + 1 /\ i \in 1..m
      <3>1. m \in 1..m /\ i <= m
        BY <1>4, <2>3
      <3>2. log[i].at + m - i <= log[m].at /\ log[i].bytes <= log[m].bytes
        BY <1>9, <2>3, <3>1
      <3>3. log[i].at + (m + 1) - i <= clock /\ log[i].bytes <= Observed
        <4>1. /\ log[i].at \in Nat /\ log[m].at \in Nat /\ log[i].bytes \in Nat
              /\ log[m].bytes \in Nat /\ i \in Nat
          BY <1>7, <2>3, <3>1
        <4>2. log[m].at < clock /\ log[m].bytes <= Observed
          BY <1>8
        <4>3. clock \in Nat /\ Observed \in Nat /\ m \in Nat
          BY <1>1, <1>4
        <4>4. log[i].at + (m + 1) - i <= log[m].at + 1
          BY <3>2, <4>1, <4>3
        <4>5. log[m].at + 1 <= clock
          BY <4>1, <4>2, <4>3
        <4>6. log[i].at + (m + 1) - i <= clock
          BY <4>1, <4>3, <4>4, <4>5
        <4>7. log[i].bytes <= Observed
          BY <3>2, <4>1, <4>2, <4>3
        <4> QED
          BY <4>6, <4>7
      <3> QED
        BY <1>1, <1>2, <1>4, <2>3, <3>3
    <2> QED
      BY <1>4, <2>1, <2>2, <2>3
  <1>12. skip > 0 => H[1].at <= clock - Window
    <2>1. 1 \in 1..n /\ H[1] = history[1]
      BY <1>3, <1>5
    <2>2. skip > 0 => n < m
      BY <1>3, <1>4
    <2> QED
      BY <1>6, <2>1, <2>2
  <1>13. skip \in Nat
    BY <1>3, <1>4, <1>6
  <1> QED
    BY <1>1, <1>2, <1>3, <1>4, <1>10, <1>11, <1>12, <1>13 DEF x, H, L, n, m, Longer, LongerLog, Skipped

(* The window begins with the same sample as the log: what is missing in    *)
(* front of it is older than a sample that is old enough itself.            *)
LEMMA SameBegin ==
  ASSUME RateInv, baseline # Unknown, Continued
  PROVE  Longer[Begin(Longer)] = LongerLog[Begin(LongerLog)]
  <1> DEFINE k == Begin(Longer)
             l == Begin(LongerLog)
  <1>1. /\ Longer \in Seq(Samples) /\ LongerLog \in Seq(Samples) /\ Longer # <<>> /\ LongerLog # <<>> /\ clock \in Nat
        /\ Skipped \in Nat /\ Len(Longer) \in Nat /\ Len(LongerLog) = Len(Longer) + Skipped
        /\ \A i \in 1..Len(Longer) : Longer[i] = LongerLog[i + Skipped]
        /\ Skipped > 0 => Longer[1].at <= clock - Window
    <2>1. Len(LongerLog) = Len(Longer) + Skipped /\ Len(Longer) \in Nat
      <3>1. /\ Len(history) \in Nat /\ Len(log) \in Nat
            /\ Len(Longer) = Len(history) + 1 /\ Len(LongerLog) = Len(log) + 1
        BY ContinuedIs
      <3> QED
        BY <3>1 DEF Skipped
    <2> QED
      BY <2>1, ContinuedIs
  <1>2. /\ k \in 1..Len(Longer)
        /\ \A i \in 1..Len(Longer) : i > k => Longer[i].at > clock - Window
        /\ k > 1 => Longer[k].at <= clock - Window
        /\ Longer[1].at <= clock - Window => Longer[k].at <= clock - Window
    BY <1>1, BeginIs
  <1>3. /\ l \in 1..Len(LongerLog)
        /\ \A i \in 1..Len(LongerLog) : i > l => LongerLog[i].at > clock - Window
        /\ l > 1 => LongerLog[l].at <= clock - Window
    <2>1. LongerLog \in Seq(Samples) /\ LongerLog # <<>> /\ clock \in Int
      BY <1>1
    <2> QED
      BY <2>1, BeginIs
  <1>4. \A i \in 1..Len(Longer) : Longer[i].at \in Int
    <2>1. \A i \in 1..Len(Longer) : Longer[i] \in Samples
      BY <1>1, ElementOfSeq
    <2> QED
      BY <2>1, WindowAssumption DEF Samples
  <1> HIDE DEF k, l
  <1>5. Longer[k] = LongerLog[k + Skipped] /\ k + Skipped \in 1..Len(LongerLog)
    BY <1>1, <1>2
  <1>6. CASE l = k + Skipped
    BY <1>5, <1>6 DEF k, l
  <1>7. CASE l > k + Skipped
    <2>1. l - Skipped \in 1..Len(Longer) /\ l - Skipped > k /\ l > 1 /\ (l - Skipped) + Skipped = l
      BY <1>1, <1>2, <1>3, <1>7
    <2>2. Longer[l - Skipped] = LongerLog[l] /\ Longer[l - Skipped].at > clock - Window /\ LongerLog[l].at <= clock - Window
      BY <1>1, <1>2, <1>3, <2>1
    <2>3. Longer[l - Skipped].at \in Int
      BY <1>4, <2>1
    <2> QED
      BY <1>1, <2>2, <2>3, WindowAssumption
  <1>8. CASE l < k + Skipped
    <2>1. LongerLog[k + Skipped].at > clock - Window
      BY <1>3, <1>5, <1>8
    <2>2. Longer[k].at <= clock - Window
      <3>1. CASE k > 1
        BY <1>2, <3>1
      <3>2. CASE k = 1
        <4>1. Skipped > 0
          BY <1>1, <1>3, <1>8, <3>2
        <4> QED
          BY <1>1, <1>2, <4>1
      <3> QED
        BY <1>1, <1>2, <3>1, <3>2
    <2>3. Longer[k].at \in Int
      BY <1>2, <1>4
    <2> QED
      BY <1>1, <1>5, <2>1, <2>2, <2>3, WindowAssumption
  <1>9. k \in Int /\ l \in Int
    BY <1>1, <1>2, <1>3
  <1> QED
    BY <1>1, <1>6, <1>7, <1>8, <1>9 DEF k, l

(* The published rate of a window that goes on, and of one that starts.     *)
LEMMA CollectWindowed ==
  ASSUME RateInv, Collect
  PROVE  /\ rate' = WindowedRate
         /\ stale => rate'.bytes = 0 /\ Head(history').bytes = previous
  <1> DEFINE x == Sample(Observed)
  <1>1. baseline # Unknown
    BY DEF Collect
  <1>2. x \in Samples /\ x.at = clock /\ x.bytes = Observed /\ clock \in Int /\ Observed \in Int
    BY <1>1, ObservedIs, WindowAssumption DEF Sample, RateInv, ValuesInv
  <1>3. WindowedRate = [bytes   |-> Last(log').bytes - log'[Begin(log')].bytes,
                        elapsed |-> clock - log'[Begin(log')].at]
    BY DEF WindowedRate, Begin
  <1>4. CASE Restarted
    <2>1. log' = <<x>> /\ history' = <<x>> /\ rate' = [bytes |-> 0, elapsed |-> 0]
      BY <1>4 DEF Restarted
    <2>2. Begin(<<x>>) = 1 /\ <<x>>[1] = x /\ Last(<<x>>) = x /\ Head(<<x>>) = x
      BY <1>2, SingleIs DEF Last
    <2>3. Last(log').bytes = Observed /\ log'[Begin(log')] = x
      BY <1>2, <2>1, <2>2
    <2>4. WindowedRate = [bytes |-> 0, elapsed |-> 0]
      BY <1>2, <1>3, <2>3
    <2>5. stale => x.bytes = previous
      BY <1>1, <1>2, ObservedIs
    <2> QED
      BY <2>1, <2>2, <2>4, <2>5
  <1>5. CASE Continued
    <2>1. /\ ~stale /\ log' = LongerLog
          /\ rate' = [bytes   |-> Observed - Head(Pruned(Longer)).bytes,
                      elapsed |-> clock - Head(Pruned(Longer)).at]
      BY <1>5, Zenon DEF Continued
    <2>2. Longer \in Seq(Samples) /\ Longer # <<>> /\ Last(LongerLog) = x
      BY <1>1, <1>5, ContinuedIs DEF Last
    <2>3. Head(Pruned(Longer)) = Longer[Begin(Longer)]
      BY <1>2, <2>2, PrunedIs
    <2>4. Longer[Begin(Longer)] = LongerLog[Begin(LongerLog)]
      BY <1>1, <1>5, SameBegin
    <2> QED
      BY <1>2, <1>3, <2>1, <2>2, <2>3, <2>4
  <1> QED
    BY <1>4, <1>5, CollectCases

-----------------------------------------------------------------------------
(* The invariant, over the step that restarts the log and the one that      *)
(* continues it.                                                            *)
LEMMA RestartedKeeps ==
  ASSUME RateInv, Collect, Restarted
  PROVE  RateInv'
  <1> DEFINE x == Sample(Observed)
  <1>1. /\ baseline # Unknown /\ baseline' = Base /\ previous' = Observed /\ stale' = FALSE
        /\ UNCHANGED <<clock, total>>
    BY DEF Collect, Observed
  <1>2. /\ x \in Samples /\ x.at = clock /\ x.bytes = Observed /\ clock \in 0..RateTime
        /\ Base \in 0..MaxBytes /\ Observed \in 0..MaxBytes /\ Base + Observed = total
    BY <1>1, ObservedIs DEF Sample, RateInv, ValuesInv
  <1>3. history' = <<x>> /\ log' = <<x>> /\ rate' = [bytes |-> 0, elapsed |-> 0]
    BY DEF Restarted
  <1>4. /\ <<x>> \in Seq(Samples) /\ <<x>> # <<>> /\ Len(<<x>>) = 1 /\ <<x>>[1] = x
        /\ Last(<<x>>) = x
    BY <1>2, SingleIs DEF Last
  <1> HIDE DEF x
  <1>5. ValuesInv'
    <2>1. rate' \in [bytes : 0..MaxBytes, elapsed : 0..RateTime]
      BY <1>3, WindowAssumption
    <2> QED
      BY <1>1, <1>2, <1>3, <1>4, <2>1 DEF RateInv, ValuesInv
  <1>6. LogInv'
    BY <1>1, <1>2, <1>3, <1>4, WindowAssumption DEF LogInv
  <1>7. SuffixInv'
    BY <1>3, <1>4 DEF SuffixInv
  <1>8. CountingInv'
    BY <1>1, <1>2, <1>3, <1>4, WindowAssumption DEF CountingInv
  <1> QED
    BY <1>5, <1>6, <1>7, <1>8 DEF RateInv

LEMMA ContinuedKeeps ==
  ASSUME RateInv, Collect, Continued
  PROVE  RateInv'
  <1> DEFINE k == Begin(Longer)
             x == Sample(Observed)
  <1>1. /\ baseline # Unknown /\ baseline' = Base /\ previous' = Observed /\ stale' = FALSE
        /\ UNCHANGED <<clock, total>>
    BY DEF Collect, Observed
  <1>2. /\ clock \in 0..RateTime
        /\ Base \in 0..MaxBytes /\ Observed \in 0..MaxBytes /\ Base + Observed = total
    BY <1>1, ObservedIs DEF RateInv, ValuesInv
  <1>3. /\ Longer \in Seq(Samples) /\ LongerLog \in Seq(Samples)
        /\ Longer # <<>> /\ LongerLog # <<>> /\ x \in Samples
        /\ x.at = clock /\ x.bytes = Observed /\ clock \in Nat
        /\ Longer[Len(Longer)] = x /\ LongerLog[Len(LongerLog)] = x
        /\ \A i \in 1..Len(Longer) : Longer[i] = LongerLog[i + Skipped]
        /\ Skipped > 0 => Longer[1].at <= clock - Window
    BY <1>1, ContinuedIs
  <1>4. Len(Longer) \in Nat /\ Skipped \in Nat /\ Len(LongerLog) = Len(Longer) + Skipped
    <2>1. /\ Len(history) \in Nat /\ Len(log) \in Nat /\ Skipped \in Nat
          /\ Len(Longer) = Len(history) + 1 /\ Len(LongerLog) = Len(log) + 1
      BY <1>1, ContinuedIs
    <2> QED
      BY <2>1 DEF Skipped
  <1>5. \A i, j \in 1..Len(LongerLog) :
           i <= j => /\ LongerLog[i].at + j - i <= LongerLog[j].at
                     /\ LongerLog[j].at <= clock
                     /\ LongerLog[i].bytes <= LongerLog[j].bytes
    BY <1>1, ContinuedIs
  <1>6. /\ k \in 1..Len(Longer)
        /\ \A i \in 1..Len(Longer) : i > k => Longer[i].at > clock - Window
        /\ k > 1 => Longer[k].at <= clock - Window
        /\ Longer[1].at <= clock - Window => Longer[k].at <= clock - Window
    BY <1>3, BeginIs
  <1>7. /\ history' \in Seq(Samples) /\ history' # <<>>
        /\ Len(history') = Len(Longer) - k + 1
        /\ \A i \in 1..Len(history') : history'[i] = Longer[i + k - 1]
        /\ rate' = [bytes |-> Observed - Longer[k].bytes, elapsed |-> clock - Longer[k].at]
    <2>1. /\ log' = LongerLog /\ history' = Pruned(Longer)
          /\ rate' = [bytes   |-> Observed - Head(Pruned(Longer)).bytes,
                      elapsed |-> clock - Head(Pruned(Longer)).at]
      BY Zenon DEF Continued
    <2>2. /\ Pruned(Longer) \in Seq(Samples)
          /\ Len(Pruned(Longer)) = Len(Longer) - k + 1
          /\ \A i \in 1..Len(Pruned(Longer)) : Pruned(Longer)[i] = Longer[i + k - 1]
          /\ Pruned(Longer) # <<>> /\ Head(Pruned(Longer)) = Longer[k]
      BY <1>3, PrunedIs
    <2> QED
      BY <2>1, <2>2
  <1>8. log' = LongerLog
    BY DEF Continued
  <1> HIDE DEF k, x
  <1>9. Len(history') \in Nat /\ Len(history') >= 1 /\ k \in Nat
    BY <1>4, <1>6, <1>7
  <1>10. /\ Longer[k] = LongerLog[k + Skipped] /\ k + Skipped \in 1..Len(LongerLog)
         /\ Longer[k].at \in Nat /\ Longer[k].at <= clock
         /\ Longer[k].bytes \in Nat /\ Longer[k].bytes <= Observed
    <2>1. Longer[k] \in Samples
      BY <1>3, <1>6, ElementOfSeq
    <2>2. Longer[k].at \in Nat /\ Longer[k].bytes \in Nat
      BY <2>1, WindowAssumption DEF Samples
    <2>3. Longer[k] = LongerLog[k + Skipped] /\ k + Skipped \in 1..Len(LongerLog)
      BY <1>3, <1>4, <1>6
    <2>4. Len(LongerLog) \in 1..Len(LongerLog) /\ k + Skipped <= Len(LongerLog)
      BY <1>4, <2>3
    <2>5. LongerLog[k + Skipped].at <= clock /\ LongerLog[k + Skipped].bytes <= Observed
      BY <1>3, <1>5, <2>3, <2>4
    <2> QED
      BY <2>2, <2>3, <2>5
  <1>11. ValuesInv'
    <2>1. rate' \in [bytes : 0..MaxBytes, elapsed : 0..RateTime]
      <3>1. Observed - Longer[k].bytes \in 0..MaxBytes
        BY <1>2, <1>10, WindowAssumption
      <3>2. clock - Longer[k].at \in 0..RateTime
        BY <1>2, <1>10, WindowAssumption
      <3> QED
        BY <1>7, <3>1, <3>2
    <2> QED
      BY <1>1, <1>2, <1>3, <1>7, <1>8, <2>1 DEF RateInv, ValuesInv
  <1>12. LogInv'
    BY <1>1, <1>5, <1>8 DEF LogInv
  <1>13. SuffixInv'
    <2>1. Len(history') <= Len(log')
      BY <1>4, <1>6, <1>7, <1>8
    <2>2. ASSUME NEW i \in 1..Len(history')
          PROVE  history'[i] = log'[i + Len(log') - Len(history')]
      <3>1. /\ i + k - 1 \in 1..Len(Longer)
            /\ (i + k - 1) + Skipped = i + Len(LongerLog) - Len(history')
        <4>1. /\ Len(Longer) \in Nat /\ Skipped \in Nat /\ k \in 1..Len(Longer)
              /\ Len(history') = Len(Longer) - k + 1 /\ Len(LongerLog) = Len(Longer) + Skipped
          BY <1>4, <1>6, <1>7
        <4> QED
          BY <4>1
      <3> QED
        BY <1>3, <1>7, <1>8, <3>1
    <2>3. Len(history') < Len(log') => history'[1].at <= clock' - Window
      <3>1. history'[1] = Longer[k]
        BY <1>7, <1>9
      <3>2. Len(history') < Len(log') => Skipped > 0 \/ k > 1
        BY <1>4, <1>6, <1>7, <1>8
      <3> QED
        BY <1>1, <1>3, <1>6, <3>1, <3>2
    <2>4. Len(history') >= 2 => history'[2].at > Last(history').at - Window
      <3> SUFFICES ASSUME Len(history') >= 2 PROVE history'[2].at > Last(history').at - Window
        OBVIOUS
      <3>1. k + 1 \in 1..Len(Longer) /\ history'[2] = Longer[k + 1]
        <4>1. /\ Len(history') = Len(Longer) - k + 1 /\ Len(history') \in Nat
              /\ 2 \in 1..Len(history') /\ 2 + k - 1 = k + 1
          BY <1>4, <1>6, <1>7
        <4>2. k + 1 \in 1..Len(Longer)
          BY <1>4, <1>6, <4>1
        <4> QED
          BY <1>7, <4>1, <4>2
      <3>2. Last(history') = x
        <4>1. Len(history') \in 1..Len(history') /\ Len(history') + k - 1 = Len(Longer)
          BY <1>4, <1>6, <1>7, <1>9
        <4> QED
          BY <1>3, <1>7, <4>1 DEF Last
      <3> QED
        BY <1>3, <1>6, <1>9, <3>1, <3>2
    <2> QED
      BY <1>7, <2>1, <2>2, <2>3, <2>4 DEF SuffixInv
  <1>14. CountingInv'
    <2>1. Last(history') = x
      <3>1. Len(history') \in 1..Len(history') /\ Len(history') + k - 1 = Len(Longer)
        BY <1>4, <1>6, <1>7, <1>9
      <3> QED
        BY <1>3, <1>7, <3>1 DEF Last
    <2>2. baseline' # Unknown
      BY <1>1, <1>2, WindowAssumption
    <2> QED
      BY <1>1, <1>2, <1>3, <1>7, <2>1, <2>2, WindowAssumption DEF CountingInv
  <1> QED
    BY <1>11, <1>12, <1>13, <1>14 DEF RateInv

LEMMA RateStarts == RateInit => RateInv
  <1> SUFFICES ASSUME RateInit PROVE RateInv
    OBVIOUS
  <1>1. /\ history = <<>> /\ log = <<>> /\ clock = 0 /\ total = 0 /\ previous = 0
        /\ baseline = Unknown /\ stale = FALSE /\ rate = Unknown
    BY DEF RateInit
  <1>2. history \in Seq(Samples) /\ log \in Seq(Samples) /\ Len(history) = 0 /\ Len(log) = 0
    BY <1>1
  <1>3. ValuesInv
    <2>1. clock \in 0..RateTime /\ total \in 0..MaxBytes /\ previous \in 0..MaxBytes
      BY <1>1, WindowAssumption
    <2>2. baseline \in 0..MaxBytes \cup {Unknown} /\ stale \in BOOLEAN
      BY <1>1
    <2>3. rate \in {Unknown} \cup [bytes : 0..MaxBytes, elapsed : 0..RateTime]
      BY <1>1, Zenon
    <2> QED
      BY <1>2, <2>1, <2>2, <2>3 DEF ValuesInv
  <1>4. LogInv /\ SuffixInv
    BY <1>2 DEF LogInv, SuffixInv
  <1>5. CountingInv
    BY <1>1 DEF CountingInv
  <1> QED
    BY <1>3, <1>4, <1>5 DEF RateInv

LEMMA RateStep == RateInv /\ [RateNext]_rateVars => RateInv'
  <1> SUFFICES ASSUME RateInv, [RateNext]_rateVars PROVE RateInv'
    OBVIOUS
  <1> USE WindowAssumption
  <1>1. CASE Traffic
    BY <1>1 DEF Traffic, RateInv, ValuesInv, LogInv, SuffixInv, CountingInv, Last
  <1>2. CASE ClockTick
    <2>1. /\ clock' = clock + 1 /\ clock \in Nat /\ clock' \in 0..RateTime
          /\ UNCHANGED <<total, baseline, previous, history, stale, rate, log>>
      BY <1>2 DEF ClockTick, RateInv, ValuesInv
    <2>2. ValuesInv' /\ CountingInv'
      BY <2>1 DEF RateInv, ValuesInv, CountingInv, Last
    <2>3. LogInv'
      <3>1. \A i \in 1..Len(log) : log[i].at \in Nat
        <4>1. \A i \in 1..Len(log) : log[i] \in Samples
          BY ElementOfSeq DEF RateInv, ValuesInv
        <4> QED
          BY <4>1 DEF Samples
      <3>2. \A i, j \in 1..Len(log) :
                i <= j => /\ log[i].at + j - i <= log[j].at /\ log[j].at <= clock
                          /\ log[i].bytes <= log[j].bytes
        BY DEF RateInv, LogInv
      <3>3. \A j \in 1..Len(log) : log[j].at <= clock => log[j].at <= clock'
        BY <2>1, <3>1
      <3>4. log' = log
        BY <2>1
      <3> QED
        BY <3>2, <3>3, <3>4 DEF LogInv
    <2>4. SuffixInv'
      <3>1. history # <<>> => history[1].at \in Nat
        <4>1. history \in Seq(Samples)
          BY DEF RateInv, ValuesInv
        <4>2. history # <<>> => history[1] \in Samples
          BY <4>1, HeadTailProperties, EmptySeq, LenProperties, ElementOfSeq
        <4> QED
          BY <4>2 DEF Samples
      <3>2. history[1].at <= clock - Window /\ history # <<>> => history[1].at <= clock' - Window
        BY <2>1, <3>1
      <3> QED
        BY <2>1, <3>2 DEF RateInv, SuffixInv, Last
    <2> QED
      BY <2>2, <2>3, <2>4 DEF RateInv
  <1>3. CASE CollectUnverified
    BY <1>3 DEF CollectUnverified, RateInv, ValuesInv, LogInv, SuffixInv, CountingInv, Last
  <1>4. CASE CollectFirst
    <2> DEFINE x == Sample(0)
    <2>1. /\ baseline' = total /\ previous' = 0 /\ history' = <<x>> /\ log' = <<x>>
          /\ rate' = [bytes |-> 0, elapsed |-> 0] /\ UNCHANGED <<clock, total, stale>>
      BY <1>4 DEF CollectFirst
    <2>2. x \in Samples /\ x.at = clock /\ x.bytes = 0 /\ clock \in 0..RateTime
      BY DEF Sample, Samples, RateInv, ValuesInv
    <2>3. /\ <<x>> \in Seq(Samples) /\ <<x>> # <<>> /\ Len(<<x>>) = 1 /\ <<x>>[1] = x
          /\ Last(<<x>>) = x
      BY <2>2, SingleIs DEF Last
    <2> HIDE DEF x
    <2>4. ValuesInv'
      BY <2>1, <2>2, <2>3 DEF RateInv, ValuesInv
    <2>5. LogInv' /\ SuffixInv'
      BY <2>1, <2>2, <2>3 DEF LogInv, SuffixInv
    <2>6. CountingInv'
      BY <2>1, <2>2, <2>3 DEF RateInv, ValuesInv, CountingInv
    <2> QED
      BY <2>4, <2>5, <2>6 DEF RateInv
  <1>5. CASE Collect
    BY <1>5, CollectCases, RestartedKeeps, ContinuedKeeps
  <1>6. CASE UNCHANGED rateVars
    BY <1>6 DEF rateVars, RateInv, ValuesInv, LogInv, SuffixInv, CountingInv, Last
  <1> QED
    BY <1>1, <1>2, <1>3, <1>4, <1>5, <1>6 DEF RateNext

-----------------------------------------------------------------------------
(* The types: no rate is negative, and samples have increasing times        *)
(* (process.py:254-307).                                                    *)
THEOREM RateTypes == RateSpec => []RateTypeOK
  <1>1. RateInv => RateTypeOK
    <2> SUFFICES ASSUME RateInv PROVE RateTypeOK
      OBVIOUS
    <2>1. /\ history \in Seq(Samples) /\ log \in Seq(Samples)
          /\ Len(history) \in Nat /\ Len(log) \in Nat /\ DOMAIN history = 1..Len(history)
      BY LenProperties DEF RateInv, ValuesInv
    <2>2. \A i \in DOMAIN history : history[i] \in Samples
      BY <2>1, ElementOfSeq
    <2>3. \A i \in 2..Len(history) : history[i - 1].at < history[i].at
      <3> SUFFICES ASSUME NEW i \in 2..Len(history) PROVE history[i - 1].at < history[i].at
        OBVIOUS
      <3> DEFINE j == i + Len(log) - Len(history)
      <3>1. /\ i \in 1..Len(history) /\ i - 1 \in 1..Len(history)
            /\ j \in 1..Len(log) /\ j - 1 \in 1..Len(log)
            /\ (i - 1) + Len(log) - Len(history) = j - 1 /\ j - 1 <= j
        BY <2>1 DEF RateInv, SuffixInv
      <3>2. history[i] = log[j] /\ history[i - 1] = log[j - 1]
        BY <3>1 DEF RateInv, SuffixInv
      <3> HIDE DEF j
      <3>3. history[i].at \in Nat /\ history[i - 1].at \in Nat
        <4>1. history[i] \in Samples /\ history[i - 1] \in Samples
          BY <2>1, <2>2, <3>1
        <4> QED
          BY <4>1, WindowAssumption DEF Samples
      <3>4. log[j - 1].at + j - (j - 1) <= log[j].at
        BY <3>1 DEF RateInv, LogInv
      <3>5. history[i - 1].at + j - (j - 1) <= history[i].at /\ j \in Int
        BY <3>1, <3>2, <3>4
      <3> QED
        BY <3>3, <3>5
    <2> QED
      BY <2>2, <2>3 DEF RateInv, ValuesInv, RateTypeOK, Samples
  <1> QED
    BY <1>1, RateStarts, RateStep, PTL DEF RateSpec

(* What collect publishes is the rate over all samples since the window was *)
(* last emptied, whatever it threw away of them, and the bytes of an        *)
(* unverified interval are in no rate (process.py:254-307).                 *)
THEOREM RatesAreWindowed == RateSpec => RateIsWindowed
  <1>1. ASSUME RateInv, [RateNext]_rateVars
        PROVE  [/\ Collect => rate' = WindowedRate
                /\ stale /\ ~stale' => rate'.bytes = 0 /\ Head(history').bytes = previous]_rateVars
    <2>1. stale /\ ~stale' => Collect
      <3>1. stale \in BOOLEAN
        BY <1>1 DEF RateInv, ValuesInv
      <3> QED
        BY <1>1, <3>1
        DEF RateNext, Traffic, ClockTick, CollectUnverified, CollectFirst, rateVars, RateInv,
            CountingInv
    <2> QED
      BY <1>1, <2>1, CollectWindowed
  <1> QED
    BY <1>1, RateStarts, RateStep, PTL DEF RateSpec, RateIsWindowed

(* The samples kept for a process are bounded by the ticks of the window    *)
(* (process.py:295-303).                                                    *)
THEOREM HistoryStaysBounded == RateSpec => []HistoryBounded
  <1>1. RateInv => HistoryBounded
    <2> SUFFICES ASSUME RateInv, Len(history) > Window + 1 PROVE FALSE
      <3>1. Len(history) \in Nat /\ Window \in Nat
        BY LenProperties, WindowAssumption DEF RateInv, ValuesInv
      <3> QED
        BY <3>1 DEF HistoryBounded
    <2>1. /\ history \in Seq(Samples) /\ Len(history) \in Nat /\ Len(log) \in Nat
          /\ Window \in Nat \ {0}
      BY LenProperties, WindowAssumption DEF RateInv, ValuesInv
    <2> DEFINE n == Len(history)
               skip == Len(log) - n
    <2>2. 2 \in 1..n /\ n \in 1..n /\ n >= 2 /\ skip \in Nat
      BY <2>1 DEF RateInv, SuffixInv
    <2>3. \A i \in 1..n : history[i] \in Samples
      BY <2>1, ElementOfSeq
    <2>4. history[2].at \in Nat /\ history[n].at \in Nat
      BY <2>2, <2>3, WindowAssumption DEF Samples
    <2>5. history[2].at > history[n].at - Window
      BY <2>2 DEF RateInv, SuffixInv, Last
    <2>6. history[2].at + n - 2 <= history[n].at
      <3>1. /\ 2 + Len(log) - n = 2 + skip /\ n + Len(log) - n = n + skip
            /\ 2 + skip \in 1..Len(log) /\ n + skip \in 1..Len(log) /\ 2 + skip <= n + skip
        BY <2>1, <2>2
      <3>2. history[2] = log[2 + Len(log) - n] /\ history[n] = log[n + Len(log) - n]
        BY <2>2 DEF RateInv, SuffixInv
      <3>3. log[2 + skip].at + (n + skip) - (2 + skip) <= log[n + skip].at
        BY <3>1 DEF RateInv, LogInv
      <3>4. history[2].at + (n + skip) - (2 + skip) <= history[n].at
        BY <3>1, <3>2, <3>3
      <3> QED
        BY <2>1, <2>2, <2>4, <3>4
    <2> QED
      BY <2>1, <2>2, <2>4, <2>5, <2>6
  <1> QED
    BY <1>1, RateStarts, RateStep, PTL DEF RateSpec
-----------------------------------------------------------------------------
(* DetailLists.  Bringing the items up to date makes them what is wanted,   *)
(* whatever they were.                                                      *)
LEMMA SyncIsWanted ==
  ASSUME NEW old, NEW wanted, wanted = [k \in DOMAIN wanted |-> wanted[k]]
  PROVE  Sync(old, wanted) = wanted
  <1>1. (DOMAIN old \cap DOMAIN wanted) \cup (DOMAIN wanted \ (DOMAIN old \cap DOMAIN wanted))
          = DOMAIN wanted
    OBVIOUS
  <1> QED
    BY <1>1 DEF Sync

LEMMA SnapshotTypes ==
  ASSUME NEW s \in Snapshots
  PROVE  /\ s.available \in BOOLEAN /\ s.charged \in SUBSET Accounts
         /\ DOMAIN s.groups \in SUBSET Accounts
         /\ s.groups = [k \in DOMAIN s.groups |-> s.groups[k]]
  <1> DEFINE All(rates) == UNION {[D -> rates] : D \in SUBSET Accounts}
  <1>1. \A rates : \A g \in All(rates) :
          DOMAIN g \in SUBSET Accounts /\ g = [k \in DOMAIN g |-> g[k]]
    OBVIOUS
  <1> HIDE DEF All
  <1>2. s.available \in BOOLEAN /\ s.charged \in SUBSET Accounts
          /\ s.groups \in All({0, 1}) \cup All({None})
    BY DEF Snapshots, All
  <1> QED
    BY <1>1, <1>2

LEMMA ListedTypes ==
  ASSUME NEW s \in Snapshots, NEW filtered \in BOOLEAN
  PROVE  /\ DOMAIN Listed(s, filtered) \in SUBSET Accounts
         /\ \A old : Sync(old, Listed(s, filtered)) = Listed(s, filtered)
  <1>1. /\ DOMAIN Listed(s, filtered) \in SUBSET Accounts
        /\ Listed(s, filtered) = [k \in DOMAIN Listed(s, filtered) |-> Listed(s, filtered)[k]]
    BY SnapshotTypes DEF Listed, Restrict
  <1> QED
    BY <1>1, SyncIsWanted

LEMMA RowsTypes ==
  ASSUME NEW s \in Snapshots
  PROVE  /\ DOMAIN SessionRows(s) \in SUBSET Accounts
         /\ \A old : Sync(old, SessionRows(s)) = SessionRows(s)
         /\ Token(s) # None /\ Token(s).rows = SessionRows(s)
  <1>1. SessionRows(s) \in [s.charged -> BOOLEAN]
    BY SnapshotTypes DEF SessionRows
  <1>2. SessionRows(s) \in UNION {[D -> BOOLEAN] : D \in SUBSET Accounts}
    BY <1>1, SnapshotTypes
  <1>3. Token(s) \in [rows : UNION {[D -> BOOLEAN] : D \in SUBSET Accounts}, state : BOOLEAN]
    BY <1>2, SnapshotTypes DEF Token
  <1> QED
    BY <1>1, <1>3, ListsAssumption, SnapshotTypes, SyncIsWanted DEF Token

LEMMA FilteredTypes ==
  ASSUME NEW rows, NEW searching
  PROVE  Filtered(rows, searching) \in SUBSET DOMAIN rows
  BY DEF Filtered

LEMMA ListsStart == ListsInit => ListsInv
  BY DEF ListsInit, ListsInv, ListsTypeOK, TreeInv, RowsInv, Filtered, Showing

(* The live page is rendered or marked dirty.                               *)
LEMMA RenderKeepsTree ==
  ASSUME ListsInv, RenderLive, latest' \in Snapshots \cup {None}, activeOnly' \in BOOLEAN
  PROVE  dirty' \in BOOLEAN /\ DOMAIN tree' \in SUBSET Accounts /\ TreeInv'
  BY ListedTypes DEF RenderLive, ListsInv, ListsTypeOK, TreeInv

(* A flush brings in the rows of the snapshot.                              *)
LEMMA FlushKeepsRows ==
  ASSUME ListsInv, NEW s \in Snapshots \cup {None}, Flush(s), search' = search
  PROVE  /\ rendered' = None => DOMAIN items' = {}
         /\ rendered' # None => items' = rendered'.rows
         /\ hidden' = Filtered(items', search')
         /\ s # None => rendered' = Token(s)
         /\ DOMAIN items' \in SUBSET Accounts
  <1>1. CASE s = None \/ rendered = Token(s)
    BY <1>1 DEF Flush, ListsInv, ListsTypeOK, RowsInv
  <1>2. CASE ~(s = None \/ rendered = Token(s))
    <2>1. items' = SessionRows(s) /\ rendered' = Token(s) /\ hidden' = Filtered(items', search)
      BY <1>2, RowsTypes DEF Flush
    <2> QED
      BY <1>2, <2>1, RowsTypes
  <1> QED
    BY <1>1, <1>2

LEMMA ListsStep == ListsInv /\ [ListsNext]_listVars => ListsInv'
  <1> SUFFICES ASSUME ListsInv, [ListsNext]_listVars PROVE ListsInv'
    OBVIOUS
  <1> USE DEF live, session, export
  <1>1. CASE UNCHANGED listVars
    BY <1>1 DEF listVars, ListsInv, ListsTypeOK, TreeInv, RowsInv, Showing
  <1>2. ASSUME NEW s \in Snapshots, Deliver(s) PROVE ListsInv'
    <2>1. latest' = s /\ UNCHANGED <<open, tab, activeOnly, search, export>> /\ RenderLive
      BY <1>2 DEF Deliver
    <2>2. dirty' \in BOOLEAN /\ DOMAIN tree' \in SUBSET Accounts /\ TreeInv'
      BY <2>1, RenderKeepsTree DEF ListsInv, ListsTypeOK
    <2>3. RowsInv' /\ DOMAIN items' \in SUBSET Accounts
      <3>1. CASE Showing("session")
        BY <1>2, <2>1, <3>1, FlushKeepsRows DEF Deliver, RowsInv, Showing
      <3>2. CASE ~Showing("session")
        BY <1>2, <2>1, <3>2 DEF Deliver, ListsInv, ListsTypeOK, RowsInv, Showing
      <3> QED
        BY <3>1, <3>2
    <2> QED
      BY <2>1, <2>2, <2>3, FilteredTypes DEF ListsInv, ListsTypeOK, RowsInv
  <1>3. ASSUME NEW s \in Snapshots \cup {latest}, ShowWindow(s) PROVE ListsInv'
    <2>1. /\ UNCHANGED <<tab, activeOnly, search, export>> /\ open' = TRUE /\ ~open
          /\ latest' \in Snapshots \cup {None}
          /\ \/ RenderLive
             \/ UNCHANGED <<dirty, tree, latest>>
      BY <1>3 DEF ShowWindow, Missed, ListsInv, ListsTypeOK
    <2>2. dirty' \in BOOLEAN /\ DOMAIN tree' \in SUBSET Accounts /\ TreeInv'
      BY <2>1, RenderKeepsTree DEF ListsInv, ListsTypeOK, TreeInv
    <2>3. RowsInv' /\ DOMAIN items' \in SUBSET Accounts
      <3>1. CASE tab = "session"
        BY <1>3, <2>1, <3>1, FlushKeepsRows DEF ShowWindow, RowsInv, Showing
      <3>2. CASE tab # "session"
        BY <1>3, <2>1, <3>2 DEF ShowWindow, ListsInv, ListsTypeOK, RowsInv, Showing
      <3> QED
        BY <3>1, <3>2
    <2> QED
      BY <2>1, <2>2, <2>3, FilteredTypes DEF ListsInv, ListsTypeOK, RowsInv
  <1>4. CASE Close
    BY <1>4 DEF Close, ListsInv, ListsTypeOK, TreeInv, RowsInv, Showing
  <1>5. ASSUME NEW page \in {"live", "session"}, SwitchTab(page) PROVE ListsInv'
    <2>1. /\ UNCHANGED <<latest, open, activeOnly, search, export>> /\ tab' = page /\ RenderLive
          /\ latest \in Snapshots \cup {None}
      BY <1>5 DEF SwitchTab, ListsInv, ListsTypeOK
    <2>2. dirty' \in BOOLEAN /\ DOMAIN tree' \in SUBSET Accounts /\ TreeInv'
      BY <2>1, RenderKeepsTree DEF ListsInv, ListsTypeOK
    <2>3. RowsInv' /\ DOMAIN items' \in SUBSET Accounts
      <3>1. CASE page = "session"
        BY <1>5, <2>1, <3>1, FlushKeepsRows DEF SwitchTab, RowsInv, Showing
      <3>2. CASE page # "session"
        BY <1>5, <2>1, <3>2 DEF SwitchTab, ListsInv, ListsTypeOK, RowsInv, Showing
      <3> QED
        BY <3>1, <3>2
    <2> QED
      BY <2>1, <2>2, <2>3, FilteredTypes DEF ListsInv, ListsTypeOK, RowsInv
  <1>6. CASE ToggleFilter
    <2>1. dirty' \in BOOLEAN /\ DOMAIN tree' \in SUBSET Accounts /\ TreeInv'
      BY <1>6, RenderKeepsTree DEF ToggleFilter, ListsInv, ListsTypeOK
    <2> QED
      BY <1>6, <2>1 DEF ToggleFilter, ListsInv, ListsTypeOK, RowsInv, Showing
  <1>7. CASE TypeSearch
    BY <1>7, FilteredTypes DEF TypeSearch, ListsInv, ListsTypeOK, TreeInv, RowsInv, Showing
  <1>8. CASE ExportClicked \/ DialogReturns
    BY <1>8 DEF ExportClicked, DialogReturns, ListsInv, ListsTypeOK, TreeInv, RowsInv, Showing
  <1> QED
    BY <1>1, <1>2, <1>3, <1>4, <1>5, <1>6, <1>7, <1>8 DEF ListsNext

LEMMA ListsInvariant == ListsSpec => []ListsInv
  BY ListsStart, ListsStep, PTL DEF ListsSpec

(* A page that can be seen shows the latest snapshot, whatever arrived      *)
(* while it was hidden (detail_window.py:123-141, session_view.py:181-227). *)
THEOREM ListsAreLatest == ListsSpec => []ListsShowLatest
  <1>1. ListsInv => ListsShowLatest
    BY RowsTypes
    DEF ListsInv, ListsTypeOK, TreeInv, RowsInv, ListsShowLatest, Showing
  <1> QED
    BY <1>1, ListsInvariant, PTL

(* The exported rows are those listed when export was clicked.              *)
THEOREM ExportIsClicked == ListsSpec => ExportedIsClicked
  <1>1. ListsInv /\ [ListsNext]_listVars => [file' # file => file' = clicked]_listVars
    <2> SUFFICES ASSUME ListsInv, ListsNext, file' # file PROVE file' = clicked
      OBVIOUS
    <2>1. DialogReturns
      BY DEF ListsNext, Deliver, ShowWindow, Close, SwitchTab, ToggleFilter, TypeSearch,
             ExportClicked, export
    <2> QED
      BY <2>1 DEF DialogReturns, Payload, ListsInv
  <1> QED
    BY <1>1, ListsInvariant, PTL DEF ListsSpec, ExportedIsClicked
-----------------------------------------------------------------------------
(* BuildWindows.  At first there is nothing.                                *)
LEMMA BuildStarts == BuildInit => BuildInv
  <1> SUFFICES ASSUME BuildInit PROVE BuildInv
    OBVIOUS
  <1>1. /\ NoBuild \in BuildStates /\ NoBuild.at = "idle"
        /\ NoFolder \in Directories /\ NoFolder.zip = 0 /\ NoFolder.log = 0 /\ NoFolder.folder = 0
    BY BuildAssumption DEF NoBuild, BuildStates, Stages, NoFolder, Directories
  <1>2. /\ head = 1 /\ checkout = 1 /\ builds = 0 /\ 1 \in Contents /\ 0 \in 0..MaxBuilds
        /\ \A b \in Builders : build[b] = NoBuild
        /\ \A d \in Destinations : disk[d] = NoFolder
        /\ build \in [Builders -> BuildStates] /\ disk \in [Destinations -> Directories]
    BY <1>1, BuildAssumption DEF BuildInit, Contents
  <1>3. BuildTypeOK
    BY <1>2 DEF BuildTypeOK
  <1>4. ReadInv /\ OwnerInv
    BY <1>1, <1>2 DEF ReadInv, SoundBuild, OwnerInv, Owning, Named, Checked
  <1>5. ZipIsOfCommit /\ OneBuildPerDestination
    BY <1>1, <1>2 DEF ZipIsOfCommit, OneBuildPerDestination
  <1> QED
    BY <1>3, <1>4, <1>5 DEF BuildInv

(* Editing and committing leave builds and directories alone.               *)
LEMMA DeveloperKeepsBuildInv == ASSUME BuildInv, Edit \/ Commit PROVE BuildInv'
  <1>1. /\ BuildTypeOK' /\ head <= head' /\ checkout <= checkout' /\ build' = build /\ disk' = disk
        /\ head \in Nat /\ checkout \in Nat /\ head' \in Nat /\ checkout' \in Nat
    BY BuildAssumption DEF BuildInv, BuildTypeOK, Edit, Commit, Contents
  <1>2. OwnerInv' /\ ZipIsOfCommit' /\ OneBuildPerDestination'
    BY <1>1 DEF BuildInv, OwnerInv, Owning, Named, Destination, ZipIsOfCommit,
                OneBuildPerDestination
  <1>3. ASSUME NEW b \in Builders PROVE SoundBuild(build[b])'
    <2>1. SoundBuild(build[b]) /\ build[b] \in BuildStates
      BY DEF BuildInv, BuildTypeOK, ReadInv
    <2>2. build[b].at # "idle" => build[b].lock \in Nat /\ build[b].lock <= checkout'
      BY <1>1, <2>1 DEF SoundBuild, Contents
    <2>3. build[b].at = "commit" => build[b].lock <= head'
      BY <1>1, <2>1, <2>2 DEF SoundBuild
    <2>4. Named(build[b]) => build[b].commit <= head'
      BY <1>1, <2>1 DEF SoundBuild, Contents
    <2>5. ASSUME Named(build[b]), NEW c \in build[b].inputs \cup build[b].hashed PROVE c <= checkout'
      <3>1. c <= checkout /\ c \in Nat
        BY <2>1, <2>5 DEF SoundBuild, BuildStates, Contents
      <3> QED
        BY <1>1, <3>1
    <2> QED
      BY <1>1, <2>1, <2>2, <2>3, <2>4, <2>5 DEF SoundBuild, Named, Checked
  <1> QED
    BY <1>1, <1>2, <1>3 DEF BuildInv, ReadInv

(* What a step leaves of the build that takes it, and of the others.        *)
LEMMA OneBuildSteps ==
  ASSUME BuildInv, NEW b \in Builders, NEW next \in BuildStates, SoundBuild(next),
         build' = [build EXCEPT ![b] = next], head' = head, checkout' = checkout
  PROVE  /\ build' \in [Builders -> BuildStates] /\ ReadInv'
         /\ build'[b] = next /\ \A c \in Builders \ {b} : build'[c] = build[c]
  <1>1. /\ build' \in [Builders -> BuildStates]
        /\ build'[b] = next /\ \A c \in Builders \ {b} : build'[c] = build[c]
    BY DEF BuildInv, BuildTypeOK
  <1>2. ASSUME NEW c \in Builders PROVE SoundBuild(build[c])'
    <2>1. SoundBuild(build'[c])
      BY <1>1 DEF BuildInv, ReadInv
    <2> QED
      BY <2>1 DEF SoundBuild, Named, Checked
  <1> QED
    BY <1>1, <1>2 DEF ReadInv

(* A step that writes to no directory, by a build that owns one before it   *)
(* is in a place where it has to.                                           *)
LEMMA QuietStep ==
  ASSUME BuildInv, NEW b \in Builders, NEW next \in BuildStates, SoundBuild(next),
         build' = [build EXCEPT ![b] = next], UNCHANGED <<head, checkout, disk>>,
         builds' \in 0..MaxBuilds,
         Owning(next) => /\ Owning(build[b]) /\ next.id = build[b].id
                         /\ next.commit = build[b].commit /\ next.channel = build[b].channel
  PROVE  BuildInv'
  <1>1. /\ build' \in [Builders -> BuildStates] /\ ReadInv'
        /\ build'[b] = next /\ \A c \in Builders \ {b} : build'[c] = build[c]
    BY OneBuildSteps
  <1>2. BuildTypeOK'
    BY <1>1 DEF BuildInv, BuildTypeOK
  <1>3. ZipIsOfCommit' /\ OneBuildPerDestination'
    BY DEF BuildInv, ZipIsOfCommit, OneBuildPerDestination
  <1>4. OwnerInv'
    BY <1>1 DEF BuildInv, OwnerInv, Owning, Named, Destination
  <1> QED
    BY <1>1, <1>2, <1>3, <1>4 DEF BuildInv

(* A build whose step keeps its directory, its number and what it has read. *)
LEMMA AdvanceStep ==
  ASSUME BuildInv, NEW b \in Builders, NEW stage \in Stages, Advance(b, stage)
  PROVE  \E next \in BuildStates :
            /\ next = [build[b] EXCEPT !.at = stage]
            /\ build' = [build EXCEPT ![b] = next] /\ UNCHANGED <<head, checkout, builds>>
            /\ next.at = stage /\ next.id = build[b].id /\ next.channel = build[b].channel
            /\ next.commit = build[b].commit /\ next.lock = build[b].lock
            /\ next.inputs = build[b].inputs /\ next.hashed = build[b].hashed
            /\ next.seen = build[b].seen
  <1> DEFINE next == [build[b] EXCEPT !.at = stage]
  <1>1. build[b] \in BuildStates
    BY DEF BuildInv, BuildTypeOK
  <1>2. /\ next \in BuildStates
        /\ next.at = stage /\ next.id = build[b].id /\ next.channel = build[b].channel
        /\ next.commit = build[b].commit /\ next.lock = build[b].lock
        /\ next.inputs = build[b].inputs /\ next.hashed = build[b].hashed
        /\ next.seen = build[b].seen
    BY <1>1 DEF BuildStates
  <1>3. build' = [build EXCEPT ![b] = next] /\ UNCHANGED <<head, checkout, builds>>
    BY DEF Advance, Become
  <1> QED
    BY <1>2, <1>3

LEMMA BuildTypes ==
  ASSUME BuildInv, NEW b \in Builders
  PROVE  /\ build[b] \in BuildStates /\ SoundBuild(build[b])
         /\ head \in Contents /\ checkout \in Contents /\ head \in Nat /\ checkout \in Nat
         /\ head <= checkout /\ builds \in 0..MaxBuilds
         /\ build[b].id \in 0..MaxBuilds
         /\ build[b].inputs \subseteq Contents /\ build[b].hashed \subseteq Contents
         /\ Contents \subseteq Nat /\ None \notin Contents
  BY BuildAssumption DEF BuildInv, BuildTypeOK, BuildStates, ReadInv, Contents

(* A build is started; its lock is what the checkout has now.               *)
LEMMA ReadLockKeepsBuildInv ==
  ASSUME BuildInv, NEW b \in Builders, NEW channel \in Channels, ReadLock(b, channel)
  PROVE  BuildInv'
  <1> DEFINE next == [NoBuild EXCEPT !.id = builds + 1, !.at = "check", !.channel = channel,
                                     !.lock = checkout]
  <1>1. builds' \in 0..MaxBuilds /\ builds + 1 \in 0..MaxBuilds /\ builds + 1 # 0
    BY BuildTypes, BuildAssumption DEF ReadLock
  <1>2. /\ next.id = builds + 1 /\ next.at = "check" /\ next.channel = channel /\ next.lock = checkout
        /\ next.inputs = {} /\ next.hashed = {} /\ next \in BuildStates
    BY <1>1, BuildTypes DEF NoBuild, BuildStates, Stages
  <1>3. build' = [build EXCEPT ![b] = next] /\ UNCHANGED <<head, checkout, disk>>
    BY DEF ReadLock
  <1> HIDE DEF next
  <1>4. SoundBuild(next) /\ ~Owning(next)
    BY <1>1, <1>2, BuildTypes DEF SoundBuild, Named, Checked, Owning
  <1> QED
    BY <1>1, <1>2, <1>3, <1>4, QuietStep

(* The first look: the lock is no newer than the commit HEAD is at.         *)
LEMMA FirstLookKeepsBuildInv ==
  ASSUME BuildInv, NEW b \in Builders, FirstLook(b)
  PROVE  BuildInv'
  <1>1. PICK next \in BuildStates :
            /\ build' = [build EXCEPT ![b] = next] /\ UNCHANGED <<head, checkout, builds>>
            /\ next.at = "commit" /\ next.id = build[b].id /\ next.channel = build[b].channel
            /\ next.lock = build[b].lock
            /\ next.inputs = build[b].inputs /\ next.hashed = build[b].hashed
    BY AdvanceStep DEF FirstLook, Stages
  <1>2. build[b].at = "check" /\ checkout = head /\ disk' = disk
    BY DEF FirstLook, At, Clean
  <1>3. SoundBuild(next) /\ ~Owning(next)
    BY <1>1, <1>2, BuildTypes DEF SoundBuild, Named, Checked, Owning
  <1> QED
    BY <1>1, <1>2, <1>3, BuildTypes, QuietStep

LEMMA RevParseKeepsBuildInv ==
  ASSUME BuildInv, NEW b \in Builders, RevParse(b)
  PROVE  BuildInv'
  <1> DEFINE next == [build[b] EXCEPT !.at = "version", !.commit = head]
  <1>1. /\ build[b].at = "commit" /\ build' = [build EXCEPT ![b] = next]
        /\ UNCHANGED <<head, checkout, builds, disk>>
    BY DEF RevParse, At, Become
  <1>2. /\ next \in BuildStates /\ next.at = "version" /\ next.id = build[b].id
        /\ next.channel = build[b].channel /\ next.commit = head /\ next.lock = build[b].lock
        /\ next.inputs = build[b].inputs /\ next.hashed = build[b].hashed
    BY BuildTypes DEF BuildStates, Stages
  <1> HIDE DEF next
  <1>3. SoundBuild(next) /\ ~Owning(next)
    BY <1>1, <1>2, BuildTypes DEF SoundBuild, Named, Checked, Owning
  <1> QED
    BY <1>1, <1>2, <1>3, BuildTypes, QuietStep

(* Reading the inputs adds what the checkout has now, which is no older     *)
(* than the commit.                                                         *)
LEMMA ReadingStep ==
  ASSUME BuildInv, NEW b \in Builders, Named(build[b]), ~Checked(build[b]), NEW stage \in Stages,
         Reading(b, stage), stage \notin {"idle", "check", "commit", "version", "status"},
         stage \notin {"sources", "configuration", "archive", "report"}
  PROVE  \E next \in BuildStates :
            /\ SoundBuild(next)
            /\ build' = [build EXCEPT ![b] = next] /\ UNCHANGED <<head, checkout, builds>>
            /\ next.at = stage /\ next.id = build[b].id /\ next.channel = build[b].channel
            /\ next.commit = build[b].commit
  <1> DEFINE next == [build[b] EXCEPT !.at = stage, !.inputs = @ \cup {checkout}]
  <1>1. build' = [build EXCEPT ![b] = next] /\ UNCHANGED <<head, checkout, builds>>
    BY DEF Reading, Become
  <1>2. /\ next \in BuildStates /\ next.at = stage /\ next.id = build[b].id
        /\ next.channel = build[b].channel /\ next.commit = build[b].commit
        /\ next.lock = build[b].lock /\ next.inputs = build[b].inputs \cup {checkout}
        /\ next.hashed = build[b].hashed
    BY BuildTypes DEF BuildStates
  <1> HIDE DEF next
  <1>3. SoundBuild(next)
    <2>1. /\ build[b].at # "idle" /\ build[b].commit \in Nat /\ build[b].commit <= checkout
      BY BuildTypes DEF SoundBuild, Named
    <2>2. \A c \in next.inputs \cup next.hashed : build[b].commit <= c /\ c <= checkout
      BY <1>2, <2>1, BuildTypes DEF SoundBuild
    <2> QED
      BY <1>2, <2>1, <2>2, BuildTypes DEF SoundBuild, Named, Checked
  <1> QED
    BY <1>1, <1>2, <1>3

LEMMA ReadingKeepsBuildInv ==
  ASSUME BuildInv, NEW b \in Builders, Version(b) \/ Compiled(b) \/ Notices(b)
  PROVE  BuildInv'
  <1>1. PICK stage \in {"mkdir", "copy", "recheck"} :
            /\ Reading(b, stage) /\ disk' = disk /\ Named(build[b]) /\ ~Checked(build[b])
            /\ stage # "mkdir" => Owning(build[b])
    BY DEF Version, Compiled, Notices, At, Named, Owning, Checked
  <1>2. PICK next \in BuildStates :
            /\ SoundBuild(next)
            /\ build' = [build EXCEPT ![b] = next] /\ UNCHANGED <<head, checkout, builds>>
            /\ next.at = stage /\ next.id = build[b].id /\ next.channel = build[b].channel
            /\ next.commit = build[b].commit
    BY <1>1, ReadingStep DEF Stages
  <1>3. Owning(next) => Owning(build[b])
    BY <1>1, <1>2 DEF Owning
  <1> QED
    BY <1>1, <1>2, <1>3, BuildTypes, QuietStep

(* A build that ends, well or not, leaves its directory as it is.           *)
LEMMA EndKeepsBuildInv ==
  ASSUME BuildInv, NEW b \in Builders, Report(b) \/ BuildFails(b)
  PROVE  BuildInv'
  <1>1. build' = [build EXCEPT ![b] = NoBuild] /\ UNCHANGED <<head, checkout, builds, disk>>
    BY DEF Report, BuildFails, Become
  <1>2. NoBuild \in BuildStates /\ SoundBuild(NoBuild) /\ ~Owning(NoBuild)
    BY BuildAssumption DEF NoBuild, BuildStates, Stages, SoundBuild, Named, Owning, Checked
  <1> QED
    BY <1>1, <1>2, BuildTypes, QuietStep

(* The directory of a build that has a name is a destination.               *)
LEMMA NamedDestination ==
  ASSUME BuildInv, NEW b \in Builders, Named(build[b])
  PROVE  Destination(b) \in Destinations /\ Destination(b)[1] = build[b].commit
  BY BuildTypes DEF SoundBuild, Named, Destination, Destinations

(* mkdir succeeds for one build only, in a directory nothing was written to.*)
LEMMA MkdirKeepsBuildInv ==
  ASSUME BuildInv, NEW b \in Builders, Mkdir(b)
  PROVE  BuildInv'
  <1>1. /\ build[b].at = "mkdir" /\ Named(build[b]) /\ Destination(b) \in Destinations
        /\ Advance(b, "compile") /\ disk[Destination(b)].owner = 0
    BY NamedDestination DEF Mkdir, At, Named
  <1>2. PICK next \in BuildStates :
            /\ build' = [build EXCEPT ![b] = next] /\ UNCHANGED <<head, checkout, builds>>
            /\ next.at = "compile" /\ next.id = build[b].id /\ next.channel = build[b].channel
            /\ next.commit = build[b].commit /\ next.lock = build[b].lock
            /\ next.inputs = build[b].inputs /\ next.hashed = build[b].hashed
    BY <1>1, AdvanceStep DEF Stages
  <1>3. SoundBuild(next)
    BY <1>1, <1>2, BuildTypes DEF SoundBuild, Named, Checked
  <1>4. /\ build' \in [Builders -> BuildStates] /\ ReadInv'
        /\ build'[b] = next /\ \A c \in Builders \ {b} : build'[c] = build[c]
    BY <1>2, <1>3, OneBuildSteps
  <1>5. build[b].id \in 0..MaxBuilds /\ build[b].id # 0
    BY <1>1, BuildTypes DEF SoundBuild
  <1>6. /\ disk' \in [Destinations -> Directories]
        /\ \A d \in Destinations \ {Destination(b)} : disk'[d] = disk[d]
        /\ disk'[Destination(b)].owner = build[b].id
        /\ LET d == Destination(b) IN
           /\ disk'[d].log = disk[d].log /\ disk'[d].folder = disk[d].folder
           /\ disk'[d].zip = disk[d].zip /\ disk'[d].inputs = disk[d].inputs
           /\ disk'[d].lock = disk[d].lock /\ disk'[d].hashed = disk[d].hashed
           /\ disk'[d].seen = disk[d].seen
    BY <1>1, <1>5 DEF BuildInv, BuildTypeOK, Directories, Mkdir
  <1>7. BuildTypeOK'
    BY <1>2, <1>4, <1>6 DEF BuildInv, BuildTypeOK
  <1>8. ZipIsOfCommit' /\ OneBuildPerDestination'
    BY <1>1, <1>5, <1>6 DEF BuildInv, ZipIsOfCommit, OneBuildPerDestination
  <1>9. OwnerInv'
    <2>1. ASSUME NEW c \in Builders \ {b}, Owning(build[c])
          PROVE  disk'[Destination(c)].owner = build[c].id
      <3>1. disk[Destination(c)].owner = build[c].id /\ build[c].id # 0 /\ Named(build[c])
        BY <2>1, BuildTypes DEF BuildInv, OwnerInv, Owning, Named, SoundBuild
      <3>2. Destination(c) # Destination(b) /\ Destination(c) \in Destinations
        BY <1>1, <3>1, NamedDestination
      <3> QED
        BY <3>1, <3>2, <1>6
    <2>2. \A c \in Builders \ {b} : Destination(c)' = Destination(c)
      BY <1>4 DEF Destination
    <2>3. Destination(b)' = Destination(b)
      BY <1>2, <1>4 DEF Destination
    <2>4. ASSUME NEW c \in Builders, Owning(build'[c]) PROVE disk'[Destination(c)'].owner = build'[c].id
      BY <1>2, <1>4, <1>6, <2>1, <2>2, <2>3, <2>4
    <2> QED
      BY <2>4 DEF OwnerInv, Owning, Named
  <1> QED
    BY <1>4, <1>7, <1>8, <1>9 DEF BuildInv

(* An owner writes one entry of its directory, in its own name.             *)
LEMMA WriteKeepsBuildInv ==
  ASSUME BuildInv, NEW b \in Builders, Compile(b) \/ Copy(b)
  PROVE  BuildInv'
  <1>1. Owning(build[b]) /\ Named(build[b]) /\ ~Checked(build[b]) /\ Destination(b) \in Destinations
    BY NamedDestination DEF Compile, Copy, At, Owning, Named, Checked
  <1>2. PICK stage \in {"compiling", "notices"} : Reading(b, stage)
    BY DEF Compile, Copy
  <1>3. PICK next \in BuildStates :
            /\ SoundBuild(next)
            /\ build' = [build EXCEPT ![b] = next] /\ UNCHANGED <<head, checkout, builds>>
            /\ next.at = stage /\ next.id = build[b].id /\ next.channel = build[b].channel
            /\ next.commit = build[b].commit
    BY <1>1, <1>2, ReadingStep DEF Stages
  <1>4. /\ build' \in [Builders -> BuildStates] /\ ReadInv'
        /\ build'[b] = next /\ \A c \in Builders \ {b} : build'[c] = build[c]
    BY <1>3, OneBuildSteps
  <1>5. build[b].id \in 0..MaxBuilds /\ disk[Destination(b)].owner = build[b].id
    BY <1>1, BuildTypes DEF BuildInv, OwnerInv
  <1>6. /\ disk' \in [Destinations -> Directories]
        /\ \A d \in Destinations :
             /\ disk'[d].owner = disk[d].owner /\ disk'[d].zip = disk[d].zip
             /\ disk'[d].inputs = disk[d].inputs /\ disk'[d].lock = disk[d].lock
             /\ disk'[d].hashed = disk[d].hashed /\ disk'[d].seen = disk[d].seen
             /\ {disk'[d].log, disk'[d].folder} \subseteq {disk[d].log, disk[d].folder, disk[d].owner}
    BY <1>1, <1>5 DEF BuildInv, BuildTypeOK, Directories, Compile, Copy
  <1>7. BuildTypeOK'
    BY <1>3, <1>4, <1>6 DEF BuildInv, BuildTypeOK
  <1>8. ZipIsOfCommit' /\ OneBuildPerDestination'
    BY <1>6 DEF BuildInv, ZipIsOfCommit, OneBuildPerDestination
  <1>9. OwnerInv'
    <2>1. \A c \in Builders : Destination(c)' = Destination(c)
      BY <1>3, <1>4 DEF Destination
    <2>2. ASSUME NEW c \in Builders, Owning(build'[c]) PROVE disk'[Destination(c)'].owner = build'[c].id
      <3>1. Owning(build[c]) /\ build'[c].id = build[c].id
        BY <1>1, <1>3, <1>4, <2>2
      <3>2. disk[Destination(c)].owner = build[c].id /\ Destination(c) \in Destinations
        BY <3>1, NamedDestination DEF BuildInv, OwnerInv, Owning
      <3> QED
        BY <1>6, <2>1, <3>1, <3>2
    <2> QED
      BY <2>2 DEF OwnerInv, Owning, Named
  <1> QED
    BY <1>4, <1>7, <1>8, <1>9 DEF BuildInv

(* The second look, of HEAD first: it has not moved.                        *)
LEMMA CheckHeadKeepsBuildInv ==
  ASSUME BuildInv, NEW b \in Builders, CheckHead(b)
  PROVE  BuildInv'
  <1> DEFINE next == [build[b] EXCEPT !.at = "status", !.seen = head]
  <1>1. /\ build[b].at = "recheck" /\ head = build[b].commit /\ build' = [build EXCEPT ![b] = next]
        /\ UNCHANGED <<head, checkout, builds, disk>>
    BY DEF CheckHead, At, Become
  <1>2. /\ next \in BuildStates /\ next.at = "status" /\ next.id = build[b].id /\ next.seen = head
        /\ next.channel = build[b].channel /\ next.commit = build[b].commit
        /\ next.lock = build[b].lock
        /\ next.inputs = build[b].inputs /\ next.hashed = build[b].hashed
    BY BuildTypes DEF BuildStates, Stages
  <1> HIDE DEF next
  <1>3. SoundBuild(next) /\ Owning(build[b])
    BY <1>1, <1>2, BuildTypes DEF SoundBuild, Named, Checked, Owning
  <1> QED
    BY <1>1, <1>2, <1>3, BuildTypes, QuietStep

(* Then of the status: if HEAD is still there, nothing is newer than it.    *)
LEMMA CheckStatusKeepsBuildInv ==
  ASSUME BuildInv, NEW b \in Builders, CheckStatus(b)
  PROVE  BuildInv'
  <1> DEFINE saw == IF head = build[b].seen THEN build[b].seen ELSE None
             next == [build[b] EXCEPT !.at = "sources", !.seen = saw]
  <1>1. /\ build[b].at = "status" /\ checkout = head /\ build' = [build EXCEPT ![b] = next]
        /\ UNCHANGED <<head, checkout, builds, disk>>
    BY DEF CheckStatus, At, Become, Clean
  <1>2. /\ next \in BuildStates /\ next.at = "sources" /\ next.id = build[b].id /\ next.seen = saw
        /\ next.channel = build[b].channel /\ next.commit = build[b].commit
        /\ next.lock = build[b].lock
        /\ next.inputs = build[b].inputs /\ next.hashed = build[b].hashed
    BY BuildTypes DEF BuildStates, Stages
  <1>3. ASSUME saw # None PROVE build[b].inputs = {build[b].commit}
    <2>1. build[b].commit = checkout /\ checkout \in Nat
      BY <1>1, <1>3, BuildTypes DEF SoundBuild
    <2>2. build[b].inputs # {} /\ \A c \in build[b].inputs : checkout <= c /\ c <= checkout
      BY <1>1, <2>1, BuildTypes DEF SoundBuild, Named
    <2>3. \A c \in build[b].inputs : c = checkout
      <3>1. \A c \in build[b].inputs : c \in Nat
        BY BuildTypes
      <3> QED
        BY <2>1, <2>2, <3>1
    <2> QED
      BY <2>1, <2>2, <2>3
  <1> HIDE DEF next, saw
  <1>4. SoundBuild(next) /\ Owning(build[b])
    BY <1>1, <1>2, <1>3, BuildTypes DEF SoundBuild, Named, Checked, Owning
  <1> QED
    BY <1>1, <1>2, <1>4, BuildTypes, QuietStep

(* Hashing reads after that look, so nothing older than the commit.         *)
LEMMA HashingKeepsBuildInv ==
  ASSUME BuildInv, NEW b \in Builders, HashSources(b) \/ HashConfiguration(b)
  PROVE  BuildInv'
  <1>1. PICK stage \in {"configuration", "archive"} :
            build[b].at \in {"sources", "configuration"} /\ Hashing(b, stage)
    BY DEF HashSources, HashConfiguration, At
  <1> DEFINE next == [build[b] EXCEPT !.at = stage, !.hashed = @ \cup {checkout}]
  <1>2. build' = [build EXCEPT ![b] = next] /\ UNCHANGED <<head, checkout, builds, disk>>
    BY <1>1 DEF Hashing, Become
  <1>3. /\ next \in BuildStates /\ next.at = stage /\ next.id = build[b].id /\ next.seen = build[b].seen
        /\ next.channel = build[b].channel /\ next.commit = build[b].commit
        /\ next.lock = build[b].lock
        /\ next.inputs = build[b].inputs /\ next.hashed = build[b].hashed \cup {checkout}
    BY BuildTypes DEF BuildStates, Stages
  <1> HIDE DEF next
  <1>4. SoundBuild(next) /\ Owning(build[b])
    <2>1. Named(build[b]) /\ Owning(build[b]) /\ Checked(build[b])
      BY <1>1 DEF Named, Owning, Checked
    <2>2. build[b].commit \in Nat /\ build[b].commit <= checkout
      BY <2>1, BuildTypes DEF SoundBuild
    <2>3. \A c \in next.inputs \cup next.hashed : build[b].commit <= c /\ c <= checkout
      BY <1>3, <2>1, <2>2, BuildTypes DEF SoundBuild
    <2> QED
      BY <1>1, <1>3, <2>1, <2>3, BuildTypes DEF SoundBuild, Named, Checked
  <1> QED
    BY <1>2, <1>3, <1>4, BuildTypes, QuietStep

(* The ZIP is written by the owner, with what it has read.                  *)
LEMMA ArchiveKeepsBuildInv ==
  ASSUME BuildInv, NEW b \in Builders, Archive(b)
  PROVE  BuildInv'
  <1>1. /\ build[b].at = "archive" /\ Owning(build[b]) /\ Named(build[b]) /\ Checked(build[b])
        /\ Advance(b, "report")
        /\ Destination(b) \in Destinations /\ Destination(b)[1] = build[b].commit
    BY NamedDestination DEF Archive, At, Owning, Named, Checked
  <1>2. PICK next \in BuildStates :
            /\ build' = [build EXCEPT ![b] = next] /\ UNCHANGED <<head, checkout, builds>>
            /\ next.at = "report" /\ next.id = build[b].id /\ next.channel = build[b].channel
            /\ next.commit = build[b].commit /\ next.lock = build[b].lock
            /\ next.inputs = build[b].inputs /\ next.hashed = build[b].hashed
            /\ next.seen = build[b].seen
    BY <1>1, AdvanceStep DEF Stages
  <1>3. SoundBuild(next)
    BY <1>1, <1>2, BuildTypes DEF SoundBuild, Named, Checked
  <1>4. /\ build' \in [Builders -> BuildStates] /\ ReadInv'
        /\ build'[b] = next /\ \A c \in Builders \ {b} : build'[c] = build[c]
    BY <1>2, <1>3, OneBuildSteps
  <1>5. /\ build[b].id \in 0..MaxBuilds /\ disk[Destination(b)].owner = build[b].id
        /\ build[b].seen # None => build[b].inputs = {build[b].commit}
        /\ build[b].lock <= build[b].commit
        /\ \A c \in build[b].hashed : build[b].commit <= c
        /\ build[b] \in BuildStates
    BY <1>1, BuildTypes DEF BuildInv, OwnerInv, SoundBuild
  <1>6. /\ disk' \in [Destinations -> Directories]
        /\ \A d \in Destinations \ {Destination(b)} : disk'[d] = disk[d]
        /\ LET d == Destination(b) IN
           /\ disk'[d].owner = disk[d].owner /\ disk'[d].log = disk[d].log
           /\ disk'[d].folder = disk[d].folder /\ disk'[d].zip = build[b].id
           /\ disk'[d].lock = build[b].lock /\ disk'[d].inputs = build[b].inputs
           /\ disk'[d].hashed = build[b].hashed /\ disk'[d].seen = build[b].seen
    <2> DEFINE d == Destination(b)
               r == build[b]
               written == [disk[d] EXCEPT !.zip = r.id, !.lock = r.lock, !.inputs = r.inputs,
                                          !.hashed = r.hashed, !.seen = r.seen]
    <2>1. disk' = [disk EXCEPT ![d] = written]
      BY DEF Archive
    <2>2. /\ r.id \in 0..MaxBuilds /\ r.lock \in Contents \cup {None} /\ r.inputs \in SUBSET Contents
          /\ r.hashed \in SUBSET Contents /\ r.seen \in Contents \cup {None}
      BY <1>5 DEF BuildStates
    <2>3. disk \in [Destinations -> Directories] /\ disk[d] \in Directories
      BY <1>1 DEF BuildInv, BuildTypeOK
    <2> HIDE DEF d, r
    <2>4. /\ written \in Directories
          /\ written.owner = disk[d].owner /\ written.log = disk[d].log
          /\ written.folder = disk[d].folder /\ written.zip = r.id /\ written.lock = r.lock
          /\ written.inputs = r.inputs /\ written.hashed = r.hashed /\ written.seen = r.seen
      BY <2>2, <2>3 DEF Directories
    <2> HIDE DEF written
    <2>5. d \in Destinations
      BY <1>1 DEF d
    <2>6. /\ disk' \in [Destinations -> Directories] /\ disk'[d] = written
          /\ \A x \in Destinations \ {d} : disk'[x] = disk[x]
      BY <2>1, <2>3, <2>4, <2>5
    <2> QED
      BY <2>4, <2>6 DEF d, r
  <1>7. BuildTypeOK'
    BY <1>2, <1>4, <1>6 DEF BuildInv, BuildTypeOK
  <1>8. ZipIsOfCommit' /\ OneBuildPerDestination'
    BY <1>1, <1>5, <1>6 DEF BuildInv, ZipIsOfCommit, OneBuildPerDestination
  <1>9. OwnerInv'
    <2>1. \A c \in Builders : Destination(c)' = Destination(c)
      BY <1>2, <1>4 DEF Destination
    <2>2. ASSUME NEW c \in Builders, Owning(build'[c]) PROVE disk'[Destination(c)'].owner = build'[c].id
      <3>1. Owning(build[c]) /\ build'[c].id = build[c].id
        BY <1>1, <1>2, <1>4, <2>2
      <3>2. disk[Destination(c)].owner = build[c].id /\ Destination(c) \in Destinations
        BY <3>1, NamedDestination DEF BuildInv, OwnerInv, Owning
      <3> QED
        BY <1>6, <2>1, <3>1, <3>2
    <2> QED
      BY <2>2 DEF OwnerInv, Owning, Named
  <1> QED
    BY <1>4, <1>7, <1>8, <1>9 DEF BuildInv

LEMMA BuildStep == BuildInv /\ [BuildNext]_buildVars => BuildInv'
  <1> SUFFICES ASSUME BuildInv, [BuildNext]_buildVars PROVE BuildInv'
    OBVIOUS
  <1>1. CASE UNCHANGED buildVars
    BY <1>1 DEF buildVars, BuildInv, BuildTypeOK, ReadInv, SoundBuild, OwnerInv, ZipIsOfCommit,
                OneBuildPerDestination, Owning, Named, Checked, Destination
  <1>2. CASE Edit \/ Commit
    BY <1>2, DeveloperKeepsBuildInv
  <1>3. ASSUME NEW b \in Builders, \E channel \in Channels : ReadLock(b, channel) PROVE BuildInv'
    BY <1>3, ReadLockKeepsBuildInv
  <1>4. ASSUME NEW b \in Builders, FirstLook(b) \/ RevParse(b) \/ Mkdir(b) PROVE BuildInv'
    BY <1>4, FirstLookKeepsBuildInv, RevParseKeepsBuildInv, MkdirKeepsBuildInv
  <1>5. ASSUME NEW b \in Builders, Version(b) \/ Compiled(b) \/ Notices(b) PROVE BuildInv'
    BY <1>5, ReadingKeepsBuildInv
  <1>6. ASSUME NEW b \in Builders, Compile(b) \/ Copy(b) PROVE BuildInv'
    BY <1>6, WriteKeepsBuildInv
  <1>7. ASSUME NEW b \in Builders, CheckHead(b) \/ CheckStatus(b) PROVE BuildInv'
    BY <1>7, CheckHeadKeepsBuildInv, CheckStatusKeepsBuildInv
  <1>8. ASSUME NEW b \in Builders, HashSources(b) \/ HashConfiguration(b) \/ Archive(b) PROVE BuildInv'
    BY <1>8, HashingKeepsBuildInv, ArchiveKeepsBuildInv
  <1>9. ASSUME NEW b \in Builders, Report(b) \/ BuildFails(b) PROVE BuildInv'
    BY <1>9, EndKeepsBuildInv
  <1> QED
    BY <1>1, <1>2, <1>3, <1>4, <1>5, <1>6, <1>7, <1>8, <1>9 DEF BuildNext

(* A ZIP holds the inputs of the commit in its name, unless HEAD moved      *)
(* between the two git calls of the second look; the versions it records    *)
(* are not newer and the hashes not older than that commit, whatever else   *)
(* the developer and other builds do meanwhile (build_windows.py:218-255).  *)
THEOREM ZipsAreOfCommit == BuildSpec => []ZipIsOfCommit
  <1>1. BuildInv => ZipIsOfCommit
    BY DEF BuildInv
  <1> QED
    BY <1>1, BuildStarts, BuildStep, PTL DEF BuildSpec

(* A directory holds the output of one build, the one that made it          *)
(* (build_windows.py:227-228, 274-275).                                     *)
THEOREM OneBuildEach == BuildSpec => []OneBuildPerDestination
  <1>1. BuildInv => OneBuildPerDestination
    BY DEF BuildInv
  <1> QED
    BY <1>1, BuildStarts, BuildStep, PTL DEF BuildSpec

-----------------------------------------------------------------------------
(* RateHistory.  A store is handled as the set of its entries, one for each *)
(* application: what a turn of recording adds, replaces and evicts.         *)

(* What every store of a snapshot is, the ones between its groups included. *)
Sound(s) ==
    /\ s \in Seq(Entries) /\ Len(s) <= MaxApps
    /\ \A i \in 1..Len(s) : Len(s[i].samples) <= MaxSamples
    /\ \A i, j \in 1..Len(s) : s[i].key = s[j].key => i = j

Entry(app, at, samples) == [key |-> app, seen |-> at, samples |-> samples]

LEMMA SoundFacts ==
  ASSUME NEW s, Sound(s)
  PROVE  /\ Len(s) \in Nat /\ DOMAIN s = 1..Len(s)
         /\ \A i \in 1..Len(s) :
                /\ s[i] \in Entries /\ s[i] \in ToSet(s)
                /\ s[i] = Entry(s[i].key, s[i].seen, s[i].samples)
                /\ s[i].key \in Tracks /\ s[i].seen \in Times /\ s[i].seen \in Nat
                /\ s[i].samples \in Seq(Times)
         /\ \A e \in ToSet(s) : \E i \in 1..Len(s) : s[i] = e
         /\ IsInjective(s)
  <1>1. /\ Len(s) \in Nat /\ DOMAIN s = 1..Len(s) /\ \A i \in 1..Len(s) : s[i] \in Entries
    BY SeqMembers, ElementOfSeq DEF Sound
  <1>2. \A e \in Entries : /\ e = Entry(e.key, e.seen, e.samples)
                           /\ e.key \in Tracks /\ e.seen \in Times /\ e.samples \in Seq(Times)
    BY DEF Entries, Entry
  <1>3. Times \subseteq Nat
    BY HistoryAssumption DEF Times
  <1>4. \A i \in 1..Len(s) : s[i] \in ToSet(s)
    BY <1>1 DEF ToSet
  <1>5. \A e \in ToSet(s) : \E i \in 1..Len(s) : s[i] = e
    BY <1>1 DEF ToSet
  <1>6. IsInjective(s)
    BY <1>1 DEF IsInjective, Sound
  <1> QED
    BY <1>1, <1>2, <1>3, <1>4, <1>5, <1>6

(* A tracked application has one entry.                                     *)
LEMMA PositionIs ==
  ASSUME NEW s, Sound(s), NEW app, Tracked(s, app)
  PROVE  /\ Position(s, app) \in 1..Len(s) /\ s[Position(s, app)].key = app
         /\ \A i \in 1..Len(s) : s[i].key = app <=> i = Position(s, app)
  <1>1. \E i \in DOMAIN s : s[i].key = app
    BY DEF Tracked
  <1>2. Position(s, app) \in DOMAIN s /\ s[Position(s, app)].key = app
    BY <1>1, Zenon DEF Position
  <1> QED
    BY <1>2, SoundFacts DEF Sound

(* What is tracked and what is held of it, by the entries.                  *)
LEMMA EntryIs ==
  ASSUME NEW s, Sound(s), NEW app
  PROVE  /\ Tracked(s, app) <=> \E e \in ToSet(s) : e.key = app
         /\ \A e \in ToSet(s) : e.key = app =>
                /\ s[Position(s, app)] = e /\ SamplesOf(s, app) = e.samples
                /\ Kept(s, app) = e.samples
         /\ \A e, f \in ToSet(s) : e.key = f.key => e = f
  <1>1. /\ DOMAIN s = 1..Len(s)
        /\ \A i \in 1..Len(s) : s[i] \in ToSet(s)
        /\ \A e \in ToSet(s) : \E i \in 1..Len(s) : s[i] = e
    BY SoundFacts
  <1>2. Tracked(s, app) <=> \E e \in ToSet(s) : e.key = app
    BY <1>1, Zenon DEF Tracked
  <1>3. ASSUME NEW e \in ToSet(s), e.key = app
        PROVE  /\ s[Position(s, app)] = e /\ SamplesOf(s, app) = e.samples
               /\ Kept(s, app) = e.samples
    <2>1. PICK i \in 1..Len(s) : s[i] = e
      BY <1>1
    <2>2. Tracked(s, app)
      BY <1>2, <1>3
    <2>3. Position(s, app) = i
      BY <1>3, <2>1, <2>2, PositionIs
    <2> QED
      BY <2>1, <2>2, <2>3 DEF SamplesOf, Kept
  <1>4. \A e, f \in ToSet(s) : e.key = f.key => e = f
    BY <1>1 DEF Sound
  <1> QED
    BY <1>2, <1>3, <1>4

(* There is an entry seen least recently.                                   *)
LEMMA OldestIs ==
  ASSUME NEW s, Sound(s), s # <<>>
  PROVE  Oldest(s) \in 1..Len(s) /\ \A j \in 1..Len(s) : s[Oldest(s)].seen <= s[j].seen
  <1>1. /\ Len(s) \in Nat /\ DOMAIN s = 1..Len(s) /\ \A i \in 1..Len(s) : s[i].seen \in Nat
    BY SoundFacts
  <1>2. Len(s) # 0
    BY <1>1, EmptySeq DEF Sound
  <1> DEFINE seens == {s[i].seen : i \in 1..Len(s)}
  <1>3. seens \subseteq Nat /\ seens # {}
    <2>1. 1 \in 1..Len(s)
      BY <1>1, <1>2
    <2>2. s[1].seen \in seens
      BY <2>1
    <2> QED
      BY <1>1, <2>2
  <1>4. PICK least \in seens : \A k \in seens : least <= k
    BY <1>3, LeastNumber
  <1> DEFINE at == {i \in 1..Len(s) : s[i].seen = least}
  <1>5. at \subseteq Nat /\ at # {}
    BY <1>1, <1>4
  <1>6. PICK o \in at : \A k \in at : o <= k
    BY <1>5, LeastNumber
  <1>7. IsOldest(s, o)
    <2> SUFFICES ASSUME NEW j \in 1..Len(s)
                 PROVE  s[o].seen < s[j].seen \/ (s[o].seen = s[j].seen /\ o <= j)
      BY <1>1 DEF IsOldest
    <2>1. s[o].seen = least /\ least <= s[j].seen /\ s[j].seen \in Nat /\ least \in Nat
      BY <1>1, <1>4, <1>6
    <2>2. s[j].seen = least => o <= j
      BY <1>6
    <2> QED
      BY <2>1, <2>2
  <1>8. Oldest(s) \in DOMAIN s /\ IsOldest(s, Oldest(s))
    BY <1>1, <1>6, <1>7, Zenon DEF Oldest
  <1>9. \A j \in 1..Len(s) : s[Oldest(s)].seen < s[j].seen \/ s[Oldest(s)].seen = s[j].seen
    BY <1>1, <1>8 DEF IsOldest
  <1> QED
    BY <1>1, <1>8, <1>9

LEMMA SampledTypes ==
  ASSUME NEW samples \in Seq(Times), NEW at \in Times
  PROVE  /\ Sampled(samples, at) \in Seq(Times)
         /\ Len(samples) <= MaxSamples => Len(Sampled(samples, at)) <= MaxSamples
  <1>1. Len(samples) \in Nat /\ MaxSamples \in Nat /\ MaxSamples > 0
    BY LenProperties, HistoryAssumption
  <1>2. Append(samples, at) \in Seq(Times) /\ Len(Append(samples, at)) = Len(samples) + 1
    BY Appended
  <1>3. ASSUME samples # <<>>
        PROVE  /\ Append(Tail(samples), at) \in Seq(Times)
               /\ Len(Append(Tail(samples), at)) = Len(samples)
    <2>1. Tail(samples) \in Seq(Times) /\ Len(Tail(samples)) = Len(samples) - 1
      BY <1>3, Taken
    <2>2. /\ Append(Tail(samples), at) \in Seq(Times)
          /\ Len(Append(Tail(samples), at)) = Len(Tail(samples)) + 1
      BY <2>1, Appended
    <2> QED
      BY <1>1, <2>1, <2>2
  <1>4. samples = <<>> => Len(samples) < MaxSamples
    BY <1>1
  <1> QED
    BY <1>1, <1>2, <1>3, <1>4 DEF Sampled

(* Sampling goes on at the end, and reading drops from the front.           *)
LEMMA SampledIs ==
  ASSUME NEW samples \in Seq(Times), NEW at \in Times, \A i \in DOMAIN samples : samples[i] <= at
  PROVE  /\ Len(Sampled(samples, at)) = IF Len(samples) < MaxSamples THEN Len(samples) + 1 ELSE Len(samples)
         /\ Len(Sampled(samples, at)) \in Nat \ {0}
         /\ Sampled(samples, at)[Len(Sampled(samples, at))] = at
         /\ \A i \in 1..Len(Sampled(samples, at)) - 1 :
                Sampled(samples, at)[i] = samples[i + (Len(samples) + 1 - Len(Sampled(samples, at)))]
  <1>1. Len(samples) \in Nat /\ DOMAIN samples = 1..Len(samples) /\ MaxSamples \in Nat /\ MaxSamples > 0
    BY LenProperties, HistoryAssumption
  <1>2. samples # <<>> => ~(at < Last(samples))
    <2>1. ASSUME samples # <<>> PROVE ~(at < Last(samples))
      <3>1. Len(samples) \in 1..Len(samples) /\ Last(samples) = samples[Len(samples)]
        BY <1>1, <2>1, Taken DEF Last
      <3>2. at \in Nat /\ samples[Len(samples)] \in Nat
        BY <3>1, ElementOfSeq, HistoryAssumption DEF Times
      <3> QED
        BY <1>1, <3>1, <3>2
    <2> QED
      BY <2>1
  <1>3. CASE Len(samples) < MaxSamples
    <2>1. Sampled(samples, at) = Append(samples, at)
      BY <1>2, <1>3 DEF Sampled
    <2>2. /\ Len(Append(samples, at)) = Len(samples) + 1
          /\ \A i \in 1..Len(samples) : Append(samples, at)[i] = samples[i]
          /\ Append(samples, at)[Len(samples) + 1] = at
      BY AppendProperties
    <2> QED
      BY <1>1, <1>3, <2>1, <2>2
  <1>4. CASE ~(Len(samples) < MaxSamples)
    <2>1. samples # <<>> /\ Len(samples) > 0
      BY <1>1, <1>4
    <2>2. Sampled(samples, at) = Append(Tail(samples), at)
      BY <1>2, <1>4, <2>1 DEF Sampled
    <2>3. /\ Tail(samples) \in Seq(Times) /\ Len(Tail(samples)) = Len(samples) - 1
          /\ \A i \in 1..Len(samples) - 1 : Tail(samples)[i] = samples[i + 1]
      BY <2>1, HeadTailProperties
    <2>4. /\ Len(Append(Tail(samples), at)) = Len(samples)
          /\ \A i \in 1..Len(samples) - 1 : Append(Tail(samples), at)[i] = Tail(samples)[i]
          /\ Append(Tail(samples), at)[Len(samples)] = at
      <3>1. /\ Len(Append(Tail(samples), at)) = Len(Tail(samples)) + 1
            /\ \A i \in 1..Len(Tail(samples)) : Append(Tail(samples), at)[i] = Tail(samples)[i]
            /\ Append(Tail(samples), at)[Len(Tail(samples)) + 1] = at
        BY <2>3, AppendProperties
      <3> QED
        BY <1>1, <2>3, <3>1
    <2> QED
      BY <1>1, <1>4, <2>1, <2>2, <2>3, <2>4
  <1> QED
    BY <1>3, <1>4

LEMMA FreshIs ==
  ASSUME NEW samples \in Seq(Times), NEW read \in Nat
  PROVE  /\ Fresh(samples, read) \in Seq(Times)
         /\ \E m \in 1..Len(samples) + 1 :
                /\ Len(Fresh(samples, read)) = Len(samples) + 1 - m
                /\ \A i \in 1..Len(Fresh(samples, read)) : Fresh(samples, read)[i] = samples[m + i - 1]
                /\ \A k \in 1..m - 1 : ~(samples[k] + HistoryWindow >= read)
                /\ m <= Len(samples) => samples[m] + HistoryWindow >= read
  <1> DEFINE young == {i \in DOMAIN samples : samples[i] + HistoryWindow >= read}
  <1>1. Len(samples) \in Nat /\ DOMAIN samples = 1..Len(samples) /\ \A i \in 1..Len(samples) : samples[i] \in Times
    BY LenProperties, ElementOfSeq
  <1>2. CASE young = {}
    <2>1. Fresh(samples, read) = <<>>
      BY <1>2 DEF Fresh
    <2>2. \A k \in 1..Len(samples) : ~(samples[k] + HistoryWindow >= read)
      BY <1>1, <1>2
    <2> DEFINE m == Len(samples) + 1
    <2>3. /\ m \in 1..Len(samples) + 1 /\ ~(m <= Len(samples)) /\ m - 1 = Len(samples)
          /\ Len(<<>>) = Len(samples) + 1 - m /\ 1..Len(<<>>) = {} /\ <<>> \in Seq(Times)
      BY <1>1
    <2> HIDE DEF m
    <2> QED
      BY <2>1, <2>2, <2>3
  <1>3. CASE young # {}
    <2>1. young \subseteq Nat
      BY <1>1
    <2>2. PICK m \in young : \A k \in young : m <= k
      BY <1>3, <2>1, LeastNumber
    <2>3. Min(young) \in young /\ \A k \in young : Min(young) <= k
      BY <2>2, Zenon DEF Min
    <2>4. Min(young) \in 1..Len(samples) /\ samples[Min(young)] + HistoryWindow >= read
      BY <1>1, <2>3
    <2>5. \A k \in 1..Min(young) - 1 : ~(samples[k] + HistoryWindow >= read)
      <3> SUFFICES ASSUME NEW k \in 1..Min(young) - 1, samples[k] + HistoryWindow >= read PROVE FALSE
        OBVIOUS
      <3>1. k \in 1..Len(samples) /\ ~(Min(young) <= k)
        BY <1>1, <2>4
      <3> QED
        BY <1>1, <2>3, <3>1
    <2>6. Fresh(samples, read) = SubSeq(samples, Min(young), Len(samples))
      BY <1>3 DEF Fresh
    <2> HIDE DEF young
    <2>7. /\ SubSeq(samples, Min(young), Len(samples)) \in Seq(Times)
          /\ Len(SubSeq(samples, Min(young), Len(samples))) = Len(samples) - Min(young) + 1
          /\ \A i \in 1..Len(samples) - Min(young) + 1 :
                 SubSeq(samples, Min(young), Len(samples))[i] = samples[Min(young) + i - 1]
      BY <1>1, <2>4, SubSeqProperties
    <2>8. /\ Fresh(samples, read) \in Seq(Times)
          /\ Len(Fresh(samples, read)) = Len(samples) + 1 - Min(young)
          /\ \A i \in 1..Len(Fresh(samples, read)) : Fresh(samples, read)[i] = samples[Min(young) + i - 1]
      BY <1>1, <2>4, <2>6, <2>7
    <2>9. Min(young) \in 1..Len(samples) + 1
      BY <1>1, <2>4
    <2> QED
      BY <2>4, <2>5, <2>8, <2>9
  <1> QED
    BY <1>2, <1>3

LEMMA FreshTypes ==
  ASSUME NEW samples \in Seq(Times), NEW read \in Nat
  PROVE  /\ Fresh(samples, read) \in Seq(Times)
         /\ Len(Fresh(samples, read)) <= Len(samples)
         /\ \A i \in DOMAIN Fresh(samples, read) : \E j \in DOMAIN samples : Fresh(samples, read)[i] = samples[j]
  <1>1. Len(samples) \in Nat /\ DOMAIN samples = 1..Len(samples)
    BY LenProperties
  <1>2. PICK m \in 1..Len(samples) + 1 :
                /\ Len(Fresh(samples, read)) = Len(samples) + 1 - m
                /\ \A i \in 1..Len(Fresh(samples, read)) : Fresh(samples, read)[i] = samples[m + i - 1]
    BY FreshIs
  <1>3. Fresh(samples, read) \in Seq(Times) /\ DOMAIN Fresh(samples, read) = 1..Len(samples) + 1 - m
    BY <1>2, FreshIs, LenProperties
  <1>4. Len(Fresh(samples, read)) <= Len(samples)
    BY <1>1, <1>2
  <1>5. ASSUME NEW i \in DOMAIN Fresh(samples, read)
        PROVE  \E j \in DOMAIN samples : Fresh(samples, read)[i] = samples[j]
    <2>1. i \in 1..Len(samples) + 1 - m /\ m \in 1..Len(samples) + 1
      BY <1>3
    <2>2. m + i - 1 \in DOMAIN samples
      BY <1>1, <2>1
    <2>3. Fresh(samples, read)[i] = samples[m + i - 1]
      BY <1>2, <2>1
    <2> QED
      BY <2>2, <2>3
  <1> QED
    BY <1>3, <1>4, <1>5

LEMMA SampledAtMost ==
  ASSUME NEW samples \in Seq(Times), NEW at \in Times, \A i \in DOMAIN samples : samples[i] <= at
  PROVE  \A i \in DOMAIN Sampled(samples, at) : Sampled(samples, at)[i] <= at
  <1> DEFINE v == Sampled(samples, at)
  <1>1. /\ Len(v) = IF Len(samples) < MaxSamples THEN Len(samples) + 1 ELSE Len(samples)
        /\ Len(v) \in Nat \ {0} /\ v[Len(v)] = at
        /\ \A i \in 1..Len(v) - 1 : v[i] = samples[i + (Len(samples) + 1 - Len(v))]
    BY SampledIs
  <1>2. DOMAIN v = 1..Len(v)
    BY SampledTypes, LenProperties
  <1>3. Len(samples) \in Nat /\ DOMAIN samples = 1..Len(samples) /\ at \in Nat
    BY LenProperties, HistoryAssumption DEF Times
  <1> HIDE DEF v
  <1>4. ASSUME NEW i \in 1..Len(v) PROVE v[i] <= at
    <2>1. CASE i = Len(v)
      <3>1. v[Len(v)] = at
        BY <1>1
      <3>2. v[i] = at
        BY <2>1, <3>1, Zenon
      <3> QED
        BY <1>3, <3>2
    <2>2. CASE i # Len(v)
      <3>1. i \in 1..Len(v) - 1
        BY <1>1, <2>2
      <3>2. Len(v) = Len(samples) + 1 \/ Len(v) = Len(samples)
        BY <1>1
      <3>3. i + (Len(samples) + 1 - Len(v)) \in 1..Len(samples)
        BY <1>3, <3>1, <3>2
      <3>4. v[i] = samples[i + (Len(samples) + 1 - Len(v))]
        BY <1>1, <3>1
      <3> QED
        BY <1>3, <3>3, <3>4
    <2> QED
      BY <2>1, <2>2
  <1> QED
    BY <1>2, <1>4 DEF v

(* Both keep one series the end of another.                                 *)
LEMMA SampledEnds ==
  ASSUME NEW b \in Seq(Times), NEW a \in Seq(Times), EndsWith(b, a),
         NEW at \in Times, \A i \in DOMAIN b : b[i] <= at
  PROVE  EndsWith(Sampled(b, at), Sampled(a, at))
  <1> DEFINE sa == Sampled(a, at)
             sb == Sampled(b, at)
  <1>1. /\ Len(a) \in Nat /\ Len(b) \in Nat /\ DOMAIN a = 1..Len(a) /\ DOMAIN b = 1..Len(b)
        /\ Len(a) <= Len(b) /\ \A i \in 1..Len(a) : a[i] = b[i + (Len(b) - Len(a))]
        /\ MaxSamples \in Nat
    BY LenProperties, HistoryAssumption DEF EndsWith
  <1>2. \A i \in DOMAIN a : a[i] <= at
    <2>1. \A i \in 1..Len(a) : i + (Len(b) - Len(a)) \in 1..Len(b)
      BY <1>1
    <2> QED
      BY <1>1, <2>1
  <1>3. /\ Len(sa) = IF Len(a) < MaxSamples THEN Len(a) + 1 ELSE Len(a)
        /\ Len(sa) \in Nat \ {0} /\ sa[Len(sa)] = at
        /\ \A i \in 1..Len(sa) - 1 : sa[i] = a[i + (Len(a) + 1 - Len(sa))]
    BY <1>2, SampledIs
  <1>4. /\ Len(sb) = IF Len(b) < MaxSamples THEN Len(b) + 1 ELSE Len(b)
        /\ Len(sb) \in Nat \ {0} /\ sb[Len(sb)] = at
        /\ \A i \in 1..Len(sb) - 1 : sb[i] = b[i + (Len(b) + 1 - Len(sb))]
    BY SampledIs
  <1>5. DOMAIN sa = 1..Len(sa)
    BY SampledTypes, LenProperties
  <1> HIDE DEF sa, sb
  <1>6. \/ Len(sa) = Len(a) + 1 /\ Len(sb) = Len(b) + 1
        \/ Len(sa) = Len(a) + 1 /\ Len(sb) = Len(b) /\ Len(a) < Len(b)
        \/ Len(sa) = Len(a) /\ Len(sb) = Len(b)
    <2>1. Len(sa) = IF Len(a) < MaxSamples THEN Len(a) + 1 ELSE Len(a)
      BY <1>3
    <2>2. Len(sb) = IF Len(b) < MaxSamples THEN Len(b) + 1 ELSE Len(b)
      BY <1>4
    <2>3. Len(a) \in Nat /\ Len(b) \in Nat /\ MaxSamples \in Nat /\ Len(a) <= Len(b)
      BY <1>1
    <2> QED
      BY <2>1, <2>2, <2>3
  <1>7. Len(sa) <= Len(sb)
    BY <1>1, <1>6
  <1>8. ASSUME NEW i \in 1..Len(sa) PROVE sa[i] = sb[i + (Len(sb) - Len(sa))]
    <2>1. CASE i = Len(sa)
      <3>1. Len(sa) + (Len(sb) - Len(sa)) = Len(sb)
        BY <1>1, <1>6
      <3>2. sa[Len(sa)] = at /\ sb[Len(sb)] = at
        BY <1>3, <1>4
      <3> QED
        BY <2>1, <3>1, <3>2, Zenon
    <2>2. CASE i # Len(sa)
      <3> DEFINE k == i + (Len(a) + 1 - Len(sa))
                 j == i + (Len(sb) - Len(sa))
      <3>1. i \in 1..Len(sa) - 1 /\ sa[i] = a[k]
        <4>1. Len(sa) \in Nat
          BY <1>3
        <4>2. i \in 1..Len(sa) - 1
          BY <2>2, <4>1
        <4> QED
          BY <1>3, <4>2
      <3>2. k \in 1..Len(a)
        BY <1>1, <1>6, <3>1
      <3>3. a[k] = b[k + (Len(b) - Len(a))]
        BY <1>1, <3>2
      <3>4. j \in 1..Len(sb) - 1
        BY <1>1, <1>6, <3>1
      <3>5. sb[j] = b[j + (Len(b) + 1 - Len(sb))]
        BY <1>4, <3>4
      <3>6. j + (Len(b) + 1 - Len(sb)) = k + (Len(b) - Len(a))
        BY <1>1, <1>6
      <3> QED
        BY <3>1, <3>3, <3>5, <3>6
    <2> QED
      BY <2>1, <2>2
  <1>9. EndsWith(sb, sa)
    BY <1>5, <1>7, <1>8 DEF EndsWith
  <1> QED
    BY <1>9 DEF sa, sb

LEMMA FreshEnds ==
  ASSUME NEW b \in Seq(Times), NEW a \in Seq(Times), EndsWith(b, a), NEW read \in Nat
  PROVE  EndsWith(Fresh(b, read), Fresh(a, read))
  <1> DEFINE fa == Fresh(a, read)
             fb == Fresh(b, read)
  <1>1. /\ Len(a) \in Nat /\ Len(b) \in Nat /\ DOMAIN a = 1..Len(a)
        /\ Len(a) <= Len(b) /\ \A i \in 1..Len(a) : a[i] = b[i + (Len(b) - Len(a))]
    BY LenProperties DEF EndsWith
  <1>2. PICK m \in 1..Len(a) + 1 :
            /\ Len(fa) = Len(a) + 1 - m
            /\ \A i \in 1..Len(fa) : fa[i] = a[m + i - 1]
            /\ m <= Len(a) => a[m] + HistoryWindow >= read
    BY FreshIs
  <1>3. PICK k \in 1..Len(b) + 1 :
            /\ Len(fb) = Len(b) + 1 - k
            /\ \A i \in 1..Len(fb) : fb[i] = b[k + i - 1]
            /\ \A i \in 1..k - 1 : ~(b[i] + HistoryWindow >= read)
    BY FreshIs
  <1>4. DOMAIN fa = 1..Len(fa)
    BY FreshIs, LenProperties
  <1> HIDE DEF fa, fb
  <1>5. k <= m + (Len(b) - Len(a))
    <2>1. CASE m <= Len(a)
      <3>1. a[m] = b[m + (Len(b) - Len(a))] /\ a[m] + HistoryWindow >= read
        BY <1>1, <1>2, <2>1
      <3>2. m + (Len(b) - Len(a)) \notin 1..k - 1
        BY <1>3, <3>1
      <3> QED
        BY <1>1, <3>2
    <2>2. CASE ~(m <= Len(a))
      BY <1>1, <2>2
    <2> QED
      BY <2>1, <2>2
  <1>6. Len(fa) <= Len(fb) /\ Len(fa) \in Nat /\ Len(fb) \in Nat
    BY <1>1, <1>2, <1>3, <1>5
  <1>7. ASSUME NEW i \in 1..Len(fa) PROVE fa[i] = fb[i + (Len(fb) - Len(fa))]
    <2>1. m + i - 1 \in 1..Len(a) /\ fa[i] = a[m + i - 1]
      BY <1>1, <1>2
    <2>2. a[m + i - 1] = b[(m + i - 1) + (Len(b) - Len(a))]
      BY <1>1, <2>1
    <2>3. i + (Len(fb) - Len(fa)) \in 1..Len(fb)
      BY <1>6
    <2>4. fb[i + (Len(fb) - Len(fa))] = b[k + (i + (Len(fb) - Len(fa))) - 1]
      BY <1>3, <2>3
    <2>5. k + (i + (Len(fb) - Len(fa))) - 1 = (m + i - 1) + (Len(b) - Len(a))
      BY <1>1, <1>2, <1>3
    <2> QED
      BY <2>1, <2>2, <2>4, <2>5
  <1>8. EndsWith(fb, fa)
    BY <1>4, <1>6, <1>7 DEF EndsWith
  <1> QED
    BY <1>8 DEF fa, fb

LEMMA Ends ==
  ASSUME NEW b \in Seq(Times)
  PROVE  EndsWith(b, b) /\ EndsWith(b, <<>>)
  <1>1. Len(b) \in Nat /\ DOMAIN b = 1..Len(b)
    BY LenProperties
  <1> QED
    BY <1>1 DEF EndsWith

LEMMA EntryTypes ==
  ASSUME NEW app \in Tracks, NEW at \in Times, NEW samples \in Seq(Times)
  PROVE  /\ Entry(app, at, samples) \in Entries
         /\ Entry(app, at, samples).key = app /\ Entry(app, at, samples).seen = at
         /\ Entry(app, at, samples).samples = samples
  BY DEF Entry, Entries

(* Updating replaces the entry of the application and no other.             *)
LEMMA UpdatedIs ==
  ASSUME NEW s, Sound(s), NEW app \in Tracks, Tracked(s, app),
         NEW at \in Times, NEW samples \in Seq(Times), Len(samples) <= MaxSamples
  PROVE  /\ Sound(Updated(s, app, at, samples))
         /\ \A e : e \in ToSet(Updated(s, app, at, samples)) <=>
                \/ e \in ToSet(s) /\ e.key # app
                \/ e = Entry(app, at, samples)
  <1> DEFINE u == Updated(s, app, at, samples)
             new == Entry(app, at, samples)
             p == Position(s, app)
  <1>1. /\ Len(s) \in Nat /\ DOMAIN s = 1..Len(s) /\ s \in Seq(Entries)
        /\ p \in 1..Len(s) /\ \A i \in 1..Len(s) : s[i].key = app <=> i = p
    BY SoundFacts, PositionIs DEF Sound
  <1>2. new \in Entries /\ new.key = app /\ new.samples = samples
    BY EntryTypes
  <1>3. u = [s EXCEPT ![p] = new]
    BY DEF Updated, Entry
  <1> HIDE DEF u, new, p
  <1>4. u \in Seq(Entries) /\ Len(u) = Len(s) /\ \A i \in 1..Len(s) : u[i] = IF i = p THEN new ELSE s[i]
    BY <1>1, <1>2, <1>3, ExceptSeq
  <1>5. DOMAIN u = 1..Len(s)
    BY <1>4, SeqMembers
  <1>6. Sound(u)
    <2>1. \A i \in 1..Len(u) : Len(u[i].samples) <= MaxSamples
      BY <1>2, <1>4 DEF Sound
    <2>2. \A i \in 1..Len(u) : u[i].key = s[i].key
      BY <1>1, <1>2, <1>4
    <2>3. \A i, j \in 1..Len(u) : u[i].key = u[j].key => i = j
      BY <1>4, <2>2 DEF Sound
    <2> QED
      BY <1>4, <2>1, <2>3 DEF Sound
  <1>7. \A e \in ToSet(u) : e = new \/ (e \in ToSet(s) /\ e.key # app)
    BY <1>1, <1>4, <1>5, Zenon DEF ToSet
  <1>8. new \in ToSet(u)
    BY <1>1, <1>4, <1>5, Zenon DEF ToSet
  <1>9. \A e \in ToSet(s) : e.key # app => e \in ToSet(u)
    BY <1>1, <1>4, <1>5, Zenon DEF ToSet
  <1>10. \A e : e \in ToSet(u) <=> (e \in ToSet(s) /\ e.key # app) \/ e = new
    BY <1>7, <1>8, <1>9
  <1> QED
    BY <1>6, <1>10 DEF u, new

(* What eviction takes.                                                     *)
Evicts(s, app, out) ==
    \/ out = {}
    \/ /\ Len(s) = MaxApps /\ ~Tracked(s, app)
       /\ \E o \in ToSet(s) : out = {o} /\ \A e \in ToSet(s) : o.seen <= e.seen

LEMMA EvictedIs ==
  ASSUME NEW s, Sound(s), NEW app
  PROVE  /\ Sound(EvictIfNeeded(s, app))
         /\ ~Tracked(s, app) => Len(EvictIfNeeded(s, app)) < MaxApps
         /\ \E out : Evicts(s, app, out) /\ ToSet(EvictIfNeeded(s, app)) = ToSet(s) \ out
  <1>1. Len(s) \in Nat /\ DOMAIN s = 1..Len(s) /\ s \in Seq(Entries) /\ MaxApps \in Nat /\ MaxApps > 0
    BY SoundFacts, HistoryAssumption DEF Sound
  <1>2. CASE Tracked(s, app) \/ Len(s) < MaxApps
    <2>1. EvictIfNeeded(s, app) = s
      BY <1>2 DEF EvictIfNeeded
    <2>2. Evicts(s, app, {}) /\ ToSet(s) = ToSet(s) \ {}
      BY DEF Evicts
    <2> QED
      BY <1>2, <2>1, <2>2
  <1>3. CASE ~(Tracked(s, app) \/ Len(s) < MaxApps)
    <2> DEFINE o == Oldest(s)
               r == RemoveAt(s, o)
    <2>1. EvictIfNeeded(s, app) = r
      BY <1>3 DEF EvictIfNeeded
    <2>2. Len(s) = MaxApps /\ s # <<>>
      <3>1. Len(s) <= MaxApps
        BY DEF Sound
      <3>2. ~(Len(s) < MaxApps)
        BY <1>3
      <3>3. Len(s) = MaxApps
        <4>1. Len(s) \in Nat /\ MaxApps \in Nat
          BY <1>1
        <4> QED
          BY <3>1, <3>2, <4>1
      <3> QED
        BY <1>1, <3>3, EmptySeq
    <2>3. o \in 1..Len(s) /\ \A j \in 1..Len(s) : s[o].seen <= s[j].seen
      BY <2>2, OldestIs
    <2> HIDE DEF o
    <2>4. /\ r \in Seq(Entries) /\ Len(r) = Len(s) - 1
          /\ \A i \in 1..Len(s) - 1 : r[i] = IF i < o THEN s[i] ELSE s[i + 1]
      BY <1>1, <2>3, RemovedPlace
    <2>5. ToSet(r) = ToSet(s) \ {s[o]}
      BY <1>1, <2>3, RemovedDistinct, SoundFacts
    <2> HIDE DEF r
    <2>6. Sound(r)
      <3>1. \A i \in 1..Len(r) : Len(r[i].samples) <= MaxSamples
        BY <1>1, <2>4 DEF Sound
      <3>2. \A i, j \in 1..Len(r) : r[i].key = r[j].key => i = j
        <4> SUFFICES ASSUME NEW i \in 1..Len(s) - 1, NEW j \in 1..Len(s) - 1, r[i].key = r[j].key
                     PROVE  i = j
          BY <2>4
        <4>1. \A a, b \in 1..Len(s) : s[a].key = s[b].key => a = b
          BY DEF Sound
        <4>2. i \in 1..Len(s) /\ i + 1 \in 1..Len(s) /\ j \in 1..Len(s) /\ j + 1 \in 1..Len(s)
          BY <1>1
        <4>3. (IF i < o THEN i ELSE i + 1) = (IF j < o THEN j ELSE j + 1)
          BY <2>4, <4>1, <4>2
        <4> QED
          BY <1>1, <2>3, <4>3
      <3>3. Len(r) <= MaxApps
        BY <1>1, <2>2, <2>4
      <3>4. \A i, j \in 1..Len(r) : r[i].key = r[j].key => i = j
        BY <3>2
      <3> QED
        BY <2>4, <3>1, <3>3, <3>4 DEF Sound
    <2>7. Evicts(s, app, {s[o]})
      <3>1. s[o] \in ToSet(s) /\ \A e \in ToSet(s) : s[o].seen <= e.seen
        BY <2>3, SoundFacts
      <3> QED
        BY <1>3, <2>2, <3>1, Zenon DEF Evicts
    <2> QED
      BY <1>1, <2>1, <2>2, <2>4, <2>5, <2>6, <2>7
  <1> QED
    BY <1>2, <1>3

LEMMA PresentIs ==
  ASSUME NEW s, Sound(s), NEW app \in Tracks, NEW at \in Times
  PROVE  /\ Sound(Present(s, app, at)) /\ Tracked(Present(s, app, at), app)
         /\ SamplesOf(Present(s, app, at), app) = Kept(s, app)
         /\ \E out : /\ Evicts(s, app, out)
                     /\ \A e : e.key # app => (e \in ToSet(Present(s, app, at)) <=> e \in ToSet(s) \ out)
  <1>1. CASE Tracked(s, app)
    <2>1. Present(s, app, at) = s /\ Kept(s, app) = SamplesOf(s, app)
      BY <1>1 DEF Present, Kept
    <2>2. Evicts(s, app, {}) /\ \A e : e.key # app => (e \in ToSet(s) <=> e \in ToSet(s) \ {})
      BY DEF Evicts
    <2> QED
      BY <1>1, <2>1, <2>2
  <1>2. CASE ~Tracked(s, app)
    <2> DEFINE v == EvictIfNeeded(s, app)
               new == Entry(app, at, <<>>)
    <2>1. Present(s, app, at) = Append(v, new) /\ Kept(s, app) = <<>>
      BY <1>2 DEF Present, Kept, Entry
    <2>2. PICK out : Evicts(s, app, out) /\ ToSet(v) = ToSet(s) \ out
      BY EvictedIs
    <2>3. Sound(v) /\ Len(v) < MaxApps
      BY <1>2, EvictedIs
    <2>4. <<>> \in Seq(Times) /\ Len(<<>>) = 0
      OBVIOUS
    <2>5. new \in Entries /\ new.key = app /\ new.samples = <<>>
      BY <2>4 DEF Entry, Entries
    <2>6. \A e \in ToSet(v) : e.key # app
      BY <1>2, <2>2, EntryIs
    <2> HIDE DEF v, new
    <2>7. v \in Seq(Entries) /\ Len(v) \in Nat
      BY <2>3, SoundFacts DEF Sound
    <2>8. /\ Append(v, new) \in Seq(Entries) /\ Len(Append(v, new)) = Len(v) + 1
          /\ ToSet(Append(v, new)) = ToSet(v) \cup {new}
      BY <2>5, <2>7, Appended
    <2>9. /\ \A i \in 1..Len(v) : Append(v, new)[i] = v[i]
          /\ Append(v, new)[Len(v) + 1] = new
      BY <2>5, <2>7, AppendProperties
    <2>10. \A i \in 1..Len(v) : v[i] \in ToSet(v)
      BY <2>3, SoundFacts
    <2>11. Sound(Append(v, new))
      <3> DEFINE w == Append(v, new)
      <3>1. \A i \in 1..Len(w) : (i \in 1..Len(v) /\ w[i] = v[i]) \/ (i = Len(v) + 1 /\ w[i] = new)
        <4>1. \A i \in 1..Len(v) + 1 : i \in 1..Len(v) \/ i = Len(v) + 1
          BY <2>7
        <4> QED
          BY <2>8, <2>9, <4>1, Zenon
      <3>2. Len(w) <= MaxApps
        BY <2>3, <2>7, <2>8, HistoryAssumption
      <3>3. \A i \in 1..Len(w) : Len(w[i].samples) <= MaxSamples
        BY <2>3, <2>4, <2>5, <3>1, HistoryAssumption DEF Sound
      <3>4. \A i, j \in 1..Len(w) : w[i].key = w[j].key => i = j
        BY <2>3, <2>5, <2>6, <2>10, <3>1 DEF Sound
      <3> QED
        BY <2>8, <3>2, <3>3, <3>4 DEF Sound
    <2>12. new \in ToSet(Append(v, new))
      BY <2>8
    <2>13. Tracked(Append(v, new), app) /\ SamplesOf(Append(v, new), app) = <<>>
      BY <2>5, <2>11, <2>12, EntryIs
    <2>14. \A e : e.key # app => (e \in ToSet(Append(v, new)) <=> e \in ToSet(s) \ out)
      BY <2>2, <2>5, <2>8
    <2> QED
      BY <2>1, <2>2, <2>11, <2>13, <2>14
  <1> QED
    BY <1>1, <1>2

(* Recording an application: its entry is new, the others are as they were, *)
(* but for the one that was evicted.                                        *)
LEMMA RecordIs ==
  ASSUME NEW s, Sound(s), NEW app \in Tracks, NEW at \in Times
  PROVE  /\ Sound(Record(s, app, at))
         /\ \E out : /\ Evicts(s, app, out)
                     /\ \A e : e \in ToSet(Record(s, app, at)) <=>
                            \/ e \in ToSet(s) \ out /\ e.key # app
                            \/ e = Entry(app, at, Sampled(Kept(s, app), at))
  <1> DEFINE present == Present(s, app, at)
             samples == Sampled(Kept(s, app), at)
  <1>1. /\ Sound(present) /\ Tracked(present, app) /\ SamplesOf(present, app) = Kept(s, app)
    BY PresentIs
  <1>2. PICK out : /\ Evicts(s, app, out)
                   /\ \A e : e.key # app => (e \in ToSet(present) <=> e \in ToSet(s) \ out)
    BY PresentIs
  <1>3. Record(s, app, at) = Updated(present, app, at, samples)
    BY <1>1 DEF Record
  <1>4. Kept(s, app) \in Seq(Times) /\ Len(Kept(s, app)) <= MaxSamples
    <2>1. CASE Tracked(s, app)
      BY <2>1, PositionIs, SoundFacts DEF Kept, SamplesOf, Sound
    <2>2. CASE ~Tracked(s, app)
      BY <2>2, HistoryAssumption DEF Kept
    <2> QED
      BY <2>1, <2>2
  <1>5. samples \in Seq(Times) /\ Len(samples) <= MaxSamples
    BY <1>4, SampledTypes
  <1> HIDE DEF present, samples
  <1>6. /\ Sound(Updated(present, app, at, samples))
        /\ \A e : e \in ToSet(Updated(present, app, at, samples)) <=>
                \/ e \in ToSet(present) /\ e.key # app
                \/ e = Entry(app, at, samples)
    BY <1>1, <1>5, UpdatedIs
  <1>7. \A e : e \in ToSet(Record(s, app, at)) <=>
            \/ e \in ToSet(s) \ out /\ e.key # app
            \/ e = Entry(app, at, samples)
    BY <1>2, <1>3, <1>6
  <1> QED
    BY <1>2, <1>3, <1>6, <1>7 DEF samples

(* The stores between the groups of a snapshot.                             *)
IsChain(batch, g, n) ==
    g = [k \in 0..n |-> IF k = 0 THEN store ELSE Record(g[k - 1], batch[k], moment + k)]

LEMMA ChainExists ==
  ASSUME NEW batch, NEW n \in Nat
  PROVE  \E g : IsChain(batch, g, n)
  <1> DEFINE missing == {m \in Nat : ~ \E g : IsChain(batch, g, m)}
  <1>1. SUFFICES missing = {}
    OBVIOUS
  <1>2. SUFFICES ASSUME missing # {} PROVE FALSE
    OBVIOUS
  <1>3. PICK m \in missing : \A k \in missing : m <= k
    BY <1>2, LeastNumber
  <1>4. m # 0
    <2> DEFINE g == [k \in 0..0 |-> store]
    <2>1. g = [k \in 0..0 |-> IF k = 0 THEN store ELSE Record(g[k - 1], batch[k], moment + k)]
      OBVIOUS
    <2>2. IsChain(batch, g, 0)
      BY <2>1 DEF IsChain
    <2> QED
      BY <2>2
  <1>5. m \in Nat /\ m - 1 \in Nat /\ m - 1 \notin missing
    BY <1>3, <1>4
  <1>6. PICK g : IsChain(batch, g, m - 1)
    BY <1>5
  <1> DEFINE h == [k \in 0..m |-> IF k = m THEN Record(g[m - 1], batch[m], moment + m) ELSE g[k]]
  <1>7. \A k \in 0..m : h[k] = IF k = 0 THEN store ELSE Record(h[k - 1], batch[k], moment + k)
    <2> SUFFICES ASSUME NEW k \in 0..m
                 PROVE  h[k] = IF k = 0 THEN store ELSE Record(h[k - 1], batch[k], moment + k)
      OBVIOUS
    <2>1. CASE k = m
      <3>1. h[k] = Record(g[m - 1], batch[m], moment + m) /\ h[k - 1] = g[m - 1]
        BY <1>4, <1>5, <2>1
      <3> QED
        BY <1>4, <2>1, <3>1
    <2>2. CASE k # m
      <3>1. k \in 0..m - 1 /\ h[k] = g[k] /\ (k # 0 => h[k - 1] = g[k - 1])
        BY <1>5, <2>2
      <3>2. g[k] = IF k = 0 THEN store ELSE Record(g[k - 1], batch[k], moment + k)
        BY <1>6, <3>1 DEF IsChain
      <3> QED
        BY <3>1, <3>2
    <2> QED
      BY <2>1, <2>2
  <1>8. h = [k \in 0..m |-> h[k]]
    OBVIOUS
  <1> HIDE DEF h
  <1>9. IsChain(batch, h, m)
    BY <1>7, <1>8, Zenon DEF IsChain
  <1> QED
    BY <1>3, <1>9

LEMMA RecordedIs ==
  ASSUME NEW batch \in Seq(Tracks)
  PROVE  \E g : /\ g[0] = store /\ RecordAll(batch) = g[Len(batch)]
                /\ \A k \in 1..Len(batch) : g[k] = Record(g[k - 1], batch[k], moment + k)
  <1> DEFINE g == CHOOSE g : IsChain(batch, g, Len(batch))
  <1>1. Len(batch) \in Nat
    BY SeqMembers
  <1>2. IsChain(batch, g, Len(batch))
    <2>1. \E h : IsChain(batch, h, Len(batch))
      BY <1>1, ChainExists
    <2> QED
      BY <2>1, Zenon
  <1>3. RecordAll(batch) = g[Len(batch)]
    BY Zenon DEF RecordAll, IsChain
  <1> HIDE DEF g
  <1>4. \A k \in 0..Len(batch) : g[k] = IF k = 0 THEN store ELSE Record(g[k - 1], batch[k], moment + k)
    BY <1>2 DEF IsChain
  <1>5. /\ g[0] = store
        /\ \A k \in 1..Len(batch) : g[k] = Record(g[k - 1], batch[k], moment + k)
    BY <1>1, <1>4
  <1> QED
    BY <1>3, <1>5

(* A full store in which a group is missing holds an application that is    *)
(* neither one of the groups nor the one on screen, when these fit.         *)
LEMMA OtherIsTracked ==
  ASSUME NEW s, Sound(s), Len(s) = MaxApps,
         NEW batch \in Seq(Tracks), NEW screen, Fits(batch, screen),
         NEW app \in ToSet(batch), ~Tracked(s, app)
  PROVE  \E e \in ToSet(s) : e.key \notin ToSet(batch) /\ e.key # screen
  <1> DEFINE room == ToSet(batch) \cup {screen}
             keys == [i \in 1..Len(s) |-> s[i].key]
  <1> SUFFICES ASSUME \A e \in ToSet(s) : e.key \in room
               PROVE  FALSE
    OBVIOUS
  <1>1. Len(s) \in Nat /\ \A i \in 1..Len(s) : s[i].key \in Tracks /\ s[i] \in ToSet(s)
    BY SoundFacts
  <1>2. keys \in Seq(Tracks) /\ Len(keys) = Len(s) /\ DOMAIN keys = 1..Len(s)
    BY <1>1
  <1>3. IsInjective(keys)
    BY DEF IsInjective, Sound
  <1>4. ToSet(keys) \subseteq room \ {app}
    <2>1. \A x \in ToSet(keys) : \E i \in 1..Len(s) : x = s[i].key
      BY <1>2, Zenon DEF ToSet
    <2>2. \A i \in 1..Len(s) : s[i].key \in room /\ s[i].key # app
      BY <1>1, EntryIs
    <2> QED
      BY <2>1, <2>2
  <1>5. IsFiniteSet(ToSet(keys)) /\ Cardinality(ToSet(keys)) = MaxApps
    BY <1>2, <1>3, DistinctCount
  <1> HIDE DEF keys
  <1>6. IsFiniteSet(ToSet(batch)) /\ Cardinality(ToSet(batch)) <= Len(batch)
    BY MembersCount
  <1>7. /\ IsFiniteSet(room)
        /\ Cardinality(room) = IF screen \in ToSet(batch) THEN Cardinality(ToSet(batch))
                               ELSE Cardinality(ToSet(batch)) + 1
    BY <1>6, FS_AddElement
  <1>8. Cardinality(ToSet(batch)) \in Nat /\ Len(batch) \in Nat /\ MaxApps \in Nat
    BY <1>6, FS_CardinalityType, SeqMembers, HistoryAssumption
  <1>9. Cardinality(room) <= MaxApps
    BY <1>6, <1>7, <1>8 DEF Fits
  <1>10. app \in room
    OBVIOUS
  <1> HIDE DEF room
  <1>11. IsFiniteSet(room \ {app}) /\ Cardinality(room \ {app}) = Cardinality(room) - 1
    BY <1>7, <1>10, FS_RemoveElement
  <1>12. Cardinality(ToSet(keys)) <= Cardinality(room \ {app})
    BY <1>4, <1>11, FS_Subset
  <1>13. Cardinality(room) \in Nat
    BY <1>7, FS_CardinalityType
  <1> QED
    BY <1>5, <1>8, <1>9, <1>11, <1>12, <1>13

(* While the groups are recorded, after the first k of them: what was seen  *)
(* since the snapshot began is one of these, and the rest is as it was.     *)
During(s, batch, k) ==
    /\ Sound(s)
    /\ \A e \in ToSet(s) : e.seen > moment =>
           \E i \in 1..k : e.seen = moment + i /\ e.key = batch[i]
    /\ \A e \in ToSet(s) : e.seen <= moment => e \in ToSet(store)

(* The one on screen had its turn, if it has one, and what it is owed then. *)
HadTurn(batch, k) == shown \in ToSet(batch) /\ ~(k < Turn(batch, shown))

Owed(batch, k) == IF HadTurn(batch, k) THEN Sampled(due, moment + Turn(batch, shown)) ELSE due

(* Its entry stays until its own turn, and after it.                        *)
ShownEntry(s, batch, k) ==
    \A e : e.key = shown =>
        (e \in ToSet(s) <=>
            IF HadTurn(batch, k)
            THEN e = Entry(shown, moment + Turn(batch, shown),
                           Sampled(curve, moment + Turn(batch, shown)))
            ELSE e \in ToSet(store))

LEMMA SeenTypes ==
  ASSUME NEW s, Sound(s), NEW e \in ToSet(s)
  PROVE  e.seen \in Nat /\ e.key \in Tracks /\ e \in Entries
  BY SoundFacts

LEMMA RecordKeeps ==
  ASSUME moment \in Nat, NEW batch \in Seq(Tracks), NEW k \in 1..Len(batch),
         moment + k \in Times, NEW s, During(s, batch, k - 1)
  PROVE  During(Record(s, batch[k], moment + k), batch, k)
  <1> DEFINE r == Record(s, batch[k], moment + k)
  <1>1. batch[k] \in Tracks /\ k \in Nat /\ k > 0
    BY ElementOfSeq, SeqMembers
  <1>2. /\ Sound(r)
        /\ \A e \in ToSet(r) : e \in ToSet(s) \/ e = Entry(batch[k], moment + k, Sampled(Kept(s, batch[k]), moment + k))
    BY <1>1, RecordIs DEF During
  <1> HIDE DEF r
  <1>3. ASSUME NEW e \in ToSet(r)
        PROVE  /\ e.seen > moment => \E i \in 1..k : e.seen = moment + i /\ e.key = batch[i]
               /\ e.seen <= moment => e \in ToSet(store)
    <2>1. CASE e \in ToSet(s)
      <3>1. 1..k - 1 \subseteq 1..k
        BY <1>1
      <3> QED
        BY <2>1, <3>1 DEF During
    <2>2. CASE e = Entry(batch[k], moment + k, Sampled(Kept(s, batch[k]), moment + k))
      <3>1. e.seen = moment + k /\ e.key = batch[k]
        BY <2>2 DEF Entry
      <3>2. k \in 1..k /\ ~(moment + k <= moment)
        BY <1>1
      <3> QED
        BY <3>1, <3>2
    <2> QED
      BY <1>2, <2>1, <2>2
  <1>4. During(r, batch, k)
    BY <1>2, <1>3 DEF During
  <1> QED
    BY <1>4 DEF r

LEMMA TurnIs ==
  ASSUME NEW batch \in Seq(Tracks), IsInjective(batch), NEW app \in ToSet(batch)
  PROVE  /\ Turn(batch, app) \in 1..Len(batch) /\ batch[Turn(batch, app)] = app
         /\ \A i \in 1..Len(batch) : batch[i] = app => i = Turn(batch, app)
  <1>1. DOMAIN batch = 1..Len(batch)
    BY SeqMembers
  <1>2. \E i \in DOMAIN batch : batch[i] = app
    BY Zenon DEF ToSet
  <1>3. Turn(batch, app) \in DOMAIN batch /\ batch[Turn(batch, app)] = app
    BY <1>2, Zenon DEF Turn
  <1> QED
    BY <1>1, <1>3 DEF IsInjective

LEMMA StoreIsSound == ASSUME HistoryInv PROVE Sound(store)
  <1>1. DOMAIN store = 1..Len(store)
    BY LenProperties DEF HistoryInv, HistoryTypeOK
  <1> QED
    BY <1>1 DEF HistoryInv, HistoryTypeOK, MemoryBounded, Sound

(* The one on screen was seen after all others.                             *)
LEMMA ShownIsLast ==
  ASSUME HistoryInv, shown \in Tracks,
         NEW e \in ToSet(store), e.key = shown, NEW f \in ToSet(store), f.key # shown
  PROVE  f.seen < e.seen
  <1>1. Sound(store)
    BY StoreIsSound
  <1>2. Tracked(store, shown) /\ store[Position(store, shown)] = e
    BY <1>1, EntryIs
  <1>3. PICK i \in DOMAIN store : store[i] = f
    BY Zenon DEF ToSet
  <1> QED
    BY <1>2, <1>3 DEF HistoryInv, SeenLastInv

LEMMA TurnStep ==
  ASSUME NEW batch \in Seq(Tracks), IsInjective(batch), NEW k \in 1..Len(batch)
  PROVE  /\ batch[k] = shown => /\ shown \in ToSet(batch) /\ Turn(batch, shown) = k
                               /\ ~HadTurn(batch, k - 1) /\ HadTurn(batch, k)
         /\ batch[k] # shown => (HadTurn(batch, k) <=> HadTurn(batch, k - 1))
  <1>1. Len(batch) \in Nat /\ DOMAIN batch = 1..Len(batch) /\ k \in Nat
    BY SeqMembers
  <1>2. batch[k] = shown => shown \in ToSet(batch)
    BY <1>1 DEF ToSet
  <1>3. CASE shown \in ToSet(batch)
    <2>1. /\ Turn(batch, shown) \in 1..Len(batch) /\ batch[Turn(batch, shown)] = shown
          /\ batch[k] = shown => k = Turn(batch, shown)
      BY <1>3, TurnIs
    <2> QED
      BY <1>1, <1>3, <2>1 DEF HadTurn
  <1>4. CASE shown \notin ToSet(batch)
    BY <1>2, <1>4 DEF HadTurn
  <1> QED
    BY <1>3, <1>4

(* Two stores with the same entry of an application hold the same of it.    *)
LEMMA SameKept ==
  ASSUME NEW s, Sound(s), NEW r, Sound(r), NEW app,
         \A e : e.key = app => (e \in ToSet(s) <=> e \in ToSet(r))
  PROVE  Kept(s, app) = Kept(r, app)
  <1>1. Tracked(s, app) <=> Tracked(r, app)
    BY EntryIs
  <1>2. CASE Tracked(r, app)
    <2>1. PICK e \in ToSet(r) : e.key = app
      BY <1>2, EntryIs
    <2>2. Kept(s, app) = e.samples /\ Kept(r, app) = e.samples
      BY <2>1, EntryIs
    <2> QED
      BY <2>2
  <1>3. CASE ~Tracked(r, app)
    BY <1>1, <1>3 DEF Kept
  <1> QED
    BY <1>2, <1>3

LEMMA ScreenKeeps ==
  ASSUME HistoryInv, NEW batch \in Seq(Tracks), IsInjective(batch), shown \in Tracks, Fits(batch, shown),
         NEW k \in 1..Len(batch), moment + k \in Times,
         NEW s, During(s, batch, k - 1), ShownEntry(s, batch, k - 1)
  PROVE  ShownEntry(Record(s, batch[k], moment + k), batch, k)
  <1> DEFINE x == batch[k]
             r == Record(s, x, moment + k)
             new == Entry(x, moment + k, Sampled(Kept(s, x), moment + k))
  <1>1. /\ Len(batch) \in Nat /\ k \in Nat /\ k > 0 /\ x \in Tracks /\ x \in ToSet(batch)
        /\ moment \in Nat
    <2>1. Len(batch) \in Nat /\ DOMAIN batch = 1..Len(batch) /\ ToSet(batch) \subseteq Tracks
      BY SeqMembers
    <2>2. moment \in Nat
      BY HistoryAssumption DEF HistoryInv, HistoryTypeOK, Times
    <2>3. x \in ToSet(batch)
      BY <2>1 DEF ToSet
    <2> QED
      BY <2>1, <2>2, <2>3
  <1>2. Sound(s)
    BY DEF During
  <1>3. PICK out : /\ Evicts(s, x, out)
                   /\ \A e : e \in ToSet(r) <=> (e \in ToSet(s) \ out /\ e.key # x) \/ e = new
    BY <1>1, <1>2, RecordIs
  <1>4. new.key = x
    BY DEF Entry
  <1>5. CASE x = shown
    <2>1. Turn(batch, shown) = k /\ ~HadTurn(batch, k - 1) /\ HadTurn(batch, k)
      BY <1>5, TurnStep
    <2>2. Sound(store) /\ Kept(store, shown) = curve
      BY StoreIsSound DEF HistoryInv, SeenLastInv
    <2>3. Kept(s, shown) = curve
      <3>1. \A e : e.key = shown => (e \in ToSet(s) <=> e \in ToSet(store))
        BY <2>1 DEF ShownEntry
      <3> QED
        BY <1>2, <2>2, <3>1, SameKept
    <2>4. new = Entry(shown, moment + k, Sampled(curve, moment + k))
      BY <1>5, <2>3
    <2> HIDE DEF new, r, x
    <2>5. \A e : e.key = shown => (e \in ToSet(r) <=> e = new)
      BY <1>3, <1>5
    <2>6. ShownEntry(r, batch, k)
      BY <2>1, <2>4, <2>5 DEF ShownEntry
    <2> QED
      BY <2>6 DEF r, x
  <1>6. CASE x # shown
    <2>1. HadTurn(batch, k) <=> HadTurn(batch, k - 1)
      BY <1>6, TurnStep
    <2>2. ASSUME NEW e \in ToSet(s), e.key = shown
          PROVE  e \notin out
      <3>1. SUFFICES ASSUME e \in out PROVE FALSE
        OBVIOUS
      <3>2. /\ Len(s) = MaxApps /\ ~Tracked(s, x)
            /\ \A f \in ToSet(s) : e.seen <= f.seen
        BY <1>3, <3>1 DEF Evicts
      <3>3. PICK f \in ToSet(s) : f.key \notin ToSet(batch) /\ f.key # shown
        BY <1>1, <1>2, <3>2, OtherIsTracked
      <3>4. f.seen \in Nat /\ e.seen \in Nat /\ e.seen <= f.seen
        BY <1>2, <3>2, SeenTypes
      <3>5. f.seen <= moment /\ f \in ToSet(store)
        <4>1. \A i \in 1..k - 1 : batch[i] \in ToSet(batch)
          <5>1. DOMAIN batch = 1..Len(batch)
            BY SeqMembers
          <5>2. 1..k - 1 \subseteq 1..Len(batch)
            BY <1>1
          <5> QED
            BY <5>1, <5>2 DEF ToSet
        <4>2. ~(f.seen > moment)
          BY <3>3, <4>1 DEF During
        <4>3. f.seen <= moment
          BY <1>1, <3>4, <4>2
        <4> QED
          BY <4>3 DEF During
      <3>6. CASE ~HadTurn(batch, k - 1)
        <4>1. e \in ToSet(store)
          BY <2>2, <3>6 DEF ShownEntry
        <4>2. f.seen < e.seen
          BY <2>2, <3>3, <3>5, <4>1, ShownIsLast
        <4> QED
          BY <3>4, <4>2
      <3>7. CASE HadTurn(batch, k - 1)
        <4> DEFINE m == Turn(batch, shown)
        <4>1. e = Entry(shown, moment + m, Sampled(curve, moment + m))
          BY <2>2, <3>7 DEF ShownEntry
        <4>2. e.seen = moment + m
          BY <4>1 DEF Entry
        <4>3. m \in 1..Len(batch)
          BY <3>7, TurnIs DEF HadTurn
        <4> HIDE DEF m
        <4> QED
          BY <1>1, <3>4, <3>5, <4>2, <4>3
      <3> QED
        BY <3>6, <3>7
    <2> HIDE DEF new, r, x
    <2>3. \A e : e.key = shown => (e \in ToSet(r) <=> e \in ToSet(s))
      BY <1>3, <1>4, <1>6, <2>2
    <2>4. ShownEntry(r, batch, k)
      BY <2>1, <2>3 DEF ShownEntry
    <2> QED
      BY <2>4 DEF r, x
  <1> QED
    BY <1>5, <1>6

(* Whatever is evicted, what is held of it is the end of what it is owed.   *)
LEMMA EndKeeps ==
  ASSUME HistoryInv, NEW batch \in Seq(Tracks), IsInjective(batch), shown \in Tracks,
         NEW k \in 1..Len(batch), moment + k \in Times,
         NEW s, Sound(s), EndsWith(Owed(batch, k - 1), Kept(s, shown))
  PROVE  EndsWith(Owed(batch, k), Kept(Record(s, batch[k], moment + k), shown))
  <1> DEFINE x == batch[k]
             r == Record(s, x, moment + k)
             new == Entry(x, moment + k, Sampled(Kept(s, x), moment + k))
  <1>1. /\ x \in Tracks /\ k \in Nat /\ moment \in Nat /\ Times \subseteq Nat
        /\ due \in Seq(Times) /\ \A i \in DOMAIN due : due[i] <= moment
    BY ElementOfSeq, HistoryAssumption DEF HistoryInv, HistoryTypeOK, SeenLastInv, Times
  <1>2. Sound(r)
    BY <1>1, RecordIs
  <1>3. PICK out : /\ Evicts(s, x, out)
                   /\ \A e : e \in ToSet(r) <=> (e \in ToSet(s) \ out /\ e.key # x) \/ e = new
    BY <1>1, RecordIs
  <1>4. new.key = x /\ new.samples = Sampled(Kept(s, x), moment + k)
    BY DEF Entry
  <1>5. Kept(s, shown) \in Seq(Times)
    <2>1. CASE Tracked(s, shown)
      BY <2>1, PositionIs, SoundFacts DEF Kept, SamplesOf
    <2>2. CASE ~Tracked(s, shown)
      BY <2>2 DEF Kept
    <2> QED
      BY <2>1, <2>2
  <1>6. \A i \in DOMAIN due : due[i] <= moment + k
    <2>1. \A i \in DOMAIN due : due[i] \in Nat
      BY <1>1, ElementOfSeq, LenProperties
    <2> QED
      BY <1>1, <2>1
  <1> HIDE DEF new, r
  <1>7. CASE x = shown
    <2>1. Turn(batch, shown) = k /\ ~HadTurn(batch, k - 1) /\ HadTurn(batch, k)
      BY <1>7, TurnStep
    <2>2. Owed(batch, k - 1) = due /\ Owed(batch, k) = Sampled(due, moment + k)
      BY <2>1 DEF Owed
    <2>3. EndsWith(Sampled(due, moment + k), Sampled(Kept(s, shown), moment + k))
      BY <1>1, <1>5, <1>6, <2>2, SampledEnds
    <2>4. new \in ToSet(r)
      BY <1>3
    <2>5. Kept(r, shown) = new.samples
      BY <1>2, <1>4, <1>7, <2>4, EntryIs
    <2> QED
      BY <1>4, <1>7, <2>2, <2>3, <2>5 DEF r
  <1>8. CASE x # shown
    <2>1. Owed(batch, k) = Owed(batch, k - 1)
      BY <1>8, TurnStep DEF Owed
    <2>2. \A e : e.key = shown => (e \in ToSet(r) <=> e \in ToSet(s) \ out)
      BY <1>3, <1>4, <1>8
    <2>3. CASE Tracked(r, shown)
      <3>1. PICK e \in ToSet(r) : e.key = shown
        BY <1>2, <2>3, EntryIs
      <3>2. Kept(r, shown) = e.samples /\ Kept(s, shown) = e.samples
        BY <1>2, <2>2, <3>1, EntryIs
      <3> QED
        BY <2>1, <3>2 DEF r
    <2>4. CASE ~Tracked(r, shown)
      <3>1. Kept(r, shown) = <<>>
        BY <2>4 DEF Kept
      <3>2. Owed(batch, k) \in Seq(Times)
        <4>1. CASE HadTurn(batch, k - 1)
          <5>1. Turn(batch, shown) \in 1..Len(batch) /\ ~(k - 1 < Turn(batch, shown))
            BY <4>1, TurnIs DEF HadTurn
          <5>2. moment + k <= HistoryTime /\ HistoryTime \in Nat
            BY HistoryAssumption DEF Times
          <5>3. moment + Turn(batch, shown) \in Times
            BY <1>1, <5>1, <5>2 DEF Times
          <5> QED
            BY <1>1, <2>1, <4>1, <5>3, SampledTypes DEF Owed
        <4>2. CASE ~HadTurn(batch, k - 1)
          BY <1>1, <2>1, <4>2 DEF Owed
        <4> QED
          BY <4>1, <4>2
      <3> QED
        BY <3>1, <3>2, Ends DEF r
    <2> QED
      BY <2>3, <2>4
  <1> QED
    BY <1>7, <1>8

(* Nothing was sampled later than it is now.                                *)
Timely(s, at) == \A e \in ToSet(s) : \A j \in DOMAIN e.samples : e.samples[j] <= at

LEMMA TimelyKeeps ==
  ASSUME NEW s, Sound(s), NEW app \in Tracks, NEW before \in Nat, NEW at \in Times, before <= at,
         Timely(s, before)
  PROVE  Timely(Record(s, app, at), at)
  <1> DEFINE new == Entry(app, at, Sampled(Kept(s, app), at))
  <1>1. \A e \in ToSet(Record(s, app, at)) : e \in ToSet(s) \/ e = new
    BY RecordIs
  <1>2. new.samples = Sampled(Kept(s, app), at)
    BY DEF Entry
  <1>3. at \in Nat
    BY HistoryAssumption DEF Times
  <1>4. ASSUME NEW e \in ToSet(s), NEW j \in DOMAIN e.samples PROVE e.samples[j] <= at
    <2>1. e.samples \in Seq(Times)
      BY SoundFacts
    <2>2. e.samples[j] \in Nat
      BY <2>1, ElementOfSeq, LenProperties, HistoryAssumption DEF Times
    <2>3. e.samples[j] <= before
      BY DEF Timely
    <2> QED
      BY <1>3, <2>2, <2>3
  <1>5. Kept(s, app) \in Seq(Times) /\ \A j \in DOMAIN Kept(s, app) : Kept(s, app)[j] <= at
    <2>1. CASE Tracked(s, app)
      <3>1. PICK e \in ToSet(s) : e.key = app
        BY <2>1, EntryIs
      <3>2. Kept(s, app) = e.samples /\ e.samples \in Seq(Times)
        BY <3>1, EntryIs, SoundFacts
      <3> QED
        BY <1>4, <3>2
    <2>2. CASE ~Tracked(s, app)
      BY <2>2 DEF Kept
    <2> QED
      BY <2>1, <2>2
  <1>6. \A j \in DOMAIN new.samples : new.samples[j] <= at
    BY <1>2, <1>5, SampledAtMost
  <1> HIDE DEF new
  <1> QED
    BY <1>1, <1>4, <1>6 DEF Timely

LEMMA AllRecorded ==
  ASSUME HistoryInv, NEW batch \in Seq(Tracks), IsInjective(batch), moment + Len(batch) \in Times
  PROVE  /\ During(RecordAll(batch), batch, Len(batch))
         /\ Timely(RecordAll(batch), moment + Len(batch))
         /\ shown \in Tracks =>
                /\ EndsWith(Owed(batch, Len(batch)), Kept(RecordAll(batch), shown))
                /\ Fits(batch, shown) => ShownEntry(RecordAll(batch), batch, Len(batch))
  <1> DEFINE n == Len(batch)
  <1>1. PICK g : /\ g[0] = store /\ RecordAll(batch) = g[n]
                 /\ \A k \in 1..n : g[k] = Record(g[k - 1], batch[k], moment + k)
    BY RecordedIs
  <1> DEFINE Good(k) == /\ During(g[k], batch, k)
                        /\ Timely(g[k], moment + k)
                        /\ shown \in Tracks => /\ EndsWith(Owed(batch, k), Kept(g[k], shown))
                                               /\ Fits(batch, shown) => ShownEntry(g[k], batch, k)
             bad == {k \in 0..n : ~Good(k)}
  <1>2. /\ n \in Nat /\ moment \in Nat /\ ToSet(batch) \subseteq Tracks
        /\ \A k \in 1..n : moment + k \in Times
    <2>1. n \in Nat /\ ToSet(batch) \subseteq Tracks
      BY SeqMembers
    <2>2. moment \in Nat /\ HistoryTime \in Nat /\ moment + n <= HistoryTime
      BY HistoryAssumption DEF HistoryInv, HistoryTypeOK, Times
    <2> QED
      BY <2>1, <2>2 DEF Times
  <1>3. Good(0)
    <2>1. During(store, batch, 0)
      <3>1. \A e \in ToSet(store) : e.seen <= moment /\ e.seen \in Nat
        <4>1. \A e \in ToSet(store) : \E i \in DOMAIN store : store[i] = e
          BY Zenon DEF ToSet
        <4>2. \A i \in DOMAIN store : store[i].seen <= moment
          BY DEF HistoryInv, SeenLastInv
        <4> QED
          BY <4>1, <4>2, StoreIsSound, SeenTypes
      <3>2. \A e \in ToSet(store) : ~(e.seen > moment)
        BY <1>2, <3>1
      <3> QED
        BY <3>2, StoreIsSound DEF During
    <2>2. ~HadTurn(batch, 0)
      <3>1. ASSUME shown \in ToSet(batch) PROVE 0 < Turn(batch, shown)
        <4>1. Turn(batch, shown) \in 1..n
          BY <3>1, TurnIs
        <4> QED
          BY <1>2, <4>1
      <3> QED
        BY <3>1 DEF HadTurn
    <2>3. ShownEntry(store, batch, 0)
      BY <2>2 DEF ShownEntry
    <2>4. shown \in Tracks => EndsWith(Owed(batch, 0), Kept(store, shown))
      BY <2>2 DEF Owed, HistoryInv, ShownHistoryComplete, SeenLastInv
    <2>5. Timely(store, moment + 0)
      <3>1. \A e \in ToSet(store) : \E i \in DOMAIN store : store[i] = e
        BY Zenon DEF ToSet
      <3>2. \A e \in ToSet(store) : \A j \in DOMAIN e.samples : e.samples[j] <= moment
        BY <3>1 DEF HistoryInv, SeenLastInv
      <3>3. moment + 0 = moment
        BY <1>2
      <3> QED
        BY <3>2, <3>3 DEF Timely
    <2> QED
      BY <1>1, <2>1, <2>3, <2>4, <2>5
  <1>4. ASSUME NEW k \in 1..n, Good(k - 1) PROVE Good(k)
    <2>1. g[k] = Record(g[k - 1], batch[k], moment + k) /\ moment + k \in Times
      BY <1>1, <1>2
    <2>2. During(g[k], batch, k)
      BY <1>2, <1>4, <2>1, RecordKeeps
    <2>3. ASSUME shown \in Tracks, Fits(batch, shown) PROVE ShownEntry(g[k], batch, k)
      BY <1>4, <2>1, <2>3, ScreenKeeps
    <2>4. ASSUME shown \in Tracks PROVE EndsWith(Owed(batch, k), Kept(g[k], shown))
      BY <1>4, <2>1, <2>4, EndKeeps DEF During
    <2>5. Timely(g[k], moment + k)
      <3>1. /\ moment + (k - 1) \in Nat /\ moment + (k - 1) <= moment + k
            /\ batch[k] \in Tracks /\ Sound(g[k - 1]) /\ Timely(g[k - 1], moment + (k - 1))
        BY <1>2, <1>4, ElementOfSeq DEF During
      <3> QED
        BY <2>1, <3>1, TimelyKeeps
    <2> QED
      BY <2>2, <2>3, <2>4, <2>5
  <1> HIDE DEF Good
  <1>5. bad = {}
    <2>1. SUFFICES ASSUME bad # {} PROVE FALSE
      OBVIOUS
    <2>2. bad \subseteq Nat
      BY <1>2
    <2>3. PICK k \in bad : \A j \in bad : k <= j
      BY <2>1, <2>2, LeastNumber
    <2>4. k \in 0..n /\ k # 0
      BY <1>3, <2>3
    <2>5. k \in 1..n /\ k - 1 \in 0..n /\ ~(k <= k - 1)
      BY <1>2, <2>4
    <2>6. Good(k - 1)
      BY <2>3, <2>5
    <2> QED
      BY <1>4, <2>3, <2>5, <2>6
  <1>6. Good(n)
    BY <1>2, <1>5
  <1> QED
    BY <1>1, <1>6 DEF Good

(* What the groups of a snapshot leave of the one on screen.                *)
LEMMA ShownRecorded ==
  ASSUME HistoryInv, NEW batch \in Seq(Tracks), IsInjective(batch), moment + Len(batch) \in Times
  PROVE  /\ Sound(RecordAll(batch))
         /\ \A e \in ToSet(RecordAll(batch)) : e.seen \in Nat /\ e.seen <= moment + Len(batch)
         /\ Timely(RecordAll(batch), moment + Len(batch))
         /\ Owed(batch, Len(batch)) =
                IF shown \in ToSet(batch) THEN Sampled(due, moment + Turn(batch, shown)) ELSE due
         /\ Owed(batch, Len(batch)) \in Seq(Times)
         /\ \A i \in DOMAIN Owed(batch, Len(batch)) : Owed(batch, Len(batch))[i] <= moment + Len(batch)
         /\ shown \in Tracks => EndsWith(Owed(batch, Len(batch)), Kept(RecordAll(batch), shown))
         /\ shown \in Tracks /\ ~crowded /\ Fits(batch, shown) =>
                Kept(RecordAll(batch), shown) = Owed(batch, Len(batch))
  <1> DEFINE n == Len(batch)
             r == RecordAll(batch)
             m == Turn(batch, shown)
  <1>1. /\ During(r, batch, n) /\ Timely(r, moment + n)
        /\ shown \in Tracks => /\ EndsWith(Owed(batch, n), Kept(r, shown))
                               /\ Fits(batch, shown) => ShownEntry(r, batch, n)
    BY AllRecorded
  <1>2. /\ n \in Nat /\ moment \in Nat /\ HistoryTime \in Nat /\ moment + n <= HistoryTime /\ Times \subseteq Nat
        /\ due \in Seq(Times) /\ Len(due) \in Nat /\ DOMAIN due = 1..Len(due)
        /\ \A i \in 1..Len(due) : due[i] \in Nat /\ due[i] <= moment
    BY SeqMembers, ElementOfSeq, HistoryAssumption DEF HistoryInv, HistoryTypeOK, SeenLastInv, Times
  <1>3. Sound(r)
    BY <1>1 DEF During
  <1>4. ASSUME NEW e \in ToSet(r) PROVE e.seen \in Nat /\ e.seen <= moment + n
    <2>1. e.seen \in Nat
      BY <1>3, SeenTypes
    <2>2. CASE e.seen > moment
      <3>1. PICK i \in 1..n : e.seen = moment + i
        BY <1>1, <2>2 DEF During
      <3> QED
        BY <1>2, <2>1, <3>1
    <2>3. CASE ~(e.seen > moment)
      BY <1>2, <2>1, <2>3
    <2> QED
      BY <2>2, <2>3
  <1>5. shown \in ToSet(batch) => m \in 1..n /\ m \in Nat /\ moment + m \in Times /\ HadTurn(batch, n)
    <2>1. ASSUME shown \in ToSet(batch) PROVE m \in 1..n
      BY <2>1, TurnIs
    <2> HIDE DEF m
    <2>2. ASSUME m \in 1..n PROVE m \in Nat /\ moment + m \in Times /\ ~(n < m)
      BY <1>2, <2>2 DEF Times
    <2> QED
      BY <2>1, <2>2 DEF HadTurn, m
  <1>6. Owed(batch, n) = IF shown \in ToSet(batch) THEN Sampled(due, moment + m) ELSE due
    BY <1>5 DEF Owed, HadTurn
  <1>7. /\ Owed(batch, n) \in Seq(Times)
        /\ \A i \in DOMAIN Owed(batch, n) : Owed(batch, n)[i] <= moment + n
    <2>1. CASE shown \in ToSet(batch)
      <3>1. \A i \in DOMAIN due : due[i] <= moment + m
        BY <1>2, <1>5, <2>1
      <3>2. Sampled(due, moment + m) \in Seq(Times)
        BY <1>2, <1>5, <2>1, SampledTypes
      <3>3. \A i \in DOMAIN Sampled(due, moment + m) : Sampled(due, moment + m)[i] <= moment + m
        BY <1>2, <1>5, <2>1, <3>1, SampledAtMost
      <3> DEFINE v == Sampled(due, moment + m)
      <3>4. \A i \in DOMAIN v : v[i] \in Nat
        BY <1>2, <3>2, ElementOfSeq, LenProperties
      <3>5. moment + m <= moment + n /\ moment + m \in Nat
        BY <1>2, <1>5, <2>1
      <3> HIDE DEF v, m
      <3>6. \A i \in DOMAIN v : v[i] <= moment + n
        BY <1>2, <3>3, <3>4, <3>5 DEF v
      <3> QED
        BY <1>6, <2>1, <3>2, <3>6 DEF v, m
    <2>2. CASE shown \notin ToSet(batch)
      <3>1. Owed(batch, n) = due
        BY <1>6, <2>2
      <3>2. \A i \in DOMAIN due : due[i] <= moment + n
        BY <1>2
      <3> QED
        BY <1>2, <3>1, <3>2
    <2> QED
      BY <2>1, <2>2
  <1>8. ASSUME shown \in Tracks, ~crowded, Fits(batch, shown)
        PROVE  Kept(r, shown) = Owed(batch, n)
    <2>1. ShownEntry(r, batch, n) /\ curve = due /\ Sound(store) /\ Kept(store, shown) = curve
      BY <1>1, <1>8, StoreIsSound DEF HistoryInv, ShownHistoryComplete, SeenLastInv
    <2>2. CASE HadTurn(batch, n)
      <3> DEFINE e == Entry(shown, moment + m, Sampled(curve, moment + m))
      <3>1. e.key = shown /\ e.samples = Sampled(curve, moment + m)
        BY DEF Entry
      <3>2. e \in ToSet(r)
        BY <2>1, <2>2, <3>1 DEF ShownEntry
      <3>3. Kept(r, shown) = Sampled(curve, moment + m)
        BY <1>3, <3>1, <3>2, EntryIs
      <3> QED
        BY <2>1, <2>2, <3>3 DEF Owed
    <2>3. CASE ~HadTurn(batch, n)
      <3>1. \A e : e.key = shown => (e \in ToSet(r) <=> e \in ToSet(store))
        BY <2>1, <2>3 DEF ShownEntry
      <3>2. Kept(r, shown) = Kept(store, shown)
        BY <1>3, <2>1, <3>1, SameKept
      <3> QED
        BY <2>1, <2>3, <3>2 DEF Owed
    <2> QED
      BY <2>2, <2>3
  <1> QED
    BY <1>1, <1>3, <1>4, <1>6, <1>7, <1>8

LEMMA HistoryStarts == HistoryInit => HistoryInv
  <1> SUFFICES ASSUME HistoryInit PROVE HistoryInv
    OBVIOUS
  <1>1. /\ store = <<>> /\ moment = 0 /\ shown = Nobody /\ curve = <<>> /\ due = <<>> /\ crowded = FALSE
        /\ DOMAIN store = {} /\ DOMAIN due = {}
    BY DEF HistoryInit
  <1>2. HistoryTypeOK
    <2>1. 0 \in Times /\ <<>> \in Seq(Times) /\ <<>> \in Seq(Entries)
      BY HistoryAssumption DEF Times
    <2> QED
      BY <1>1, <2>1 DEF HistoryTypeOK
  <1>3. MemoryBounded
    BY <1>1, HistoryAssumption DEF MemoryBounded
  <1>4. ShownHistoryComplete /\ SeenLastInv
    BY <1>1, HistoryAssumption DEF ShownHistoryComplete, SeenLastInv
  <1> QED
    BY <1>2, <1>3, <1>4 DEF HistoryInv

LEMMA TickKeepsHistory == ASSUME HistoryInv, HistoryTick PROVE HistoryInv'
  <1>1. /\ store' = store /\ shown' = shown /\ curve' = curve /\ due' = due /\ crowded' = crowded
        /\ moment' \in Times /\ moment \in Nat /\ moment' = moment + 1
    BY HistoryAssumption DEF HistoryTick, HistoryInv, HistoryTypeOK, Times
  <1>2. HistoryTypeOK' /\ MemoryBounded' /\ ShownHistoryComplete'
    BY <1>1 DEF HistoryInv, HistoryTypeOK, MemoryBounded, ShownHistoryComplete
  <1>3. /\ \A i \in DOMAIN store : store[i].seen <= moment'
        /\ \A i \in DOMAIN due : due[i] <= moment'
        /\ \A i \in DOMAIN store : \A j \in DOMAIN store[i].samples : store[i].samples[j] <= moment'
    <2>1. \A i \in DOMAIN store : store[i].seen \in Nat /\ store[i].seen <= moment
      BY StoreIsSound, SoundFacts DEF HistoryInv, SeenLastInv
    <2>2. \A i \in DOMAIN due : due[i] \in Nat /\ due[i] <= moment
      <3>1. due \in Seq(Times) /\ Times \subseteq Nat
        BY HistoryAssumption DEF HistoryInv, HistoryTypeOK, Times
      <3>2. \A i \in DOMAIN due : due[i] \in Times
        BY <3>1, ElementOfSeq, LenProperties
      <3> QED
        BY <3>1, <3>2 DEF HistoryInv, SeenLastInv
    <2>3. ASSUME NEW i \in DOMAIN store, NEW j \in DOMAIN store[i].samples
          PROVE  store[i].samples[j] <= moment'
      <3>1. store[i].samples \in Seq(Times) /\ Times \subseteq Nat
        BY StoreIsSound, SoundFacts, HistoryAssumption DEF Times
      <3>2. store[i].samples[j] \in Nat
        BY <3>1, ElementOfSeq, LenProperties
      <3>3. store[i].samples[j] <= moment
        BY DEF HistoryInv, SeenLastInv
      <3> QED
        BY <1>1, <3>2, <3>3
    <2> QED
      BY <1>1, <2>1, <2>2, <2>3
  <1>4. SeenLastInv'
    BY <1>1, <1>3 DEF HistoryInv, SeenLastInv, Kept, Tracked, Position, SamplesOf
  <1> QED
    BY <1>2, <1>4 DEF HistoryInv

(* What a card reads, of a store with what the groups left: it is what is   *)
(* held and not too old, and its application is then the one seen last.     *)
LEMMA CardReads ==
  ASSUME NEW r, Sound(r), NEW at \in Times, \A e \in ToSet(r) : e.seen \in Nat /\ e.seen < at, Timely(r, at),
         NEW app \in Tracks \cup {Nobody}, NEW owed \in Seq(Times), \A i \in DOMAIN owed : owed[i] <= at,
         moment' = at, Reads(r, app, at, owed), crowded' \in BOOLEAN,
         app = shown /\ app \in Tracks =>
             EndsWith(owed, Kept(r, app)) /\ (~crowded' => Kept(r, app) = owed)
  PROVE  HistoryInv'
  <1> DEFINE held == app \in Tracks /\ Tracked(r, app)
             samples == Fresh(SamplesOf(r, app), at)
             seen == Entry(app, at, samples)
  <1>1. /\ shown' = app
        /\ store' = IF held THEN GetSeries(r, app, at) ELSE r
        /\ curve' = IF held THEN SamplesOf(store', app) ELSE <<>>
        /\ due' = IF app = shown /\ app \in Tracks THEN Fresh(owed, at) ELSE curve'
    BY Zenon DEF Reads
  <1>2. at \in Nat /\ Times \subseteq Nat /\ Nobody \notin Tracks
    BY HistoryAssumption DEF Times
  <1> HIDE DEF held
  <1>3. ASSUME held
        PROVE  /\ app \in Tracks /\ Tracked(r, app)
               /\ samples \in Seq(Times) /\ Len(samples) <= MaxSamples
               /\ \A i \in DOMAIN samples : samples[i] <= at
               /\ Sound(store')
               /\ \A e : e \in ToSet(store') <=> (e \in ToSet(r) /\ e.key # app) \/ e = seen
    <2>1. app \in Tracks /\ Tracked(r, app)
      BY <1>3 DEF held
    <2>2. SamplesOf(r, app) \in Seq(Times) /\ Len(SamplesOf(r, app)) <= MaxSamples
      BY <2>1, PositionIs, SoundFacts DEF SamplesOf, Sound
    <2>3. samples \in Seq(Times) /\ Len(samples) <= Len(SamplesOf(r, app))
      BY <1>2, <2>2, FreshTypes
    <2>4. Len(samples) \in Nat /\ Len(SamplesOf(r, app)) \in Nat /\ MaxSamples \in Nat
      BY <2>2, <2>3, LenProperties, HistoryAssumption
    <2>5. samples \in Seq(Times) /\ Len(samples) <= MaxSamples
      BY <2>2, <2>3, <2>4
    <2>8. \A i \in DOMAIN samples : samples[i] <= at
      <3>1. PICK e \in ToSet(r) : e.key = app /\ SamplesOf(r, app) = e.samples
        BY <2>1, EntryIs
      <3>2. \A i \in DOMAIN SamplesOf(r, app) : SamplesOf(r, app)[i] <= at
        BY <3>1 DEF Timely
      <3> QED
        BY <1>2, <2>2, <3>2, FreshTypes
    <2>6. store' = Updated(r, app, at, samples)
      BY <1>1, <1>3 DEF GetSeries
    <2> HIDE DEF samples
    <2>7. /\ Sound(store')
          /\ \A e : e \in ToSet(store') <=> (e \in ToSet(r) /\ e.key # app) \/ e = seen
      BY <2>1, <2>5, <2>6, UpdatedIs
    <2> QED
      BY <2>1, <2>5, <2>7, <2>8 DEF samples
  <1>4. app \in Tracks /\ ~held => Kept(r, app) = <<>> /\ store' = r /\ curve' = <<>>
    BY <1>1 DEF held, Kept
  <1>5. held => Kept(r, app) = SamplesOf(r, app)
    BY DEF held, Kept
  <1> HIDE DEF samples
  <1>6. ASSUME held
        PROVE  /\ seen \in ToSet(store') /\ seen.key = app /\ seen.seen = at /\ seen.samples = samples
               /\ Tracked(store', app) /\ store'[Position(store', app)] = seen
               /\ Kept(store', app) = samples /\ curve' = samples
    <2>1. seen \in ToSet(store') /\ seen.key = app /\ seen.seen = at /\ seen.samples = samples
      BY <1>3, <1>6 DEF Entry
    <2>2. /\ Tracked(store', app) /\ store'[Position(store', app)] = seen
          /\ SamplesOf(store', app) = samples /\ Kept(store', app) = samples
      BY <1>3, <1>6, <2>1, EntryIs
    <2> QED
      BY <1>1, <1>6, <2>1, <2>2
  <1>7. Sound(store') /\ \A e \in ToSet(store') : e.seen \in Nat /\ e.seen <= at
    <2>1. CASE held
      <3>1. \A e \in ToSet(store') : e \in ToSet(r) \/ e.seen = at
        BY <1>3, <1>6, <2>1
      <3>2. \A e \in ToSet(r) : e.seen \in Nat /\ e.seen <= at
        BY <1>2
      <3> QED
        BY <1>2, <1>3, <2>1, <3>1, <3>2
    <2>2. CASE ~held
      <3>1. store' = r
        BY <1>1, <2>2
      <3> QED
        BY <1>2, <3>1
    <2> QED
      BY <2>1, <2>2
  <1>8. Timely(store', at)
    <2>1. CASE held
      BY <1>3, <1>6, <2>1 DEF Timely
    <2>2. CASE ~held
      BY <1>1, <2>2
    <2> QED
      BY <2>1, <2>2
  <1>9. curve' \in Seq(Times) /\ \A i \in DOMAIN curve' : curve'[i] <= at
    <2>1. CASE held
      BY <1>3, <1>6, <2>1
    <2>2. CASE ~held
      BY <1>1, <2>2
    <2> QED
      BY <2>1, <2>2
  <1>10. app \in Tracks => curve' = Fresh(Kept(r, app), at)
    <2>1. CASE held
      BY <1>5, <1>6, <2>1 DEF samples
    <2>2. CASE ~held
      <3>1. Fresh(<<>>, at) = <<>>
        BY DEF Fresh
      <3> QED
        BY <1>4, <2>2, <3>1
    <2> QED
      BY <2>1, <2>2
  <1>11. /\ due' \in Seq(Times) /\ \A i \in DOMAIN due' : due'[i] <= at
         /\ app \in Tracks => EndsWith(due', curve') /\ (~crowded' => curve' = due')
    <2>1. CASE app = shown /\ app \in Tracks
      <3>1. due' = Fresh(owed, at)
        BY <1>1, <2>1
      <3>2. due' \in Seq(Times) /\ \A i \in DOMAIN due' : due'[i] <= at
        BY <1>2, <3>1, FreshTypes
      <3>3. Kept(r, app) \in Seq(Times)
        <4>1. CASE held
          BY <1>5, <2>1, <4>1, PositionIs, SoundFacts DEF held, SamplesOf
        <4>2. CASE ~held
          BY <1>4, <2>1, <4>2
        <4> QED
          BY <4>1, <4>2
      <3>4. EndsWith(Fresh(owed, at), Fresh(Kept(r, app), at))
        BY <1>2, <2>1, <3>3, FreshEnds
      <3> QED
        BY <1>10, <2>1, <3>1, <3>2, <3>4
    <2>2. CASE ~(app = shown /\ app \in Tracks)
      <3>1. due' = curve'
        BY <1>1, <2>2
      <3>2. EndsWith(curve', curve')
        BY <1>9, Ends
      <3> QED
        BY <1>9, <3>1, <3>2
    <2> QED
      BY <2>1, <2>2
  <1>12. HistoryTypeOK' /\ MemoryBounded'
    <2>1. DOMAIN store' = 1..Len(store')
      BY <1>7, SoundFacts
    <2>2. MemoryBounded'
      BY <1>7, <2>1 DEF MemoryBounded, Sound
    <2>3. store' \in Seq(Entries) /\ \A i \in DOMAIN store' : Len(store'[i].samples) <= MaxSamples
      BY <1>7, <2>1 DEF Sound
    <2>4. Entries' = Entries /\ Times' = Times
      BY DEF Entries, Times
    <2> QED
      BY <1>1, <1>9, <1>11, <2>2, <2>3, <2>4 DEF HistoryTypeOK
  <1>13. SeenLastInv'
    <2>1. \A i \in DOMAIN store' : store'[i].seen <= moment' /\ store'[i] \in ToSet(store')
      BY <1>7, SoundFacts
    <2>2. ASSUME app \in Tracks PROVE Kept(store', app) = curve'
      BY <1>4, <1>6, <2>2
    <2>3. ASSUME app \in Tracks, Tracked(store', app), NEW i \in DOMAIN store', store'[i].key # app
          PROVE  store'[i].seen < store'[Position(store', app)].seen
      <3>1. held
        <4>1. ASSUME ~held PROVE FALSE
          BY <1>1, <2>3, <4>1 DEF held
        <4> QED
          BY <4>1
      <3>2. store'[i] \in ToSet(r)
        BY <1>3, <1>6, <2>1, <2>3, <3>1
      <3>3. store'[i].seen < at
        BY <3>2
      <3> QED
        BY <1>6, <3>1, <3>3
    <2>4. \A i \in DOMAIN store' : \A j \in DOMAIN store'[i].samples : store'[i].samples[j] <= moment'
      BY <1>8, <2>1 DEF Timely
    <2> QED
      BY <1>1, <1>11, <2>1, <2>2, <2>3, <2>4 DEF SeenLastInv, Kept, Tracked, SamplesOf, Position
  <1>14. ShownHistoryComplete'
    BY <1>1, <1>11 DEF ShownHistoryComplete, EndsWith
  <1> QED
    BY <1>12, <1>13, <1>14 DEF HistoryInv

LEMMA SnapshotKeepsHistory ==
  ASSUME HistoryInv, NEW batch \in Seq(Tracks), IsInjective(batch),
         NEW app \in Tracks \cup {Nobody}, HistorySnapshot(batch, app)
  PROVE  HistoryInv'
  <1> DEFINE n == Len(batch)
             read == moment + n + 1
             r == RecordAll(batch)
             owed == IF app \in ToSet(batch) THEN Sampled(due, moment + Turn(batch, app)) ELSE due
  <1>1. /\ n \in Nat /\ moment \in Nat /\ read \in Times /\ moment + n \in Times /\ Times \subseteq Nat
        /\ moment' = read /\ Reads(r, app, read, owed)
        /\ crowded' = (app = shown /\ app \in Tracks /\ (crowded \/ ~Fits(batch, app)))
    <2>1. n \in Nat /\ moment \in Nat /\ HistoryTime \in Nat
      BY SeqMembers, HistoryAssumption DEF HistoryInv, HistoryTypeOK, Times
    <2>2. /\ read <= HistoryTime /\ moment' = read /\ Reads(r, app, read, owed)
          /\ crowded' = (app = shown /\ app \in Tracks /\ (crowded \/ ~Fits(batch, app)))
      BY Zenon DEF HistorySnapshot
    <2> QED
      BY <2>1, <2>2 DEF Times
  <1>2. /\ Sound(r) /\ Timely(r, moment + n)
        /\ \A e \in ToSet(r) : e.seen \in Nat /\ e.seen <= moment + n
        /\ app = shown => owed = Owed(batch, n)
        /\ Owed(batch, n) \in Seq(Times)
        /\ \A i \in DOMAIN Owed(batch, n) : Owed(batch, n)[i] <= moment + n
        /\ shown \in Tracks => EndsWith(Owed(batch, n), Kept(r, shown))
        /\ shown \in Tracks /\ ~crowded /\ Fits(batch, shown) => Kept(r, shown) = Owed(batch, n)
    BY <1>1, ShownRecorded
  <1> DEFINE mine == IF app = shown THEN Owed(batch, n) ELSE <<>>
  <1> HIDE DEF owed, r
  <1>3. Reads(r, app, read, mine)
    BY <1>1, <1>2, Zenon DEF Reads
  <1>4. Timely(r, read) /\ \A e \in ToSet(r) : e.seen \in Nat /\ e.seen < read
    <2>1. \A e \in ToSet(r) : \A j \in DOMAIN e.samples : e.samples[j] \in Nat
      <3> SUFFICES ASSUME NEW e \in ToSet(r), NEW j \in DOMAIN e.samples PROVE e.samples[j] \in Nat
        OBVIOUS
      <3>1. e.samples \in Seq(Times)
        BY <1>2, SoundFacts
      <3> QED
        BY <1>1, <3>1, ElementOfSeq, LenProperties
    <2> QED
      BY <1>1, <1>2, <2>1 DEF Timely
  <1>5. mine \in Seq(Times) /\ \A i \in DOMAIN mine : mine[i] <= read
    <2>1. \A i \in DOMAIN Owed(batch, n) : Owed(batch, n)[i] \in Nat
      BY <1>1, <1>2, ElementOfSeq, LenProperties
    <2>2. \A i \in DOMAIN Owed(batch, n) : Owed(batch, n)[i] <= read
      BY <1>1, <1>2, <2>1
    <2> QED
      BY <1>2, <2>2
  <1>6. app = shown /\ app \in Tracks =>
            EndsWith(mine, Kept(r, app)) /\ (~crowded' => Kept(r, app) = mine)
    BY <1>1, <1>2
  <1>7. crowded' \in BOOLEAN
    BY <1>1
  <1> HIDE DEF mine, read
  <1> QED
    BY <1>1, <1>2, <1>3, <1>4, <1>5, <1>6, <1>7, CardReads

LEMMA RedrawKeepsHistory ==
  ASSUME HistoryInv, NEW app \in Tracks \cup {Nobody}, Redraw(app)
  PROVE  HistoryInv'
  <1> DEFINE at == moment + 1
  <1>1. /\ at \in Times /\ moment \in Nat /\ Times \subseteq Nat /\ moment' = at
        /\ Reads(store, app, at, due) /\ crowded' = (crowded /\ app = shown)
        /\ due \in Seq(Times) /\ crowded \in BOOLEAN /\ Sound(store)
    BY StoreIsSound, HistoryAssumption DEF Redraw, HistoryInv, HistoryTypeOK, Times
  <1>2. Timely(store, at) /\ \A e \in ToSet(store) : e.seen \in Nat /\ e.seen < at
    <2>1. \A e \in ToSet(store) : \E i \in DOMAIN store : store[i] = e
      BY Zenon DEF ToSet
    <2>2. ASSUME NEW e \in ToSet(store)
          PROVE  e.seen \in Nat /\ e.seen < at /\ \A j \in DOMAIN e.samples : e.samples[j] <= at
      <3>1. e.seen \in Nat /\ e.samples \in Seq(Times)
        BY <1>1, SoundFacts
      <3>2. e.seen <= moment /\ \A j \in DOMAIN e.samples : e.samples[j] <= moment
        BY <2>1 DEF HistoryInv, SeenLastInv
      <3>3. \A j \in DOMAIN e.samples : e.samples[j] \in Nat
        BY <1>1, <3>1, ElementOfSeq, LenProperties
      <3> QED
        BY <1>1, <3>1, <3>2, <3>3
    <2> QED
      BY <2>2 DEF Timely
  <1>3. \A i \in DOMAIN due : due[i] <= at
    <2>1. \A i \in DOMAIN due : due[i] \in Nat
      BY <1>1, ElementOfSeq, LenProperties
    <2> QED
      BY <1>1, <2>1 DEF HistoryInv, SeenLastInv
  <1>4. app = shown /\ app \in Tracks =>
            EndsWith(due, Kept(store, app)) /\ (~crowded' => Kept(store, app) = due)
    BY <1>1 DEF HistoryInv, ShownHistoryComplete, SeenLastInv
  <1>5. crowded' \in BOOLEAN
    BY <1>1
  <1> HIDE DEF at
  <1> QED
    BY <1>1, <1>2, <1>3, <1>4, <1>5, CardReads

(* Every step of the store keeps its invariant.                             *)
LEMMA HistoryStep == HistoryInv /\ [HistoryNext]_historyVars => HistoryInv'
  <1> SUFFICES ASSUME HistoryInv, [HistoryNext]_historyVars PROVE HistoryInv'
    OBVIOUS
  <1>1. CASE HistoryTick
    BY <1>1, TickKeepsHistory
  <1>2. ASSUME NEW batch \in UNION {[1..n -> Tracks] : n \in 0..MaxApps + 1}, IsInjective(batch),
               NEW app \in Tracks \cup {Nobody}, HistorySnapshot(batch, app)
        PROVE  HistoryInv'
    <2>1. batch \in Seq(Tracks)
      BY HistoryAssumption
    <2> QED
      BY <1>2, <2>1, SnapshotKeepsHistory
  <1>3. ASSUME NEW app \in Tracks \cup {Nobody}, Redraw(app) PROVE HistoryInv'
    BY <1>3, RedrawKeepsHistory
  <1>4. CASE UNCHANGED historyVars
    BY <1>4 DEF historyVars, HistoryInv, HistoryTypeOK, MemoryBounded, ShownHistoryComplete, EndsWith,
       SeenLastInv, Kept, Tracked, Position, SamplesOf
  <1> QED
    BY <1>1, <1>2, <1>3, <1>4 DEF HistoryNext

LEMMA HistoryInvariant == HistorySpec => []HistoryInv
  BY HistoryStarts, HistoryStep, PTL DEF HistorySpec

(* The card shows every sample of its application that it has to: recording *)
(* a snapshot never evicts the one on screen, with a group in it or without *)
(* (_evict_if_needed), as long as the groups and the one on screen fit; and *)
(* beyond that its curve only begins late.                                  *)
THEOREM ShownCurveComplete == HistorySpec => []ShownHistoryComplete
  <1>1. HistoryInv => ShownHistoryComplete
    BY DEF HistoryInv
  <1> QED
    BY <1>1, HistoryInvariant, PTL

(* Applications are tracked once each and never more of them than the cap.  *)
THEOREM HistoryMemoryBounded == HistorySpec => []MemoryBounded
  <1>1. HistoryInv => MemoryBounded
    BY DEF HistoryInv
  <1> QED
    BY <1>1, HistoryInvariant, PTL

(* The types, and no more samples of an application than the cap.           *)
THEOREM HistoryTypes == HistorySpec => []HistoryTypeOK
  <1>1. HistoryInv => HistoryTypeOK
    BY DEF HistoryInv
  <1> QED
    BY <1>1, HistoryInvariant, PTL
-----------------------------------------------------------------------------
(* MCModels.  The parts share no state: a step of one leaves the others     *)
(* alone, so each of them behaves as its own specification says.            *)
LEMMA PartsAreSpecified ==
  AllSpec => Spec /\ HistorySpec /\ RateSpec /\ PresenceSpec /\ ListsSpec /\ BuildSpec
  <1>1. AllInit => Init /\ HistoryInit /\ RateInit /\ PresenceInit /\ ListsInit /\ BuildInit
    BY DEF AllInit
  <1>2. [AllNext]_all => [Next]_vars /\ [HistoryNext]_historyVars /\ [RateNext]_rateVars
    BY DEF AllNext, Moves, all
  <1>3. [AllNext]_all => [PresenceNext]_presenceVars /\ [ListsNext]_listVars /\ [BuildNext]_buildVars
    BY DEF AllNext, Moves, all
  <1> QED
    BY <1>1, <1>2, <1>3, PTL
    DEF AllSpec, Spec, HistorySpec, RateSpec, PresenceSpec, ListsSpec, BuildSpec

(* Beside one another the parts keep their types and their bounds: an       *)
(* application is recorded once and within the caps, the window of rates    *)
(* holds no more than it needs, a challenger leads the latest snapshot.     *)
THEOREM PartsOfModelsSound == AllSpec => []PartsStaySound
  <1>1. AllSpec => []TypeOK
    <2>1. IInv => TypeOK
      BY DEF IInv
    <2> QED
      BY <2>1, PartsAreSpecified, InductiveInvariant, PTL
  <1>2. AllSpec => []HistoryTypeOK /\ []RateTypeOK
    BY PartsAreSpecified, HistoryTypes, RateTypes
  <1>3. AllSpec => []PresenceTypeOK /\ []ListsTypeOK
    <2>1. PresenceInv => PresenceTypeOK
      BY DEF PresenceInv
    <2>2. ListsInv => ListsTypeOK
      BY DEF ListsInv
    <2> QED
      BY <2>1, <2>2, PartsAreSpecified, PresenceInvariant, ListsInvariant, PTL
  <1>4. AllSpec => []BuildTypeOK
    <2>1. BuildInv => BuildTypeOK
      BY DEF BuildInv
    <2>2. BuildSpec => []BuildInv
      BY BuildStarts, BuildStep, PTL DEF BuildSpec
    <2> QED
      BY <2>1, <2>2, PartsAreSpecified, PTL
  <1>5. AllSpec => []MemoryBounded /\ []HistoryBounded /\ []ChallengerIsCurrent
    BY PartsAreSpecified, HistoryMemoryBounded, HistoryStaysBounded, ChallengerCurrent
  <1>6. /\ TypeOK /\ HistoryTypeOK /\ RateTypeOK /\ PresenceTypeOK /\ ListsTypeOK /\ BuildTypeOK
        /\ MemoryBounded /\ HistoryBounded /\ ChallengerIsCurrent
        => PartsStaySound
    BY DEF PartsStaySound
  <1> QED
    BY <1>1, <1>2, <1>3, <1>4, <1>5, <1>6, PTL
=============================================================================
