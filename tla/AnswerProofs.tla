--------------------------- MODULE AnswerProofs ---------------------------
(***************************************************************************)
(* Proofs about answers (Preview3Answer): the report of a Preview 3 body   *)
(* (Preview3Trace), the head of an answer (ResponseMerge), and the two     *)
(* together.                                                               *)
(***************************************************************************)
EXTENDS Preview3Answer, Recursion, FiniteSetTheorems

-----------------------------------------------------------------------------
(* The body *)

\* u is the running sum of a.
SumsUp(u, a, n) == \A i \in 1..n : u[i] = u[i - 1] + a[i]

\* Two running sums of the same summands are the same.
LEMMA SumsAgree ==
    ASSUME NEW a, NEW n \in Nat, NEW u, NEW v, u[0] = v[0],
           SumsUp(u, a, n), SumsUp(v, a, n)
    PROVE  \A i \in 0..n : u[i] = v[i]
<1> DEFINE Same == {i \in Nat : i <= n => u[i] = v[i]}
<1>1. 0 \in Same
    OBVIOUS
<1>2. ASSUME NEW i \in Nat, i \in Same PROVE i + 1 \in Same
  <2>1. CASE i + 1 <= n
    <3>1. PICK k \in 1..n : k = i + 1
        BY <2>1
    <3>2. k - 1 = i /\ i <= n
        BY <2>1, <3>1
    <3>3. u[k] = u[k - 1] + a[k] /\ v[k] = v[k - 1] + a[k]
        BY DEF SumsUp
    <3>4. u[i + 1] = v[i + 1]
        BY <1>2, <3>1, <3>2, <3>3
    <3> QED
        BY <3>4
  <2>2. CASE ~(i + 1 <= n)
      BY <2>2
  <2> QED
      BY <2>1, <2>2
<1> HIDE DEF Same
<1>3. \A i \in Nat : i \in Same
    BY <1>1, <1>2, Induction
<1> QED
    BY <1>3 DEF Same

\* The bytes of one more frame.
LEMMA BytesOfOneMore ==
    ASSUME NEW X, \A x \in X : x.size \in Nat, NEW s \in Seq(X), NEW f \in X
    PROVE  /\ BytesIn(<<>>) = 0
           /\ BytesIn(s) \in Nat
           /\ BytesIn(Append(s, f)) = BytesIn(s) + f.size
<1> DEFINE Up(t, u) == u = [i \in 0..Len(t) |-> IF i = 0 THEN 0 ELSE u[i - 1] + t[i].size]
<1>1. ASSUME NEW t \in Seq(X)
      PROVE  \E u : /\ Up(t, u) /\ BytesIn(t) = u[Len(t)]
                    /\ u \in [0..Len(t) -> Nat]
  <2> DEFINE n == Len(t)
             step == [i \in Nat |-> [sum \in Nat |-> IF i \in 1..n THEN sum + t[i].size ELSE sum]]
  <2>1. n \in Nat /\ \A i \in 1..n : t[i].size \in Nat
    <3>1. \A i \in 1..n : t[i] \in X
        OBVIOUS
    <3> QED
        BY <3>1
  <2>2. step \in [Nat -> [Nat -> Nat]]
    <3>1. ASSUME NEW i \in Nat, NEW sum \in Nat
          PROVE  (IF i \in 1..n THEN sum + t[i].size ELSE sum) \in Nat
        BY <2>1
    <3> QED
        BY <3>1
  <2>3. PICK g : FirstValues(g, Nat, 0, step, n)
    <3> HIDE DEF step, n
    <3> QED
        BY <2>1, <2>2, ValuesExist
  <2>4. g \in [0..n -> Nat] /\ g[0] = 0
      BY <2>3 DEF FirstValues
  <2>5. ASSUME NEW i \in 1..n PROVE g[i] = g[i - 1] + t[i].size
    <3>1. i \in Nat /\ i - 1 \in 0..n
        BY <2>1
    <3>2. g[i - 1] \in Nat /\ g[i] = step[i][g[i - 1]]
        BY <2>3, <3>1 DEF FirstValues
    <3> QED
        BY <3>1, <3>2
  <2>6. Up(t, g)
    <3>1. g = [i \in 0..n |-> g[i]]
        BY <2>4
    <3>2. ASSUME NEW i \in 0..n PROVE g[i] = IF i = 0 THEN 0 ELSE g[i - 1] + t[i].size
      <4>1. CASE i = 0
          BY <4>1, <2>4
      <4>2. CASE i # 0
        <5>1. i \in 1..n
            BY <4>2
        <5> QED
            BY <4>2, <5>1, <2>5
      <4> QED
          BY <4>1, <4>2
    <3> QED
        BY <3>1, <3>2
  <2> DEFINE u == CHOOSE u : Up(t, u)
  <2>7. Up(t, u)
      BY <2>6
  <2>8. BytesIn(t) = u[n]
      BY DEF BytesIn
  <2> HIDE DEF u, step
  <2>9. \A i \in 0..n : u[i] = IF i = 0 THEN 0 ELSE u[i - 1] + t[i].size
      BY <2>7
  <2>10. DOMAIN u = 0..n /\ u = [i \in 0..n |-> u[i]]
      BY <2>7
  <2>11. \A i \in 0..n : u[i] = g[i]
    <3> PICK a : a = [i \in 1..n |-> t[i].size]
        OBVIOUS
    <3>1. \A i \in 1..n : i # 0 /\ i \in 0..n /\ a[i] = t[i].size
        BY <2>1
    <3>2. SumsUp(u, a, n) /\ SumsUp(g, a, n)
        BY <2>5, <2>9, <3>1 DEF SumsUp
    <3>3. u[0] = g[0]
        BY <2>1, <2>4, <2>9
    <3> HIDE DEF n
    <3> QED
        BY <2>1, <3>2, <3>3, SumsAgree
  <2>12. u \in [0..n -> Nat]
    <3>1. \A i \in 0..n : u[i] = g[i]
        BY <2>11
    <3>2. \A i \in 0..n : u[i] \in Nat
        BY <3>1, <2>4
    <3> QED
        BY <3>2, <2>10
  <2> QED
      BY <2>7, <2>8, <2>12
<1>2. BytesIn(<<>>) = 0
  <2>1. <<>> \in Seq(X) /\ Len(<<>>) = 0
      OBVIOUS
  <2>2. PICK u : Up(<<>>, u) /\ BytesIn(<<>>) = u[Len(<<>>)]
      BY <1>1, <2>1
  <2> QED
      BY <2>1, <2>2
<1>3. PICK u : Up(s, u) /\ BytesIn(s) = u[Len(s)] /\ u \in [0..Len(s) -> Nat]
    BY <1>1
<1> DEFINE t == Append(s, f)
           n == Len(s)
<1>4. /\ t \in Seq(X) /\ Len(t) = n + 1 /\ n \in Nat /\ t[n + 1] = f
      /\ \A i \in 1..n : t[i] = s[i]
    OBVIOUS
<1>5. PICK v : Up(t, v) /\ BytesIn(t) = v[Len(t)] /\ v \in [0..Len(t) -> Nat]
    BY <1>1, <1>4
<1>6. \A i \in 0..n : u[i] = IF i = 0 THEN 0 ELSE u[i - 1] + s[i].size
    BY <1>3
<1>7. \A i \in 0..n + 1 : v[i] = IF i = 0 THEN 0 ELSE v[i - 1] + t[i].size
    BY <1>4, <1>5
<1> HIDE DEF Up, t
<1>8. \A i \in 0..n : u[i] = v[i]
  <2> PICK a : a = [i \in 1..n |-> t[i].size]
      OBVIOUS
  <2>1. \A i \in 1..n : i # 0 /\ i \in 0..n /\ i \in 0..n + 1 /\ a[i] = t[i].size
      BY <1>4
  <2>2. SumsUp(u, a, n) /\ SumsUp(v, a, n)
      BY <1>4, <1>6, <1>7, <2>1 DEF SumsUp
  <2>3. u[0] = v[0]
    <3>1. 0 \in 0..n /\ 0 \in 0..n + 1
        BY <1>4
    <3> QED
        BY <3>1, <1>6, <1>7
  <2> HIDE DEF n
  <2> QED
      BY <1>4, <2>2, <2>3, SumsAgree
<1>9. u[n] = v[n]
    BY <1>4, <1>8
<1>10. v[n + 1] = v[n] + f.size
  <2>1. PICK k \in 0..n + 1 : k = n + 1
      BY <1>4
  <2>2. k - 1 = n /\ k # 0
      BY <1>4, <2>1
  <2>3. v[k] = v[k - 1] + t[k].size
      BY <1>7, <2>2
  <2> QED
      BY <1>4, <2>1, <2>2, <2>3
<1>11. n \in 0..n
    BY <1>4
<1> QED
    BY <1>2, <1>3, <1>4, <1>5, <1>9, <1>10, <1>11 DEF t

-----------------------------------------------------------------------------
\* No frame has no bytes.
LEMMA NoBytes == BytesIn(<<>>) = 0
<1>1. \A x \in {[size |-> 0]} : x.size \in Nat
    OBVIOUS
<1>2. <<>> \in Seq({[size |-> 0]}) /\ [size |-> 0] \in {[size |-> 0]}
    OBVIOUS
<1> QED
    BY <1>1, <1>2, BytesOfOneMore

\* What a body can have left, and what its host can hear.
Frames == {Chunk(s) : s \in Sizes} \cup {Error}
Heards == Frames \cup {End}

\* A frame can be told from an error and from an end.
LEMMA FramesDiffer ==
    /\ \A s : Chunk(s) # Error /\ Chunk(s) # End /\ Chunk(s) # Start /\ Chunk(s).size = s
    /\ Error # End /\ Start # Error /\ Start # End
    /\ Error.size = 0 /\ End.size = 0
    /\ \A f \in Heards : f.size \in Nat
<1>1. \A s : Chunk(s).frame = "data" /\ Chunk(s).size = s
    BY DEF Chunk
<1>2. /\ Error.frame = "error" /\ End.frame = "end" /\ Start.frame = "start"
      /\ Error.size = 0 /\ End.size = 0
    BY DEF Error, End, Start
<1>3. \A f \in Heards : f.size \in Nat
    BY <1>1, <1>2, SizesAssumption DEF Heards, Frames
<1>4. \A s : Chunk(s) # Error /\ Chunk(s) # End /\ Chunk(s) # Start
  <2>1. ASSUME NEW s PROVE Chunk(s) # Error /\ Chunk(s) # End /\ Chunk(s) # Start
    <3>1. Chunk(s).frame = "data"
        BY <1>1
    <3> QED
        BY <1>2, <3>1
  <2> QED
      BY <2>1
<1> QED
    BY <1>1, <1>2, <1>3, <1>4

\* What a report says of the frames the host has heard.
Told(heard) ==
    LET end == Last(<<Start>> \o heard)
    IN /\ report.class = CASE end = Error -> "response_stream"
                           [] end = End -> "none"
                           [] OTHER -> "body_dropped"
       /\ report.cancellation <=> report.class = "body_dropped"
       /\ report.bytes = BytesIn(heard)
       /\ report.firstByte <=> report.bytes > 0

\* Until there is a report, no error or end has been heard, and the counters
\* count what was; the report, once written, tells of what was heard first.
TraceInv ==
    /\ body = [kind |-> body.kind, left |-> body.left]
    /\ body.left \in Seq(Frames)
    /\ received \in Seq(Heards)
    /\ firstByte \in BOOLEAN
    /\ report = NoReport =>
           /\ Final = {} /\ owner # "dropped"
           /\ bytes = BytesIn(received)
           /\ firstByte <=> bytes > 0
    /\ report # NoReport =>
           /\ Final # {} \/ owner = "dropped"
           /\ Told(Heard)
           /\ report.class = "none" => body.left = <<>>

\* The invariant implies the property.
LEMMA TraceShows == TraceInv => ReportIsTrue
    BY DEF TraceInv, ReportIsTrue, Told

\* The last of what was heard.
LEMMA LastOfMore ==
    ASSUME NEW X, NEW s \in Seq(X), NEW f
    PROVE  /\ Last(<<Start>> \o Append(s, f)) = f
           /\ s = <<>> => Last(<<Start>> \o s) = Start
           /\ s # <<>> => Len(s) \in 1..Len(s) /\ Last(<<Start>> \o s) = s[Len(s)]
<1>1. Len(s) \in Nat
    OBVIOUS
<1>2. Last(<<Start>> \o Append(s, f)) = f
    BY DEF Last
<1>3. s = <<>> => Last(<<Start>> \o s) = Start
    BY DEF Last
<1>4. s # <<>> => Len(s) \in 1..Len(s) /\ Last(<<Start>> \o s) = s[Len(s)]
    BY DEF Last
<1> QED
    BY <1>2, <1>3, <1>4

\* After the first error or end nothing more is heard.
LEMMA FirstIsHeard ==
    ASSUME received \in Seq(Heards), NEW f \in Heards, received' = Append(received, f)
    PROVE  /\ Final # {} => Final' # {} /\ Heard' = Heard
           /\ Final = {} /\ f \notin {Error, End} => Final' = {}
           /\ Final = {} /\ f \in {Error, End} => Final' # {} /\ Heard' = Append(received, f)
<1> DEFINE n == Len(received)
           First(S) == CHOOSE i \in S : \A j \in S : i <= j
<1>1. /\ n \in Nat /\ DOMAIN received = 1..n /\ DOMAIN received' = 1..n + 1
      /\ received'[n + 1] = f /\ \A i \in 1..n : received'[i] = received[i]
      /\ received' \in Seq(Heards)
    OBVIOUS
<1>2. /\ Final \subseteq 1..n /\ Final = {i \in 1..n : received[i] \in {Error, End}}
      /\ Final' = {i \in 1..n + 1 : received'[i] \in {Error, End}}
    BY <1>1 DEF Final
<1>3. \A i \in 1..n + 1 : i \in 1..n \/ i = n + 1
    BY <1>1
<1>4. n + 1 \in 1..n + 1 /\ n + 1 \notin 1..n /\ \A i \in 1..n : i \in 1..n + 1
    BY <1>1
<1>5. Final' = IF f \in {Error, End} THEN Final \cup {n + 1} ELSE Final
  <2>1. CASE f \in {Error, End}
      BY <1>1, <1>2, <1>3, <1>4, <2>1
  <2>2. CASE f \notin {Error, End}
      BY <1>1, <1>2, <1>3, <1>4, <2>2
  <2> QED
      BY <2>1, <2>2
<1>6. ASSUME NEW S, NEW m \in S, S \subseteq Nat, \A j \in S : m <= j PROVE First(S) = m
  <2>1. First(S) \in S /\ \A j \in S : First(S) <= j
    <3>1. \E i \in S : \A j \in S : i <= j
        BY <1>6
    <3> QED
        BY <3>1
  <2> HIDE DEF First
  <2>2. First(S) <= m /\ m <= First(S) /\ First(S) \in Nat /\ m \in Nat
      BY <1>6, <2>1
  <2> QED
      BY <2>2
<1>7. /\ Heard = IF Final = {} THEN received ELSE SubSeq(received, 1, First(Final))
      /\ Heard' = IF Final' = {} THEN received' ELSE SubSeq(received', 1, First(Final'))
    BY DEF Heard
<1> HIDE DEF First
<1>8. ASSUME Final # {} PROVE Final' # {} /\ Heard' = Heard
  <2>1. PICK m \in Final : \A j \in Final : m <= j
    <3>1. Final \subseteq Nat
        BY <1>1, <1>2
    <3> QED
        BY <1>8, <3>1, LeastNumber
  <2>2. m \in 1..n
      BY <1>2
  <2>3. First(Final) = m
    <3>1. Final \subseteq Nat
        BY <1>1, <1>2
    <3> QED
        BY <1>6, <2>1, <3>1
  <2>4. m \in Final' /\ Final' \subseteq Nat /\ \A j \in Final' : m <= j
    <3>1. m <= n + 1
        BY <2>2, <1>1
    <3> QED
        BY <1>1, <1>2, <1>5, <2>1, <3>1
  <2>5. First(Final') = m
      BY <1>6, <2>4
  <2>6. SubSeq(received', 1, m) = SubSeq(received, 1, m)
    <3>1. /\ SubSeq(received', 1, m) = [i \in 1..m |-> received'[i]]
          /\ SubSeq(received, 1, m) = [i \in 1..m |-> received[i]]
        BY <1>1, <2>2
    <3>2. \A i \in 1..m : received'[i] = received[i]
        BY <1>1, <2>2
    <3> QED
        BY <3>1, <3>2
  <2> QED
      BY <1>7, <1>8, <2>3, <2>4, <2>5, <2>6
<1>9. ASSUME Final = {}, f \in {Error, End} PROVE Final' # {} /\ Heard' = Append(received, f)
  <2>1. Final' = {n + 1}
      BY <1>5, <1>9
  <2>2. First(Final') = n + 1
    <3>1. PICK m \in Nat : m = n + 1
        BY <1>1
    <3>2. m \in Final' /\ Final' \subseteq Nat /\ \A j \in Final' : m <= j
        BY <2>1, <3>1
    <3>3. First(Final') = m
        BY <1>6, <3>2
    <3> QED
        BY <3>1, <3>3
  <2>3. SubSeq(received', 1, n + 1) = received'
      BY <1>1
  <2> QED
      BY <1>7, <2>1, <2>2, <2>3
<1> QED
    BY <1>5, <1>8, <1>9

LEMMA TraceInitially == TraceInit => TraceInv
<1> SUFFICES ASSUME TraceInit PROVE TraceInv
    OBVIOUS
<1>1. body.left \in Seq(Frames)
  <2>1. \A s \in Sizes : Chunk(s) \in Frames
      BY DEF Frames
  <2>2. CASE \E s \in Sizes : body = [kind |-> "Sync", left |-> IF s = 0 THEN <<>> ELSE <<Chunk(s)>>]
      BY <2>1, <2>2
  <2>3. CASE body \in [kind : {"Async"}, left : UNION {[1..n -> Frames] : n \in 0..MaxChunks}]
    <3>1. PICK n \in 0..MaxChunks : body.left \in [1..n -> Frames]
        BY <2>3
    <3> QED
        BY <3>1, MaxChunksAssumption
  <2> QED
      BY <2>2, <2>3 DEF TraceInit, Bodies, Frames
<1>6. body = [kind |-> body.kind, left |-> body.left]
    BY DEF TraceInit, Bodies
<1>2. received = <<>> /\ Final = {}
    BY DEF TraceInit, Final
<1>3. BytesIn(<<>>) = 0
    BY NoBytes
<1>4. owner = "handler" /\ ~firstByte /\ firstByte \in BOOLEAN /\ bytes = 0 /\ report = NoReport
    BY DEF TraceInit
<1>5. firstByte <=> bytes > 0
    BY <1>4
<1> QED
    BY <1>1, <1>2, <1>3, <1>4, <1>5, <1>6 DEF TraceInv

\* A report once written stays, and what it says is of frames that are past.
LEMMA ReportStays ==
    ASSUME TraceInv, report # NoReport, UNCHANGED report, firstByte' \in BOOLEAN,
           body' = [kind |-> body'.kind, left |-> body'.left],
           body'.left \in Seq(Frames), body.left = <<>> => body'.left = <<>>,
           owner = "dropped" => owner' = "dropped",
           \/ UNCHANGED received
           \/ owner # "dropped" /\ \E f \in Heards : received' = Append(received, f)
    PROVE  TraceInv'
<1>1. /\ Final # {} \/ owner = "dropped"
      /\ Told(Heard) /\ received \in Seq(Heards)
      /\ report.class = "none" => body.left = <<>>
    BY DEF TraceInv
<1>2. received' \in Seq(Heards)
  <2>1. \A f \in Heards : Append(received, f) \in Seq(Heards)
      BY <1>1
  <2> QED
      BY <1>1, <2>1
<1>3. (Final' # {} \/ owner' = "dropped") /\ Heard' = Heard
  <2>1. CASE UNCHANGED received
    <3>1. Final' = Final /\ Heard' = Heard
        BY <2>1 DEF Final, Heard
    <3> QED
        BY <1>1, <3>1
  <2>2. ASSUME owner # "dropped", NEW f \in Heards, received' = Append(received, f)
        PROVE  Final' # {} /\ Heard' = Heard
      BY <1>1, <2>2, FirstIsHeard
  <2> QED
      BY <2>1, <2>2
<1>4. \A h : Told(h) <=> Told(h)'
    BY DEF Told
<1>5. Told(Heard)'
    BY <1>1, <1>3, <1>4 DEF Told
<1> QED
    BY <1>1, <1>2, <1>3, <1>5 DEF TraceInv

\* The first report.
LEMMA ReportIsWritten ==
    ASSUME TraceInv, report = NoReport, NEW cancellation \in BOOLEAN, NEW class,
           Finish(cancellation, class), NEW h \in Seq(Heards),
           Heard' = h, BytesIn(h) = bytes,
           cancellation <=> class = "body_dropped",
           class = CASE Last(<<Start>> \o h) = Error -> "response_stream"
                     [] Last(<<Start>> \o h) = End -> "none"
                     [] OTHER -> "body_dropped",
           class \in {"response_stream", "none", "body_dropped"}
    PROVE  report' # NoReport /\ report'.class = class /\ Told(Heard)'
<1>1. report' = [class |-> class, cancellation |-> cancellation,
                 bytes |-> bytes, firstByte |-> firstByte]
    BY DEF Finish
<1>2. /\ report'.class = class /\ report'.cancellation = cancellation
      /\ report'.bytes = bytes /\ report'.firstByte = firstByte
    BY <1>1
<1>3. report' # NoReport
  <2>1. NoReport.class = "none yet"
      BY DEF NoReport
  <2> QED
      BY <1>2, <2>1
<1>4. firstByte <=> bytes > 0
    BY DEF TraceInv
<1>5. Told(h)'
    BY <1>2, <1>4 DEF Told
<1> QED
    BY <1>2, <1>3, <1>5

LEMMA HandOverKeeps == TraceInv /\ HandOver => TraceInv'
<1> SUFFICES ASSUME TraceInv, HandOver PROVE TraceInv'
    OBVIOUS
<1>1. /\ owner = "handler" /\ owner' = "host"
      /\ UNCHANGED <<body, received, firstByte, bytes, report>>
    BY DEF HandOver
<1>2. CASE report # NoReport
    BY <1>1, <1>2, ReportStays DEF TraceInv
<1>3. CASE report = NoReport
  <2>1. Final' = Final
      BY <1>1 DEF Final
  <2> QED
      BY <1>1, <1>3, <2>1 DEF TraceInv
<1> QED
    BY <1>2, <1>3

\* What a poll takes from the body.
LEMMA PollsTakes ==
    ASSUME TraceInv, NEW f, Polls(f)
    PROVE  /\ owner = "host" /\ owner' = "host" /\ received' = Append(received, f)
           /\ body.left = <<>> => f = End
           /\ body.left # <<>> => f \in Frames /\ Tail(body.left) \in Seq(Frames)
           /\ f \in Heards
<1>1. body.left \in Seq(Frames)
    BY DEF TraceInv
<1>2. body.left # <<>> => Head(body.left) \in Frames /\ Tail(body.left) \in Seq(Frames)
    BY <1>1
<1> QED
    BY <1>2 DEF Polls, Heards

LEMMA RestIs ==
    ASSUME TraceInv, body' = Rest
    PROVE  body'.left = Tail(body.left) /\ body' = [kind |-> body'.kind, left |-> body'.left]
<1>1. body = [kind |-> body.kind, left |-> body.left]
    BY DEF TraceInv
<1>2. body' = [kind |-> body.kind, left |-> Tail(body.left)]
    BY <1>1 DEF Rest
<1> QED
    BY <1>2

LEMMA PollDataKeeps == TraceInv /\ PollData => TraceInv'
<1> SUFFICES ASSUME TraceInv, PollData PROVE TraceInv'
    OBVIOUS
<1>1. PICK s \in Sizes :
          /\ Polls(Chunk(s)) /\ body' = Rest /\ UNCHANGED report
          /\ firstByte' = (firstByte \/ s > 0) /\ bytes' = bytes + s
    BY DEF PollData
<1>2. /\ owner = "host" /\ owner' = "host" /\ received' = Append(received, Chunk(s))
      /\ body.left # <<>> /\ Chunk(s) \in Heards /\ Tail(body.left) \in Seq(Frames)
    BY <1>1, PollsTakes, FramesDiffer
<1>3. body'.left \in Seq(Frames) /\ body' = [kind |-> body'.kind, left |-> body'.left]
    BY <1>1, <1>2, RestIs
<1>4. received \in Seq(Heards) /\ received' \in Seq(Heards) /\ s \in Nat
      /\ firstByte \in BOOLEAN /\ firstByte' \in BOOLEAN
    BY <1>1, <1>2, SizesAssumption DEF TraceInv
<1>5. CASE report = NoReport
  <2>1. Final = {} /\ bytes = BytesIn(received) /\ (firstByte <=> bytes > 0)
      BY <1>5 DEF TraceInv
  <2>2. Final' = {}
      BY <1>2, <1>4, <2>1, FirstIsHeard, FramesDiffer
  <2>3. BytesIn(received) \in Nat /\ BytesIn(received') = BytesIn(received) + s
      BY <1>2, <1>4, BytesOfOneMore, FramesDiffer
  <2>4. bytes' = BytesIn(received') /\ bytes \in Nat
      BY <1>1, <2>1, <2>3
  <2>5. bytes' > 0 <=> bytes > 0 \/ s > 0
      BY <1>1, <1>4, <2>4
  <2>6. firstByte' <=> bytes' > 0
      BY <1>1, <2>1, <2>5
  <2> QED
      BY <1>1, <1>2, <1>3, <1>4, <1>5, <2>2, <2>4, <2>6 DEF TraceInv
<1>6. CASE report # NoReport
    BY <1>1, <1>2, <1>3, <1>4, <1>6, ReportStays
<1> QED
    BY <1>5, <1>6

LEMMA PollErrorKeeps == TraceInv /\ PollError => TraceInv'
<1> SUFFICES ASSUME TraceInv, PollError PROVE TraceInv'
    OBVIOUS
<1>1. /\ Polls(Error) /\ body' = Rest /\ UNCHANGED <<firstByte, bytes>>
      /\ Finish(FALSE, "response_stream")
    BY DEF PollError
<1>2. /\ owner = "host" /\ owner' = "host" /\ received' = Append(received, Error)
      /\ body.left # <<>> /\ Error \in Heards /\ Tail(body.left) \in Seq(Frames)
    BY <1>1, PollsTakes, FramesDiffer
<1>3. body'.left \in Seq(Frames) /\ body' = [kind |-> body'.kind, left |-> body'.left]
    BY <1>1, <1>2, RestIs
<1>4. received \in Seq(Heards) /\ received' \in Seq(Heards)
      /\ firstByte \in BOOLEAN /\ firstByte' \in BOOLEAN
    BY <1>1, <1>2 DEF TraceInv
<1>5. CASE report = NoReport
  <2>1. Final = {} /\ bytes = BytesIn(received)
      BY <1>5 DEF TraceInv
  <2>2. Final' # {} /\ Heard' = received'
      BY <1>2, <1>4, <2>1, FirstIsHeard
  <2>3. BytesIn(received') = bytes
    <3>1. BytesIn(received) \in Nat /\ BytesIn(received') = BytesIn(received) + Error.size
        BY <1>2, <1>4, BytesOfOneMore, FramesDiffer
    <3> QED
        BY <2>1, <3>1, FramesDiffer
  <2>4. Last(<<Start>> \o received') = Error
      BY <1>2, <1>4, LastOfMore
  <2>5. report' # NoReport /\ report'.class = "response_stream" /\ Told(Heard)'
    <3>1. PICK h \in Seq(Heards) : h = received'
        BY <1>4
    <3>2. Last(<<Start>> \o h) = Error /\ Heard' = h /\ BytesIn(h) = bytes
        BY <2>2, <2>3, <2>4, <3>1
    <3>3. "response_stream" = CASE Last(<<Start>> \o h) = Error -> "response_stream"
                      [] Last(<<Start>> \o h) = End -> "none"
                      [] OTHER -> "body_dropped"
        BY <3>2, FramesDiffer
    <3>4. FALSE \in BOOLEAN /\ (FALSE <=> "response_stream" = "body_dropped")
          /\ "response_stream" \in {"response_stream", "none", "body_dropped"}
        OBVIOUS
    <3>5. /\ Finish(FALSE, "response_stream") /\ report = NoReport
          /\ Heard' = h /\ BytesIn(h) = bytes
        BY <1>1, <1>5, <3>2
    <3> QED
        BY <3>3, <3>4, <3>5, ReportIsWritten
  <2> QED
      BY <1>3, <1>4, <2>2, <2>5 DEF TraceInv
<1>6. CASE report # NoReport
  <2>1. UNCHANGED report
      BY <1>1, <1>6 DEF Finish
  <2> QED
      BY <1>2, <1>3, <1>4, <1>6, <2>1, ReportStays
<1> QED
    BY <1>5, <1>6

LEMMA PollEndKeeps == TraceInv /\ PollEnd => TraceInv'
<1> SUFFICES ASSUME TraceInv, PollEnd PROVE TraceInv'
    OBVIOUS
<1>1. /\ Polls(End) /\ UNCHANGED <<body, firstByte, bytes>>
      /\ Finish(FALSE, "none")
    BY DEF PollEnd
<1>2. /\ owner = "host" /\ owner' = "host" /\ received' = Append(received, End)
      /\ body.left = <<>> /\ End \in Heards
  <2>1. End \notin Frames
      BY FramesDiffer DEF Frames
  <2> QED
      BY <1>1, <2>1, PollsTakes
<1>3. body'.left \in Seq(Frames) /\ body' = [kind |-> body'.kind, left |-> body'.left]
      /\ body'.left = <<>>
    BY <1>1, <1>2 DEF TraceInv
<1>4. received \in Seq(Heards) /\ received' \in Seq(Heards)
      /\ firstByte \in BOOLEAN /\ firstByte' \in BOOLEAN
    BY <1>1, <1>2 DEF TraceInv
<1>5. CASE report = NoReport
  <2>1. Final = {} /\ bytes = BytesIn(received)
      BY <1>5 DEF TraceInv
  <2>2. Final' # {} /\ Heard' = received'
      BY <1>2, <1>4, <2>1, FirstIsHeard
  <2>3. BytesIn(received') = bytes
    <3>1. BytesIn(received) \in Nat /\ BytesIn(received') = BytesIn(received) + End.size
        BY <1>2, <1>4, BytesOfOneMore, FramesDiffer
    <3> QED
        BY <2>1, <3>1, FramesDiffer
  <2>4. Last(<<Start>> \o received') = End
      BY <1>2, <1>4, LastOfMore
  <2>5. report' # NoReport /\ report'.class = "none" /\ Told(Heard)'
    <3>1. PICK h \in Seq(Heards) : h = received'
        BY <1>4
    <3>2. Last(<<Start>> \o h) = End /\ Heard' = h /\ BytesIn(h) = bytes /\ End # Error
        BY <2>2, <2>3, <2>4, <3>1, FramesDiffer
    <3>3. "none" = CASE Last(<<Start>> \o h) = Error -> "response_stream"
                      [] Last(<<Start>> \o h) = End -> "none"
                      [] OTHER -> "body_dropped"
        BY <3>2
    <3>4. FALSE \in BOOLEAN /\ (FALSE <=> "none" = "body_dropped")
          /\ "none" \in {"response_stream", "none", "body_dropped"}
        OBVIOUS
    <3>5. /\ Finish(FALSE, "none") /\ report = NoReport
          /\ Heard' = h /\ BytesIn(h) = bytes
        BY <1>1, <1>5, <3>2
    <3> QED
        BY <3>3, <3>4, <3>5, ReportIsWritten
  <2> QED
      BY <1>3, <1>4, <2>2, <2>5 DEF TraceInv
<1>6. CASE report # NoReport
  <2>1. UNCHANGED report
      BY <1>1, <1>6 DEF Finish
  <2> QED
      BY <1>2, <1>3, <1>4, <1>6, <2>1, ReportStays
<1> QED
    BY <1>5, <1>6

LEMMA DropBodyKeeps == TraceInv /\ DropBody => TraceInv'
<1> SUFFICES ASSUME TraceInv, DropBody PROVE TraceInv'
    OBVIOUS
<1>1. /\ owner # "dropped" /\ owner' = "dropped" /\ UNCHANGED <<body, received, firstByte, bytes>>
      /\ Finish(TRUE, "body_dropped")
    BY DEF DropBody
<1>2. /\ received \in Seq(Heards) /\ firstByte' \in BOOLEAN /\ body'.left \in Seq(Frames)
      /\ body' = [kind |-> body'.kind, left |-> body'.left]
    BY <1>1 DEF TraceInv
<1>3. Final' = Final /\ Heard' = Heard
    BY <1>1 DEF Final, Heard
<1>4. CASE report = NoReport
  <2>1. Final = {} /\ bytes = BytesIn(received) /\ Heard = received
      BY <1>4 DEF TraceInv, Heard
  <2>2. Last(<<Start>> \o received) \notin {Error, End}
    <3>1. CASE received = <<>>
        BY <1>2, <3>1, LastOfMore, FramesDiffer
    <3>2. CASE received # <<>>
      <4>1. Len(received) \in 1..Len(received) /\ Last(<<Start>> \o received) = received[Len(received)]
          BY <1>2, <3>2, LastOfMore
      <4>2. DOMAIN received = 1..Len(received)
          BY <1>2
      <4> QED
          BY <2>1, <4>1, <4>2 DEF Final
    <3> QED
        BY <3>1, <3>2
  <2>3. report' # NoReport /\ report'.class = "body_dropped" /\ Told(Heard)'
      BY <1>1, <1>2, <1>3, <1>4, <2>1, <2>2, ReportIsWritten
  <2> QED
      BY <1>1, <1>2, <2>3 DEF TraceInv
<1>5. CASE report # NoReport
  <2>1. UNCHANGED report
      BY <1>1, <1>5 DEF Finish
  <2> QED
      BY <1>1, <1>2, <1>5, <2>1, ReportStays
<1> QED
    BY <1>4, <1>5

LEMMA TraceSteps == TraceInv /\ [TraceNext]_traceVars => TraceInv'
<1> SUFFICES ASSUME TraceInv, [TraceNext]_traceVars PROVE TraceInv'
    OBVIOUS
<1>1. CASE TraceNext
    BY <1>1, HandOverKeeps, PollDataKeeps, PollErrorKeeps, PollEndKeeps, DropBodyKeeps
       DEF TraceNext
<1>2. CASE UNCHANGED traceVars
    BY <1>2 DEF traceVars, TraceInv, Final, Heard, Told
<1> QED
    BY <1>1, <1>2

\* The report of a request tells how its body ended for the host and how many
\* bytes the host had by then, however it polls and drops (wasip3.rs:294-341).
THEOREM ReportsAreTrue == TraceSpec => []ReportIsTrue
<1>1. TraceSpec => []TraceInv
    BY TraceInitially, TraceSteps, PTL DEF TraceSpec
<1> QED
    BY <1>1, TraceShows, PTL

-----------------------------------------------------------------------------
(* The head *)

\* x is put after all members of K, which stay in their places.
Follows(x, K) ==
    /\ Cardinality(K \cup {x}) = Cardinality(K) + 1
    /\ \A n \in 1..Cardinality(K) : Nth(K \cup {x}, n) = Nth(K, n)
    /\ Nth(K \cup {x}, Cardinality(K) + 1) = x

\* A number after all others comes last, and leaves the others in their places.
LEMMA OneMore ==
    ASSUME NEW m \in Nat, NEW K, K \subseteq 1..m
    PROVE  Cardinality(K) \in Nat /\ Follows(m + 1, K)
<1> DEFINE c == Cardinality(K)
           Below(S, i) == {j \in S : j < i}
<1>0. PICK L : L = K \cup {m + 1}
    OBVIOUS
<1>1. IsFiniteSet(K) /\ c \in Nat /\ m + 1 \notin K /\ \A i \in K : i \in Nat /\ i < m + 1
  <2>1. IsFiniteSet(1..m)
      BY FS_Interval
  <2>2. IsFiniteSet(K) /\ c \in Nat
      BY <2>1, FS_Subset, FS_CardinalityType
  <2>3. \A i \in K : i \in Nat /\ i < m + 1
      OBVIOUS
  <2> QED
      BY <2>2, <2>3
<1>2. Cardinality(L) = c + 1
    BY <1>0, <1>1, FS_AddElement
<1>3. /\ Below(L, m + 1) = K
      /\ \A i \in K : Below(L, i) = Below(K, i)
  <2>1. PICK x \in Nat : x = m + 1
      OBVIOUS
  <2>2. \A j : j \in L <=> j \in K \/ j = x
      BY <1>0, <2>1
  <2>3. x \notin K /\ ~(x < x) /\ \A i \in K : i < x /\ ~(x < i)
      BY <1>1, <2>1
  <2>4. Below(L, x) = K
      BY <2>2, <2>3
  <2>5. \A i \in K : Below(L, i) = Below(K, i)
      BY <2>2, <2>3
  <2> QED
      BY <2>1, <2>4, <2>5
<1>4. ASSUME NEW i \in K PROVE Cardinality(Below(K, i)) < c
  <2>1. IsFiniteSet(Below(K, i)) /\ Below(K, i) \subseteq K \ {i}
      BY <1>1, FS_Subset
  <2>2. IsFiniteSet(K \ {i}) /\ Cardinality(K \ {i}) = c - 1
      BY <1>1, FS_RemoveElement
  <2>3. Cardinality(Below(K, i)) <= c - 1
      BY <2>1, <2>2, FS_Subset
  <2>4. Cardinality(Below(K, i)) \in Nat
      BY <2>1, FS_CardinalityType
  <2> QED
      BY <1>1, <2>3, <2>4
<1>5. ASSUME NEW i \in K PROVE Cardinality(Below(K, i)) \in Nat
    BY <1>1, FS_Subset, FS_CardinalityType
<1>6. ASSUME NEW n \in 1..c PROVE Nth(L, n) = Nth(K, n)
  <2>1. n \in Nat /\ n - 1 # c
      BY <1>1
  <2>2. \A i : (i \in L /\ Cardinality(Below(L, i)) = n - 1)
               <=> (i \in K /\ Cardinality(Below(K, i)) = n - 1)
    <3> HIDE DEF Below
    <3> QED
        BY <1>0, <1>3, <2>1
  <2>3. /\ Nth(L, n) = CHOOSE i : i \in L /\ Cardinality(Below(L, i)) = n - 1
        /\ Nth(K, n) = CHOOSE i : i \in K /\ Cardinality(Below(K, i)) = n - 1
      BY Zenon DEF Nth
  <2> HIDE DEF Below
  <2> QED
      BY <2>2, <2>3, Zenon
<1>7. Nth(L, c + 1) = m + 1
  <2>1. \A i : (i \in L /\ Cardinality(Below(L, i)) = c) <=> i = m + 1
    <3> HIDE DEF Below
    <3>1. m + 1 \in L /\ Cardinality(Below(L, m + 1)) = c
        BY <1>0, <1>3
    <3>2. \A i \in K : Cardinality(Below(L, i)) # c
        BY <1>1, <1>3, <1>4, <1>5
    <3>3. \A i \in L : i \in K \/ i = m + 1
        BY <1>0
    <3> QED
        BY <3>1, <3>2, <3>3, Zenon
  <2>2. PICK d \in Nat : d = c + 1 /\ d - 1 = c
      BY <1>1
  <2>5. Nth(L, d) = CHOOSE i : i \in L /\ Cardinality(Below(L, i)) = d - 1
      BY Zenon DEF Nth
  <2>3. Nth(L, c + 1) = CHOOSE i : i \in L /\ Cardinality(Below(L, i)) = c
    <3> HIDE DEF c
    <3> QED
        BY <2>2, <2>5, Zenon
  <2>4. Nth(L, c + 1) = CHOOSE i : i = m + 1
    <3> HIDE DEF Below
    <3> QED
        BY <2>1, <2>3, Zenon
  <2> QED
      BY <2>4
<1>8. Follows(m + 1, K)
  <2> HIDE DEF Below
  <2> QED
      BY <1>0, <1>2, <1>6, <1>7 DEF Follows
<1> QED
    BY <1>1, <1>8

\* The latest of some numbers is the one that none of them exceeds.
LEMMA LatestIs ==
    ASSUME NEW S, S \subseteq Nat, NEW x \in S, \A j \in S : j <= x
    PROVE  Latest(S) = x
<1>1. \A i \in S : (\A j \in S : j <= i) => i = x
    BY SMT
<1> QED
    BY <1>1 DEF Latest

\* The choices that the definitions of what is meant make have an outcome.
Found ==
    /\ \A name \in Names :
           /\ LastDrop(name) \in 0..Len(written)
           /\ \A n \in 1..Cardinality(Kept(name)) : Nth(Kept(name), n) \in Kept(name)
    /\ StatusWrites # {} => Latest(StatusWrites) \in StatusWrites

\* The writes that are looked at are writes.
LEMMA AmongWrites ==
    ASSUME NEW S, written \in Seq(S)
    PROVE  /\ Len(written) \in Nat
           /\ InTime \subseteq 1..Len(written) /\ StatusWrites \subseteq InTime
           /\ \A name : Kept(name) \subseteq InTime
<1>1. Len(written) \in Nat /\ DOMAIN written = 1..Len(written)
    OBVIOUS
<1> QED
    BY <1>1 DEF InTime, StatusWrites, Kept

\* What is meant for a header is a sequence.
LEMMA MeantIsSequence ==
    ASSUME NEW S, written \in Seq(S), NEW name
    PROVE  \E T : Meant(name) \in Seq(T)
<1> DEFINE c == Cardinality(Kept(name))
           T == {Wrote(Nth(Kept(name), n)).value : n \in 1..c}
<1>1. c \in Nat
  <2>1. Kept(name) \subseteq 1..Len(written) /\ Len(written) \in Nat
      BY AmongWrites
  <2> QED
      BY <2>1, OneMore, Zenon
<1>2. Meant(name) \in [1..c -> T]
    BY DEF Meant
<1> HIDE DEF T, c
<1>3. Meant(name) \in Seq(T)
    BY <1>1, <1>2
<1> QED
    BY <1>3

\* A late write changes nothing of what is meant.
LEMMA LateWrite ==
    ASSUME NEW S, written \in Seq(S), Found, request' = request, NEW w,
           written' = Append(written, [write |-> w, late |-> TRUE])
    PROVE  /\ Found' /\ MeantStatus' = MeantStatus
           /\ \A name \in Names : Meant(name)' = Meant(name)
<1> DEFINE m == Len(written)
<1>1. /\ m \in Nat /\ DOMAIN written = 1..m /\ DOMAIN written' = 1..m + 1
      /\ Len(written') = m + 1
      /\ \A i \in 1..m : written'[i] = written[i]
      /\ written'[m + 1].late = TRUE
    OBVIOUS
<1>2. InTime' = InTime
  <2>1. \A i \in 1..m + 1 : i \in 1..m \/ i = m + 1
      BY <1>1
  <2>2. \A i \in 1..m : i \in 1..m + 1
      BY <1>1
  <2> HIDE DEF m
  <2> QED
      BY <1>1, <2>1, <2>2 DEF InTime
<1>3. \A i \in InTime : Wrote(i)' = Wrote(i) /\ SetsStatus(Wrote(i))' = SetsStatus(Wrote(i))
    BY <1>1, AmongWrites DEF Wrote, SetsStatus
<1>4. StatusWrites' = StatusWrites
    BY <1>2, <1>3 DEF StatusWrites
<1>5. MeantStatus' = MeantStatus
  <2>1. CASE StatusWrites = {}
      BY <1>4, <2>1 DEF MeantStatus
  <2>2. CASE StatusWrites # {}
    <3>1. Latest(StatusWrites) \in InTime /\ Latest(StatusWrites)' = Latest(StatusWrites)
        BY <1>4, <2>2, AmongWrites DEF Found
    <3>2. Wrote(Latest(StatusWrites))' = Wrote(Latest(StatusWrites))
        BY <1>3, <3>1
    <3>3. StatusOf(Wrote(Latest(StatusWrites)))' = StatusOf(Wrote(Latest(StatusWrites)))
        BY <3>2 DEF StatusOf
    <3> QED
        BY <1>4, <2>2, <3>3 DEF MeantStatus
  <2> QED
      BY <2>1, <2>2
<1>6. ASSUME NEW name \in Names
      PROVE  /\ LastDrop(name)' = LastDrop(name) /\ Kept(name)' = Kept(name)
             /\ Meant(name)' = Meant(name)
  <2>1. {i \in InTime' : Drops(Wrote(i)', name)} = {i \in InTime : Drops(Wrote(i), name)}
      BY <1>2, <1>3
  <2>2. LastDrop(name)' = LastDrop(name)
      BY <2>1 DEF LastDrop
  <2>3. Kept(name)' = Kept(name)
      BY <1>2, <1>3, <2>2 DEF Kept
  <2>4. \A n \in 1..Cardinality(Kept(name)) : Nth(Kept(name), n) \in InTime
      BY AmongWrites DEF Found
  <2>5. \A n \in 1..Cardinality(Kept(name)) :
            Wrote(Nth(Kept(name), n))' = Wrote(Nth(Kept(name), n))
    <3>1. \A n : Nth(Kept(name), n)' = Nth(Kept(name), n)
        BY <2>3
    <3> QED
        BY <1>3, <2>4, <3>1
  <2>6. Meant(name)' = Meant(name)
      BY <2>3, <2>5 DEF Meant
  <2> QED
      BY <2>2, <2>3, <2>6
<1>7. Found'
    BY <1>1, <1>4, <1>6 DEF Found
<1> QED
    BY <1>5, <1>6, <1>7

\* A write in time: it may replace a header, add to it, or leave it alone.
LEMMA WriteInTime ==
    ASSUME NEW S, written \in Seq(S), Found, request' = request, NEW w,
           written' = Append(written, [write |-> w, late |-> FALSE])
    PROVE  /\ Found'
           /\ MeantStatus' = IF SetsStatus(w) THEN {StatusOf(w)} ELSE MeantStatus
           /\ \A name \in Names :
                  Meant(name)' = IF Drops(w, name)
                                 THEN IF Into(w, name) THEN <<w.value>> ELSE <<>>
                                 ELSE IF Into(w, name) THEN Append(Meant(name), w.value)
                                 ELSE Meant(name)
<1> PICK m \in Nat : m = Len(written)
    OBVIOUS
<1>1. /\ DOMAIN written = 1..m /\ DOMAIN written' = 1..m + 1 /\ Len(written') = m + 1
      /\ \A i \in 1..m : written'[i] = written[i]
      /\ written'[m + 1].late = FALSE /\ written'[m + 1].write = w
    OBVIOUS
<1>2. PICK p \in Nat : p = m + 1 /\ p \notin 1..m /\ (\A i \in 1..m : i \in Nat /\ i < p)
                       /\ \A i : i \in 1..p <=> i \in 1..m \/ i = p
    OBVIOUS
<1>3. InTime' = InTime \cup {p} /\ p \notin InTime /\ InTime \subseteq 1..m
    BY <1>1, <1>2 DEF InTime
<1>4. /\ \A i \in InTime : Wrote(i)' = Wrote(i) /\ SetsStatus(Wrote(i))' = SetsStatus(Wrote(i))
      /\ written'[p].write = w /\ SetsStatus(w)' = SetsStatus(w)
    BY <1>1, <1>2, <1>3 DEF Wrote, SetsStatus
<1>5. /\ MeantStatus' = IF SetsStatus(w) THEN {StatusOf(w)} ELSE MeantStatus
      /\ StatusWrites' # {} => Latest(StatusWrites)' \in StatusWrites'
  <2>1. CASE SetsStatus(w)
    <3>1. StatusWrites' = StatusWrites \cup {p}
        BY <1>3, <1>4, <2>1 DEF StatusWrites, Wrote
    <3>2. Latest(StatusWrites)' = p
      <4>1. \A j \in StatusWrites \cup {p} : j \in Nat /\ j <= p
          BY <1>2, <1>3 DEF StatusWrites
      <4>2. PICK T : T = StatusWrites \cup {p}
          OBVIOUS
      <4>3. Latest(T) = p
          BY <4>1, <4>2, LatestIs
      <4> QED
          BY <3>1, <4>2, <4>3
    <3>3. StatusOf(Wrote(Latest(StatusWrites)))' = StatusOf(w)
        BY <1>4, <3>2 DEF StatusOf, Wrote
    <3> QED
        BY <2>1, <3>1, <3>2, <3>3 DEF MeantStatus
  <2>2. CASE ~SetsStatus(w)
    <3>1. StatusWrites' = StatusWrites
        BY <1>3, <1>4, <2>2 DEF StatusWrites, Wrote
    <3>2. CASE StatusWrites = {}
        BY <2>2, <3>1, <3>2 DEF MeantStatus
    <3>3. CASE StatusWrites # {}
      <4>1. Latest(StatusWrites) \in InTime /\ Latest(StatusWrites)' = Latest(StatusWrites)
          BY <3>1, <3>3, AmongWrites DEF Found
      <4>2. Wrote(Latest(StatusWrites))' = Wrote(Latest(StatusWrites))
          BY <1>4, <4>1
      <4>3. StatusOf(Wrote(Latest(StatusWrites)))' = StatusOf(Wrote(Latest(StatusWrites)))
          BY <4>2 DEF StatusOf
      <4> QED
          BY <2>2, <3>1, <3>3, <4>1, <4>3 DEF MeantStatus, Found
    <3> QED
        BY <3>2, <3>3
  <2> QED
      BY <2>1, <2>2
<1>6. ASSUME NEW name \in Names
      PROVE  /\ LastDrop(name)' \in 0..p
             /\ \A n \in 1..Cardinality(Kept(name)') : Nth(Kept(name)', n) \in Kept(name)'
             /\ Meant(name)' = IF Drops(w, name)
                               THEN IF Into(w, name) THEN <<w.value>> ELSE <<>>
                               ELSE IF Into(w, name) THEN Append(Meant(name), w.value)
                               ELSE Meant(name)
  <2> DEFINE D == {i \in InTime : Drops(Wrote(i), name)}
  <2>1. {i \in InTime' : Drops(Wrote(i)', name)} = IF Drops(w, name) THEN D \cup {p} ELSE D
      BY <1>3, <1>4 DEF Wrote
  <2>2. D \subseteq InTime
      OBVIOUS
  <2> HIDE DEF D
  <2>3. LastDrop(name) = Latest({0} \cup D)
      BY DEF LastDrop, D
  <2>4. CASE Drops(w, name)
    <3>1. LastDrop(name)' = p
      <4>1. PICK T : T = {0} \cup D \cup {p}
          OBVIOUS
      <4>2. LastDrop(name)' = Latest(T)
          BY <2>1, <2>4, <4>1 DEF LastDrop
      <4>3. \A j \in T : j \in Nat /\ j <= p
          BY <1>2, <1>3, <2>2, <4>1
      <4> QED
          BY <4>1, <4>2, <4>3, LatestIs
    <3>2. Kept(name)' = IF Into(w, name) THEN {p} ELSE {}
      <4>1. \A i \in InTime : ~(i >= p)
          BY <1>2, <1>3
      <4>2. p >= p
          BY <1>2
      <4> QED
          BY <1>3, <1>4, <3>1, <4>1, <4>2 DEF Kept, Wrote
    <3>3. CASE Into(w, name)
      <4>1. Kept(name)' = {} \cup {m + 1} /\ Cardinality({}) = 0
          BY <1>2, <3>2, <3>3, FS_EmptySet
      <4>2. Cardinality(Kept(name)') = 1 /\ Nth(Kept(name)', 1) = p
        <5>1. PICK K : K = {}
            OBVIOUS
        <5>2. /\ Cardinality(K \cup {m + 1}) = Cardinality(K) + 1
              /\ Nth(K \cup {m + 1}, Cardinality(K) + 1) = m + 1
          <6>1. K \subseteq 1..m
              BY <5>1
          <6>2. Follows(m + 1, K)
              BY <1>2, <6>1, OneMore, Zenon
          <6> QED
              BY <6>2, Zenon DEF Follows
        <5>3. Cardinality(K) = 0 /\ 0 + 1 = 1 /\ Kept(name)' = K \cup {m + 1}
            BY <4>1, <5>1
        <5> QED
            BY <1>2, <5>2, <5>3
      <4>3. Wrote(Nth(Kept(name), 1))' = w
          BY <1>4, <4>2 DEF Wrote
      <4>4. Meant(name)' = <<w.value>>
        <5>1. Meant(name)' = [n \in 1..1 |-> Wrote(Nth(Kept(name), n))'.value]
            BY <4>2 DEF Meant
        <5>2. Meant(name)' = [n \in 1..1 |-> w.value]
            BY <4>3, <5>1
        <5> QED
            BY <5>2
      <4> QED
          BY <1>2, <2>4, <3>1, <3>2, <3>3, <4>2, <4>4
    <3>4. CASE ~Into(w, name)
      <4>1. Kept(name)' = {} /\ Cardinality(Kept(name)') = 0
          BY <3>2, <3>4, FS_EmptySet
      <4>2. Meant(name)' = <<>>
          BY <4>1 DEF Meant
      <4> QED
          BY <1>2, <2>4, <3>1, <3>4, <4>1, <4>2
    <3> QED
        BY <3>3, <3>4
  <2>5. CASE ~Drops(w, name)
    <3>1. LastDrop(name)' = LastDrop(name) /\ LastDrop(name) \in 0..m
        BY <2>1, <2>3, <2>5 DEF LastDrop, Found
    <3>2. LastDrop(name) \in 0..p /\ p >= LastDrop(name)
        BY <1>2, <3>1
    <3>3. Kept(name)' = IF Into(w, name) THEN Kept(name) \cup {p} ELSE Kept(name)
        BY <1>3, <1>4, <3>1, <3>2 DEF Kept, Wrote
    <3> PICK c \in Nat : c = Cardinality(Kept(name))
      <4>1. Kept(name) \subseteq 1..m
          BY <1>3, AmongWrites
      <4> QED
          BY <1>2, <4>1, OneMore, Zenon
    <3>4. \A n \in 1..c : /\ Nth(Kept(name), n) \in Kept(name) /\ Nth(Kept(name), n) \in InTime
                          /\ Meant(name)[n] = Wrote(Nth(Kept(name), n)).value
        BY AmongWrites DEF Found, Meant
    <3>5. Meant(name) = [n \in 1..c |-> Meant(name)[n]]
        BY DEF Meant
    <3>6. CASE Into(w, name)
      <4>1. /\ Cardinality(Kept(name)') = c + 1
            /\ \A n \in 1..c : Nth(Kept(name)', n) = Nth(Kept(name), n)
            /\ Nth(Kept(name)', c + 1) = p
        <5>1. PICK K : K = Kept(name)
            OBVIOUS
        <5>2. K \subseteq 1..m /\ Kept(name)' = K \cup {m + 1} /\ Cardinality(K) = c
            BY <1>2, <1>3, <3>3, <3>6, <5>1, AmongWrites
        <5>3. Follows(m + 1, K)
            BY <1>2, <5>2, OneMore, Zenon
        <5>4. /\ Cardinality(Kept(name)') = c + 1
              /\ \A n \in 1..c : Nth(Kept(name)', n) = Nth(K, n)
              /\ Nth(Kept(name)', c + 1) = m + 1
            BY <5>2, <5>3 DEF Follows
        <5> QED
            BY <1>2, <5>1, <5>4
      <4>2. Meant(name)' = [n \in 1..c + 1 |-> Wrote(Nth(Kept(name), n))'.value]
          BY <4>1 DEF Meant
      <4>3. \A n \in 1..c : Wrote(Nth(Kept(name), n))'.value = Meant(name)[n]
          BY <1>4, <3>4, <4>1 DEF Wrote
      <4>4. Wrote(Nth(Kept(name), c + 1))'.value = w.value
          BY <1>4, <4>1 DEF Wrote
      <4>5. Meant(name)' = Append(Meant(name), w.value)
        <5> PICK T : Meant(name) \in Seq(T)
            BY MeantIsSequence
        <5>1. Len(Meant(name)) = c
            BY <3>5
        <5>2. \A n \in 1..c + 1 : n \in 1..c \/ n = c + 1
            OBVIOUS
        <5>3. Append(Meant(name), w.value)
                  = [n \in 1..c + 1 |-> IF n = c + 1 THEN w.value ELSE Meant(name)[n]]
            BY <5>1
        <5>4. \A n \in 1..c : n # c + 1
            OBVIOUS
        <5> QED
            BY <4>2, <4>3, <4>4, <5>2, <5>3, <5>4
      <4>6. \A n \in 1..c + 1 : Nth(Kept(name)', n) \in Kept(name)'
        <5>1. \A n \in 1..c + 1 : n \in 1..c \/ n = c + 1
            OBVIOUS
        <5> QED
            BY <3>3, <3>4, <3>6, <4>1, <5>1
      <4> QED
          BY <2>5, <3>1, <3>2, <3>6, <4>1, <4>5, <4>6
    <3>7. CASE ~Into(w, name)
      <4>1. Kept(name)' = Kept(name)
          BY <3>3, <3>7
      <4>2. Meant(name)' = [n \in 1..c |-> Wrote(Nth(Kept(name), n))'.value]
          BY <4>1 DEF Meant
      <4>3. \A n \in 1..c : Wrote(Nth(Kept(name), n))'.value = Meant(name)[n]
          BY <1>4, <3>4, <4>1 DEF Wrote
      <4> QED
          BY <2>5, <3>1, <3>2, <3>4, <3>5, <3>7, <4>1, <4>2, <4>3
    <3> QED
        BY <3>6, <3>7
  <2> QED
      BY <2>4, <2>5
<1>7. Found'
    BY <1>1, <1>2, <1>5, <1>6 DEF Found
<1> QED
    BY <1>5, <1>6, <1>7

\* Until there is an answer, the options are what the writes mean.
Gathered ==
    /\ options = Parts(options.status, [name \in Names |-> Meant(name)])
    /\ MeantStatus = IF options.status = NoStatus THEN {} ELSE {options.status}

\* Writes before the answer are in the options; the answer, once given, stands.
MergeInv ==
    /\ \E S : written \in Seq(S)
    /\ source \in Sources
    /\ Found
    /\ source.kind \notin {"ssr", "server_fn"} => written = <<>>
    /\ ~Answered => Gathered
    /\ Answered => WritesArriveOnce /\ RedirectsStayHome /\ FormsGoBack

\* Without a write nothing is meant.
LEMMA NothingMeant ==
    ASSUME written = <<>>
    PROVE  Found /\ MeantStatus = {} /\ \A name \in Names : Meant(name) = <<>>
<1>1. InTime = {}
    BY DEF InTime
<1>2. StatusWrites = {} /\ MeantStatus = {}
    BY <1>1 DEF StatusWrites, MeantStatus
<1>3. ASSUME NEW name \in Names
      PROVE  /\ LastDrop(name) = 0 /\ Meant(name) = <<>>
             /\ 1..Cardinality(Kept(name)) = {}
  <2>1. PICK T : T = {0}
      OBVIOUS
  <2>2. LastDrop(name) = Latest(T)
      BY <1>1, <2>1 DEF LastDrop
  <2>3. Latest(T) = 0
      BY <2>1, LatestIs
  <2>4. Kept(name) = {} /\ Cardinality(Kept(name)) = 0
      BY <1>1, FS_EmptySet DEF Kept
  <2>5. Meant(name) = <<>>
      BY <2>4 DEF Meant
  <2> QED
      BY <2>2, <2>3, <2>4, <2>5
<1> QED
    BY <1>2, <1>3 DEF Found

LEMMA MergeInitially == MergeInit => MergeInv
<1> SUFFICES ASSUME MergeInit PROVE MergeInv
    OBVIOUS
<1>1. /\ written = <<>> /\ source \in Sources /\ stage = "rendering" /\ options = NoResponse
    BY DEF MergeInit
<1>2. options.status = NoStatus /\ options = Parts(options.status, [name \in Names |-> <<>>])
    BY <1>1 DEF NoResponse, Parts, NoHeaders
<1>3. written \in Seq({})
    BY <1>1
<1> QED
    BY <1>1, <1>2, <1>3, NothingMeant DEF MergeInv, Gathered, Answered

\* A write to the options changes them as it changes what is meant.
LEMMA WriteKeeps ==
    ASSUME MergeInv, NEW w, NEW parts, Write(w, parts),
           SetsStatus(w) => StatusOf(w) # NoStatus,
           ~Answered =>
               parts = Parts(IF SetsStatus(w) THEN StatusOf(w) ELSE options.status,
                             [name \in Names |->
                                  IF Drops(w, name)
                                  THEN IF Into(w, name) THEN <<w.value>> ELSE <<>>
                                  ELSE IF Into(w, name)
                                       THEN Append(options.headers[name], w.value)
                                       ELSE options.headers[name]])
    PROVE  MergeInv'
<1>1. /\ source.kind \in {"ssr", "server_fn"} /\ options' = parts
      /\ written' = Append(written, [write |-> w, late |-> Answered])
      /\ UNCHANGED <<request, source, stage, response>>
    BY DEF Write, MayWrite, Answered
<1> PICK S : written \in Seq(S)
    BY DEF MergeInv
<1>2. \E T : written' \in Seq(T)
  <2>1. written' \in Seq(S \cup {[write |-> w, late |-> Answered]})
      BY <1>1
  <2> QED
      BY <2>1
<1>3. CASE ~Answered
  <2>1. written' = Append(written, [write |-> w, late |-> FALSE]) /\ Answered' = FALSE
      BY <1>1, <1>3 DEF Answered
  <2>2. /\ Found'
        /\ MeantStatus' = IF SetsStatus(w) THEN {StatusOf(w)} ELSE MeantStatus
        /\ \A name \in Names :
               Meant(name)' = IF Drops(w, name)
                              THEN IF Into(w, name) THEN <<w.value>> ELSE <<>>
                              ELSE IF Into(w, name) THEN Append(Meant(name), w.value)
                              ELSE Meant(name)
      BY <1>1, <2>1, WriteInTime DEF MergeInv
  <2>3. /\ \A name \in Names : options.headers[name] = Meant(name)
        /\ MeantStatus = IF options.status = NoStatus THEN {} ELSE {options.status}
    <3>1. options = Parts(options.status, [name \in Names |-> Meant(name)])
        BY <1>3 DEF MergeInv, Gathered
    <3>2. options.headers = [name \in Names |-> Meant(name)]
        BY <3>1 DEF Parts
    <3> QED
        BY <1>3, <3>2 DEF MergeInv, Gathered
  <2>4. /\ options'.status = IF SetsStatus(w) THEN StatusOf(w) ELSE options.status
        /\ options' = Parts(options'.status, [name \in Names |-> Meant(name)'])
    <3> DEFINE status == IF SetsStatus(w) THEN StatusOf(w) ELSE options.status
               headers == [name \in Names |->
                               IF Drops(w, name)
                               THEN IF Into(w, name) THEN <<w.value>> ELSE <<>>
                               ELSE IF Into(w, name)
                                    THEN Append(options.headers[name], w.value)
                                    ELSE options.headers[name]]
    <3>1. options' = Parts(status, headers)
        BY <1>1, <1>3
    <3>2. headers = [name \in Names |-> Meant(name)']
        BY <2>2, <2>3
    <3> HIDE DEF status, headers
    <3>3. options'.status = status
        BY <3>1 DEF Parts
    <3> QED
        BY <3>1, <3>2, <3>3 DEF status
  <2>5. Gathered'
      BY <2>2, <2>3, <2>4 DEF Gathered
  <2> QED
      BY <1>1, <1>2, <2>1, <2>2, <2>5 DEF MergeInv
<1>4. CASE Answered
  <2>1. written' = Append(written, [write |-> w, late |-> TRUE]) /\ Answered'
      BY <1>1, <1>4 DEF Answered
  <2>2. /\ Found' /\ MeantStatus' = MeantStatus
        /\ \A name \in Names : Meant(name)' = Meant(name)
      BY <1>1, <2>1, LateWrite DEF MergeInv
  <2>3. WritesArriveOnce /\ RedirectsStayHome /\ FormsGoBack
      BY <1>4 DEF MergeInv
  <2>4. WritesArriveOnce'
      BY <1>1, <1>4, <2>2, <2>3 DEF WritesArriveOnce, OwnCookies, Names
  <2>5. RedirectsStayHome'
      BY <1>1, <1>4, <2>2, <2>3 DEF RedirectsStayHome, Names
  <2>6. FormsGoBack'
    <3>1. UNCHANGED <<request, source, response>>
        BY <1>1, <1>4
    <3>2. Mirrored(request)' = Mirrored(request) /\ \A t : Sanitized(t)' = Sanitized(t)
        BY <3>1 DEF Mirrored, Sanitized
    <3>3. Meant("Location")' = Meant("Location")
        BY <2>2 DEF Names
    <3> QED
        BY <1>4, <2>1, <2>2, <2>3, <3>1, <3>2, <3>3 DEF FormsGoBack
  <2> QED
      BY <1>1, <1>2, <2>1, <2>2, <2>4, <2>5, <2>6 DEF MergeInv
<1> QED
    BY <1>3, <1>4

\* One header of a response is exchanged.
LEMMA HeaderPut ==
    ASSUME NEW o, o = [status |-> o.status, headers |-> o.headers],
           o.headers = [name \in Names |-> o.headers[name]], NEW n \in Names, NEW x
    PROVE  [o EXCEPT !.headers[n] = x]
               = [status |-> o.status,
                  headers |-> [name \in Names |-> IF name = n THEN x ELSE o.headers[name]]]
    OBVIOUS

LEMMA AppWritesKeep == MergeInv /\ AppWrites => MergeInv'
<1> SUFFICES ASSUME MergeInv, AppWrites PROVE MergeInv'
    OBVIOUS
<1> DEFINE Puts(w, name) ==
               IF Drops(w, name)
               THEN IF Into(w, name) THEN <<w.value>> ELSE <<>>
               ELSE IF Into(w, name)
                    THEN Append(options.headers[name], w.value)
                    ELSE options.headers[name]
           Then(w) == Parts(IF SetsStatus(w) THEN StatusOf(w) ELSE options.status,
                            [name \in Names |-> Puts(w, name)])
<1>1. ~Answered => /\ options = [status |-> options.status, headers |-> options.headers]
                   /\ options.headers = [name \in Names |-> options.headers[name]]
  <2> SUFFICES ASSUME ~Answered
               PROVE  /\ options = [status |-> options.status, headers |-> options.headers]
                      /\ options.headers = [name \in Names |-> options.headers[name]]
      OBVIOUS
  <2>1. options = [status |-> options.status, headers |-> [name \in Names |-> Meant(name)]]
      BY DEF MergeInv, Gathered, Parts
  <2>2. options.headers = [name \in Names |-> Meant(name)]
      BY <2>1
  <2> QED
      BY <2>1, <2>2
<1>2. \A s \in Statuses \cup {302, 400} : s # NoStatus
    BY StatusesAssumption DEF NoStatus
<1>3. ASSUME NEW s \in Statuses \cup {400}, NEW w, w = [op |-> "status", status |-> s],
             Write(w, [options EXCEPT !.status = s])
      PROVE  MergeInv'
  <2>1. SetsStatus(w) /\ StatusOf(w) = s /\ \A name : ~Into(w, name) /\ ~Drops(w, name)
      BY <1>3 DEF SetsStatus, StatusOf, Into, Drops
  <2>2. ~Answered => [options EXCEPT !.status = s] = Then(w)
      BY <1>1, <2>1 DEF Parts
  <2> QED
      BY <1>2, <1>3, <2>1, <2>2, WriteKeeps
<1>4. ASSUME NEW n \in Names, NEW v, InsertHeader(n, v) PROVE MergeInv'
  <2> PICK w : w = [op |-> "insert", name |-> n, value |-> v]
      OBVIOUS
  <2>1. /\ ~SetsStatus(w) /\ w.value = v
        /\ \A name : (Into(w, name) <=> name = n) /\ (Drops(w, name) <=> name = n)
      BY DEF SetsStatus, Into, Drops
  <2>2. ~Answered => [options EXCEPT !.headers[n] = <<v>>] = Then(w)
      BY <1>1, <2>1 DEF Parts
  <2>3. Write(w, [options EXCEPT !.headers[n] = <<v>>])
      BY <1>4 DEF InsertHeader
  <2> QED
      BY <2>1, <2>2, <2>3, WriteKeeps
<1>5. ASSUME NEW n \in Names, NEW v, AppendHeader(n, v) PROVE MergeInv'
  <2> PICK w : w = [op |-> "append", name |-> n, value |-> v]
      OBVIOUS
  <2>1. /\ ~SetsStatus(w) /\ w.value = v
        /\ \A name : (Into(w, name) <=> name = n) /\ ~Drops(w, name)
      BY DEF SetsStatus, Into, Drops
  <2>2. ~Answered => [options EXCEPT !.headers[n] = Append(@, v)] = Then(w)
    <3> SUFFICES ASSUME ~Answered
                 PROVE  [options EXCEPT !.headers[n] = Append(@, v)] = Then(w)
        OBVIOUS
    <3> PICK x : x = Append(options.headers[n], v)
        OBVIOUS
    <3>1. [name \in Names |-> IF name = n THEN x ELSE options.headers[name]]
              = [name \in Names |-> Puts(w, name)]
        BY <2>1
    <3>2. [options EXCEPT !.headers[n] = x]
              = [status |-> options.status,
                 headers |-> [name \in Names |-> IF name = n THEN x ELSE options.headers[name]]]
      <4>1. /\ options = [status |-> options.status, headers |-> options.headers]
            /\ options.headers = [name \in Names |-> options.headers[name]]
          BY <1>1
      <4> QED
          BY ONLY <4>1, n \in Names
    <3>3. [options EXCEPT !.headers[n] = x] = Then(w)
        BY <2>1, <3>1, <3>2 DEF Parts
    <3> QED
        BY <3>3
  <2>3. Write(w, [options EXCEPT !.headers[n] = Append(@, v)])
      BY <1>5 DEF AppendHeader
  <2> QED
      BY <2>1, <2>2, <2>3, WriteKeeps
<1>6. ASSUME NEW s \in Statuses, NEW n \in Names, NEW v, Overwrite(s, n, v) PROVE MergeInv'
  <2> PICK w : w = [op |-> "overwrite", status |-> s, name |-> n, value |-> v]
      OBVIOUS
  <2>1. /\ SetsStatus(w) /\ StatusOf(w) = s /\ w.value = v
        /\ \A name : (Into(w, name) <=> name = n) /\ Drops(w, name)
      BY DEF SetsStatus, StatusOf, Into, Drops
  <2>2. Parts(s, [NoHeaders EXCEPT ![n] = <<v>>]) = Then(w)
      BY <2>1 DEF Parts, NoHeaders
  <2>3. Write(w, Parts(s, [NoHeaders EXCEPT ![n] = <<v>>]))
      BY <1>6 DEF Overwrite
  <2> QED
      BY <1>2, <2>1, <2>2, <2>3, WriteKeeps
<1>7. ASSUME NEW t \in Targets, Redirect(t) PROVE MergeInv'
  <2> PICK w : w = [op |-> "redirect", value |-> t]
      OBVIOUS
  <2> DEFINE parts == Parts(IF request.html THEN 302 ELSE options.status,
                            [options.headers EXCEPT !["Location"] = <<t>>])
  <2>1. /\ SetsStatus(w) <=> request.html
        /\ StatusOf(w) = 302 /\ w.value = t
        /\ \A name : (Into(w, name) <=> name = "Location") /\ (Drops(w, name) <=> name = "Location")
      BY DEF SetsStatus, StatusOf, Into, Drops
  <2>2. ~Answered => parts = Then(w)
    <3> SUFFICES ASSUME ~Answered PROVE parts = Then(w)
        OBVIOUS
    <3>1. [options.headers EXCEPT !["Location"] = <<t>>] = [name \in Names |-> Puts(w, name)]
        BY <1>1, <2>1
    <3> QED
        BY <2>1, <3>1
  <2>3. Write(w, parts)
      BY <1>7 DEF Redirect
  <2> QED
      BY <1>2, <2>1, <2>2, <2>3, WriteKeeps
<1>8. \A s \in Statuses \cup {400} :
          Write([op |-> "status", status |-> s], [options EXCEPT !.status = s]) => MergeInv'
    BY <1>3
<1>9. "Set-Cookie" \in Names
    BY DEF Names
<1> HIDE DEF Puts, Then
<1>10. CASE \E s \in Statuses : SetStatus(s)
    BY <1>8, <1>10 DEF SetStatus
<1>11. CASE \E name \in Names : \E v \in ValuesOf(name) :
                InsertHeader(name, v) \/ AppendHeader(name, v)
  <2> PICK n \in Names : \E v \in ValuesOf(n) : InsertHeader(n, v) \/ AppendHeader(n, v)
      BY <1>11
  <2> PICK v \in ValuesOf(n) : InsertHeader(n, v) \/ AppendHeader(n, v)
      OBVIOUS
  <2> QED
      BY <1>4, <1>5
<1>12. CASE \E v \in Values : \E s \in Statuses : Overwrite(s, "Set-Cookie", v)
    BY <1>6, <1>9, <1>12
<1>13. CASE \E t \in Targets : Redirect(t)
    BY <1>7, <1>13
<1>14. CASE RedirectInvalid
    BY <1>8, <1>14 DEF RedirectInvalid
<1> QED
    BY <1>10, <1>11, <1>12, <1>13, <1>14 DEF AppWrites

\* A record of a status and a list of values for each name.
Shaped(own) == own = Parts(own.status, [name \in Names |-> own.headers[name]])

\* Each stage of an answer in terms of the one before: options are merged into
\* it, or it is given a value v under name n where it has nothing.
HasDefault(new, own, n, v) ==
    /\ Shaped(new) /\ new.status = own.status
    /\ \A name \in Names :
           new.headers[name] = IF name = n /\ own.headers[n] = <<>> THEN <<v>>
                               ELSE own.headers[name]

LEMMA DefaultsAre ==
    ASSUME NEW own, Shaped(own), NEW n \in Names, NEW v
    PROVE  HasDefault(Defaulted(own, n, v), own, n, v)
<1>1. /\ own = [status |-> own.status, headers |-> own.headers]
      /\ own.headers = [name \in Names |-> own.headers[name]]
  <2>1. own = [status |-> own.status, headers |-> [name \in Names |-> own.headers[name]]]
      BY DEF Shaped, Parts
  <2> QED
      BY <2>1
<1>2. CASE own.headers[n] = <<>>
  <2>1. Defaulted(own, n, v) = [own EXCEPT !.headers[n] = <<v>>]
      BY <1>2 DEF Defaulted
  <2>2. Defaulted(own, n, v)
            = [status |-> own.status,
               headers |-> [name \in Names |-> IF name = n THEN <<v>> ELSE own.headers[name]]]
      BY <1>1, <2>1
  <2> QED
      BY <1>2, <2>2 DEF HasDefault, Shaped, Parts
<1>3. CASE own.headers[n] # <<>>
    BY <1>3 DEF Defaulted, HasDefault
<1> QED
    BY <1>2, <1>3

LEMMA MergesAre ==
    ASSUME NEW own, Shaped(own), NEW opts
    PROVE  /\ Shaped(Merged(own, opts))
           /\ Merged(own, opts).status
                  = IF opts.status # NoStatus THEN opts.status ELSE own.status
           /\ \A name \in Names :
                  Merged(own, opts).headers[name]
                      = MergedHeader(name, own.headers[name], opts.headers[name])
    BY DEF Merged, Shaped, Parts

\* The two defaults of an answer: its type, and that the type is not guessed.
LEMMA TypedIs ==
    ASSUME NEW own, Shaped(own)
    PROVE  HasDefault(WithType(own), own, "Content-Type", "default")
<1>1. WithType(own) = Defaulted(own, "Content-Type", "default")
    BY DEF WithType
<1>2. "Content-Type" \in Names
    BY DEF Names
<1> QED
    BY <1>1, <1>2, DefaultsAre

LEMMA CompletedIs ==
    ASSUME NEW own, Shaped(own)
    PROVE  HasDefault(Completed(own), own, "X-Content-Type-Options", "default")
<1>1. Completed(own) = Defaulted(own, "X-Content-Type-Options", "default")
    BY DEF Completed
<1>2. "X-Content-Type-Options" \in Names
    BY DEF Names
<1> QED
    BY <1>1, <1>2, DefaultsAre

\* What does not write means what it meant.
LEMMA SameMeant ==
    ASSUME UNCHANGED <<written, request>>
    PROVE  /\ Found' <=> Found
           /\ MeantStatus' = MeantStatus
           /\ \A name : Meant(name)' = Meant(name)
    BY DEF Found, MeantStatus, Meant, Kept, LastDrop, InTime, StatusWrites, SetsStatus, Wrote

\* The response that a merge makes of another one.
LEMMA MergeTells ==
    ASSUME MergeInv, ~Answered, NEW own, Shaped(own)
    PROVE  /\ Shaped(Completed(Merged(own, options)))
           /\ IF MeantStatus = {} THEN Completed(Merged(own, options)).status = own.status
              ELSE Completed(Merged(own, options)).status \in MeantStatus
           /\ \A name \in Names :
                  (Meant(name) # <<>> \/ name # "X-Content-Type-Options") =>
                      Completed(Merged(own, options)).headers[name]
                          = MergedHeader(name, own.headers[name], Meant(name))
<1>1. /\ \A name \in Names : options.headers[name] = Meant(name)
      /\ MeantStatus = IF options.status = NoStatus THEN {} ELSE {options.status}
  <2>1. options = Parts(options.status, [name \in Names |-> Meant(name)])
      BY DEF MergeInv, Gathered
  <2>2. options.headers = [name \in Names |-> Meant(name)]
      BY <2>1 DEF Parts
  <2> QED
      BY <2>2 DEF MergeInv, Gathered
<1> PICK m : m = Merged(own, options)
    OBVIOUS
<1>2. /\ Shaped(m) /\ m.status = IF options.status # NoStatus THEN options.status ELSE own.status
      /\ \A name \in Names : m.headers[name] = MergedHeader(name, own.headers[name], Meant(name))
    BY <1>1, MergesAre
<1>3. "X-Content-Type-Options" \in Names /\ "X-Content-Type-Options" \notin ListValued
    BY DEF Names, ListValued
<1>4. /\ Shaped(Completed(m)) /\ Completed(m).status = m.status
      /\ \A name \in Names :
             Completed(m).headers[name]
                 = IF name = "X-Content-Type-Options" /\ m.headers["X-Content-Type-Options"] = <<>>
                   THEN <<"default">> ELSE m.headers[name]
  <2>1. HasDefault(Completed(m), m, "X-Content-Type-Options", "default")
      BY <1>2, CompletedIs
  <2> QED
      BY <2>1 DEF HasDefault
<1>5. Meant("X-Content-Type-Options") # <<>> => m.headers["X-Content-Type-Options"] # <<>>
  <2>1. \A x : <<x>> # <<>>
      OBVIOUS
  <2> QED
      BY <1>2, <1>3, <2>1 DEF MergedHeader
<1> QED
    BY <1>1, <1>2, <1>4, <1>5

\* The responses of sources.
LEMMA SourcesAre ==
    ASSUME source \in Sources
    PROVE  /\ source.kind \in {"ssr", "server_fn", "preset", "not_found"}
           /\ source.kind \in {"server_fn", "preset"} =>
                  /\ Shaped(source.own) /\ source.own.status \in Nat
                  /\ source.own.headers["Set-Cookie"] \in {<<>>, <<"own">>}
           /\ source.kind = "server_fn" =>
                  source.own.status \in 200..599
           /\ source.kind = "preset" => source.own.headers["Set-Cookie"] = <<>>
<1>1. /\ Shaped(Parts(413, NoHeaders)) /\ Shaped(Parts(200, NoHeaders))
      /\ Shaped(Parts(405, NoHeaders))
      /\ \A s : Parts(s, NoHeaders).status = s /\ Parts(s, NoHeaders).headers = NoHeaders
      /\ NoHeaders["Set-Cookie"] = <<>>
    BY DEF Parts, Shaped, NoHeaders, Names
<1>2. ASSUME NEW s \in Statuses, NEW l \in Locations
      PROVE  /\ Shaped(Parts(s, Headers(l, <<"own">>)))
             /\ Parts(s, Headers(l, <<"own">>)).status \in 200..599
             /\ Parts(s, Headers(l, <<"own">>)).headers["Set-Cookie"] = <<"own">>
  <2>1. Headers(l, <<"own">>)
            = [name \in Names |-> IF name = "Set-Cookie" THEN <<"own">>
                                  ELSE IF name = "Location" THEN l ELSE <<>>]
      BY DEF Headers, NoHeaders, Names
  <2>2. "Set-Cookie" \in Names /\ "Location" \in Names /\ "Set-Cookie" # "Location"
      BY DEF Names
  <2>3. s \in 200..599
      BY StatusesAssumption
  <2> QED
      BY <2>1, <2>2, <2>3 DEF Parts, Shaped
<1> DEFINE rendered == [kind : {"ssr"}, mode : SsrModes \ {"Static"}]
           called == [kind : {"server_fn"},
                      own : {Parts(s, Headers(l, <<"own">>)) : s \in Statuses, l \in Locations}
                            \cup {Parts(413, NoHeaders)}]
           preset == [kind : {"preset"}, own : {Parts(200, NoHeaders), Parts(405, NoHeaders)}]
           missing == [kind : {"not_found"}]
<1>3. CASE source \in rendered
  <2>1. source.kind = "ssr"
      BY <1>3
  <2> QED
      BY <2>1
<1>4. CASE source \in called
  <2>1. source.kind = "server_fn"
        /\ (source.own = Parts(413, NoHeaders)
            \/ \E s \in Statuses, l \in Locations : source.own = Parts(s, Headers(l, <<"own">>)))
      BY <1>4
  <2>2. CASE source.own = Parts(413, NoHeaders)
    <3>1. /\ Shaped(source.own) /\ source.own.status = 413
          /\ source.own.headers["Set-Cookie"] = <<>>
        BY <1>1, <2>2
    <3> QED
        BY <2>1, <3>1
  <2>3. ASSUME NEW s \in Statuses, NEW l \in Locations, source.own = Parts(s, Headers(l, <<"own">>))
        PROVE  /\ Shaped(source.own) /\ source.own.status \in 200..599
               /\ source.own.headers["Set-Cookie"] = <<"own">>
      BY <1>2, <2>3
  <2>4. CASE \E s \in Statuses, l \in Locations : source.own = Parts(s, Headers(l, <<"own">>))
    <3>1. /\ Shaped(source.own) /\ source.own.status \in 200..599
          /\ source.own.headers["Set-Cookie"] = <<"own">>
        BY <2>3, <2>4
    <3>2. source.own.status \in Nat
        BY <3>1
    <3> QED
        BY <2>1, <3>1, <3>2
  <2> QED
      BY <2>1, <2>2, <2>4
<1>5. CASE source \in preset
    BY <1>1, <1>5
<1>6. CASE source \in missing
  <2>1. source.kind = "not_found"
      BY <1>6
  <2> QED
      BY <2>1
<1>7. Sources = rendered \cup called \cup preset \cup missing
    BY DEF Sources
<1> HIDE DEF rendered, called, preset, missing
<1>8. source \in rendered \/ source \in called \/ source \in preset \/ source \in missing
    BY <1>7
<1> QED
    BY <1>3, <1>4, <1>5, <1>6, <1>8

\* A status from 400 on is neither a success nor a redirect.
LEMMA StatusFails ==
    ASSUME NEW n \in 200..599
    PROVE  /\ n >= 400 <=> ~(Success(n) \/ Redirection(n))
           /\ n < 400 <=> ~(n >= 400)
    BY DEF Success, Redirection

\* What the redirect policy makes of the response of a server function.
Polished(r, own, a) ==
    /\ Shaped(a) /\ a.headers["Set-Cookie"] = own.headers["Set-Cookie"]
    /\ Redirection(a.status) /\ a.headers["Location"] # <<>> =>
           Head(a.headers["Location"]) \notin {"remote", "broken"}
    /\ own.status >= 400 => a.status = own.status
    /\ r.html /\ own.status < 400 /\ Mirrored(r) # {} /\ own.headers["Location"] = <<>> =>
           a.status = 302 /\ \E t \in Mirrored(r) : a.headers["Location"] = <<Sanitized(t)>>

LEMMA AppliedIs ==
    ASSUME NEW own, Shaped(own), own.status \in 200..599, NEW r
    PROVE  Polished(r, own, RedirectApplied(r, own))
<1> PICK a : a = RedirectApplied(r, own)
    OBVIOUS
<1>1. /\ own = [status |-> own.status, headers |-> own.headers]
      /\ own.headers = [name \in Names |-> own.headers[name]]
      /\ "Location" \in Names /\ "Set-Cookie" \in Names /\ "Location" # "Set-Cookie"
  <2>1. own = [status |-> own.status, headers |-> [name \in Names |-> own.headers[name]]]
      BY DEF Shaped, Parts
  <2>2. own.headers = [name \in Names |-> own.headers[name]]
      BY <2>1
  <2> QED
      BY <2>1, <2>2 DEF Names
<1>2. \A t : Sanitized(t) \in {"local", "path of remote", "/"}
    BY DEF Sanitized
<1>3. /\ own.status >= 400 <=> ~(Success(own.status) \/ Redirection(own.status))
      /\ own.status < 400 <=> ~(own.status >= 400)
  <2>1. \A n \in 200..599 : /\ n >= 400 <=> ~(Success(n) \/ Redirection(n))
                            /\ n < 400 <=> ~(n >= 400)
      BY StatusFails
  <2> QED
      BY ONLY <2>1, own.status \in 200..599
<1> DEFINE Place(x) == /\ <<x>> # <<>> /\ Head(<<x>>) \notin {"remote", "broken"}
<1>7. \A t : Place(Sanitized(t))
  <2>1. ASSUME NEW x, x \in {"local", "path of remote", "/"} PROVE Place(x)
    <3>1. Head(<<x>>) = x
        OBVIOUS
    <3>2. <<x>> # <<>>
        OBVIOUS
    <3> QED
        BY <2>1, <3>1, <3>2
  <2> HIDE DEF Place
  <2> QED
      BY <1>2, <2>1
<1>4. CASE Promoted(r, own)
  <2> PICK x : x = Sanitized(CHOOSE t \in Mirrored(r) : TRUE)
      OBVIOUS
  <2>1. a = Parts(302, [name \in Names |-> IF name = "Location" THEN <<x>> ELSE own.headers[name]])
      BY <1>1, <1>4 DEF RedirectApplied
  <2>2. /\ Shaped(a) /\ a.headers["Set-Cookie"] = own.headers["Set-Cookie"]
        /\ a.status = 302 /\ a.headers["Location"] = <<x>>
      BY <1>1, <2>1 DEF Shaped, Parts
  <2>3. <<x>> # <<>> /\ Head(<<x>>) \notin {"remote", "broken"}
      BY <1>7
  <2>4. ~(own.status >= 400)
      BY <1>3, <1>4 DEF Promoted
  <2>5. \E t \in Mirrored(r) : a.headers["Location"] = <<Sanitized(t)>>
      BY <1>4, <2>2 DEF Promoted
  <2> QED
      BY <2>2, <2>3, <2>4, <2>5 DEF Polished
<1>5. CASE ~Promoted(r, own) /\ Redirection(own.status) /\ own.headers["Location"] # <<>>
  <2> PICK x : x = Sanitized(Head(own.headers["Location"]))
      OBVIOUS
  <2>1. a = [own EXCEPT !.headers["Location"] = <<x>>]
      BY <1>5 DEF RedirectApplied
  <2>2. a = [status |-> own.status,
             headers |-> [name \in Names |-> IF name = "Location" THEN <<x>> ELSE own.headers[name]]]
      BY <1>1, <2>1, HeaderPut
  <2>3. /\ Shaped(a) /\ a.headers["Set-Cookie"] = own.headers["Set-Cookie"]
        /\ a.status = own.status /\ a.headers["Location"] = <<x>>
      BY <1>1, <2>2 DEF Shaped, Parts
  <2>4. Head(<<x>>) \notin {"remote", "broken"}
      BY <1>7
  <2> QED
      BY <1>5, <2>3, <2>4 DEF Polished
<1>6. CASE ~Promoted(r, own) /\ ~(Redirection(own.status) /\ own.headers["Location"] # <<>>)
  <2>1. a = own
      BY <1>6 DEF RedirectApplied
  <2>2. ~(r.html /\ own.status < 400 /\ Mirrored(r) # {} /\ own.headers["Location"] = <<>>)
      BY <1>3, <1>6 DEF Promoted
  <2> QED
      BY <1>6, <2>1, <2>2 DEF Polished
<1> QED
    BY <1>4, <1>5, <1>6

\* A response has what was meant if it is made from another one by a merge.
LEMMA MergedArrives ==
    ASSUME MergeInv, ~Answered, UNCHANGED <<request, source, written>>, Answered',
           NEW own, own.headers["Set-Cookie"] = OwnCookies, OwnCookies \in {<<>>, <<"own">>},
           IF MeantStatus = {} THEN response'.status = own.status
           ELSE response'.status \in MeantStatus,
           \A name \in Names :
               (Meant(name) # <<>> \/ name \in {"Set-Cookie", "Location"}) =>
                   response'.headers[name] = MergedHeader(name, own.headers[name], Meant(name))
    PROVE  WritesArriveOnce'
<1>1. /\ MeantStatus' = MeantStatus /\ OwnCookies' = OwnCookies
      /\ \A name : Meant(name)' = Meant(name)
    BY SameMeant DEF OwnCookies
<1>2. response'.headers["Set-Cookie"] = OwnCookies \o Meant("Set-Cookie")
  <2>1. OwnCookies \o <<>> = OwnCookies
      OBVIOUS
  <2> QED
      BY <2>1 DEF MergedHeader, ListValued, Names
<1>3. ASSUME NEW name \in Names \ ListValued, Meant(name) # <<>>
      PROVE  response'.headers[name] = <<Last(Meant(name))>>
    BY <1>3 DEF MergedHeader
<1> QED
    BY <1>1, <1>2, <1>3 DEF WritesArriveOnce

\* What answers other than by a server function has two of the properties.
LEMMA OtherAnswers ==
    ASSUME source.kind # "server_fn", source' = source
    PROVE  RedirectsStayHome' /\ FormsGoBack'
    BY DEF RedirectsStayHome, FormsGoBack

\* It is enough that an answer has the properties.
LEMMA AnswerKeeps ==
    ASSUME MergeInv, UNCHANGED <<request, source, written>>, Answered',
           WritesArriveOnce', RedirectsStayHome', FormsGoBack'
    PROVE  MergeInv'
    BY SameMeant DEF MergeInv

LEMMA FirstChunkKeeps == MergeInv /\ FirstChunk => MergeInv'
<1> SUFFICES ASSUME MergeInv, FirstChunk PROVE MergeInv'
    OBVIOUS
<1> DEFINE start == Parts(200, NoHeaders)
           merged == Merged(start, options)
           first == WithType(merged)
           again == Merged(first, Taken(options))
<1>1. /\ source.kind = "ssr" /\ ~Answered /\ Answered' /\ response' = Completed(again)
      /\ UNCHANGED <<request, source, written>>
  <2>1. stage' \in {"sent", "streaming"}
      BY DEF FirstChunk, Answer
  <2> QED
      BY <2>1 DEF FirstChunk, Answer, Answered
<1>2. Shaped(start) /\ start.status = 200 /\ \A name \in Names : start.headers[name] = <<>>
    BY DEF Parts, Shaped, NoHeaders
<1>3. /\ \A name \in Names : options.headers[name] = Meant(name)
      /\ MeantStatus = IF options.status = NoStatus THEN {} ELSE {options.status}
      /\ Taken(options).status = options.status
      /\ \A name \in Names : Taken(options).headers[name] = <<>>
  <2>1. options = [status |-> options.status, headers |-> [name \in Names |-> Meant(name)]]
      BY <1>1 DEF MergeInv, Gathered, Parts
  <2>2. Taken(options) = [status |-> options.status, headers |-> [name \in Names |-> <<>>]]
      BY <2>1 DEF Taken, NoHeaders
  <2>3. options.headers = [name \in Names |-> Meant(name)]
      BY <2>1
  <2> QED
      BY <1>1, <2>2, <2>3 DEF MergeInv, Gathered
<1> HIDE DEF start
<1>4. /\ Shaped(merged)
      /\ merged.status = IF options.status # NoStatus THEN options.status ELSE 200
      /\ \A name \in Names : merged.headers[name] = MergedHeader(name, <<>>, Meant(name))
    BY <1>2, <1>3, MergesAre
<1> HIDE DEF merged
<1>5. "Content-Type" \in Names /\ "X-Content-Type-Options" \in Names
      /\ "Content-Type" \notin ListValued /\ "X-Content-Type-Options" \notin ListValued
      /\ "Set-Cookie" \in Names /\ "Location" \in Names
    BY DEF Names, ListValued
<1>6. /\ Shaped(first) /\ first.status = merged.status
      /\ \A name \in Names :
             first.headers[name] = IF name = "Content-Type" /\ merged.headers["Content-Type"] = <<>>
                                   THEN <<"default">> ELSE merged.headers[name]
  <2>1. HasDefault(first, merged, "Content-Type", "default")
      BY <1>4, TypedIs
  <2> HIDE DEF first
  <2> QED
      BY <2>1 DEF HasDefault
<1> HIDE DEF first
<1>7. /\ Shaped(again)
      /\ again.status = IF options.status # NoStatus THEN options.status ELSE first.status
      /\ \A name \in Names : again.headers[name] = first.headers[name]
  <2> PICK rest : rest = Taken(options)
      OBVIOUS
  <2>1. again = Merged(first, rest)
      OBVIOUS
  <2>2. /\ Shaped(Merged(first, rest))
        /\ Merged(first, rest).status
               = IF rest.status # NoStatus THEN rest.status ELSE first.status
        /\ \A name \in Names :
               Merged(first, rest).headers[name]
                   = MergedHeader(name, first.headers[name], rest.headers[name])
      BY <1>6, MergesAre
  <2>3. \A name \in Names : MergedHeader(name, first.headers[name], <<>>) = first.headers[name]
      BY DEF MergedHeader
  <2> HIDE DEF again
  <2> QED
      BY <1>3, <2>1, <2>2, <2>3
<1> HIDE DEF again
<1>8. /\ response'.status = again.status
      /\ \A name \in Names :
             response'.headers[name]
                 = IF name = "X-Content-Type-Options" /\ again.headers["X-Content-Type-Options"] = <<>>
                   THEN <<"default">> ELSE again.headers[name]
  <2>1. HasDefault(response', again, "X-Content-Type-Options", "default")
      BY <1>1, <1>7, CompletedIs
  <2> QED
      BY <2>1 DEF HasDefault
<1>9. \A name \in Names \ ListValued :
          Meant(name) # <<>> => MergedHeader(name, <<>>, Meant(name)) # <<>>
  <2>1. \A x : <<x>> # <<>>
      OBVIOUS
  <2> QED
      BY <2>1 DEF MergedHeader
<1>10. ASSUME NEW name \in Names, Meant(name) # <<>> \/ name \in {"Set-Cookie", "Location"}
       PROVE  response'.headers[name] = MergedHeader(name, start.headers[name], Meant(name))
  <2>1. first.headers[name] = merged.headers[name]
      BY <1>4, <1>5, <1>6, <1>9, <1>10
  <2>2. response'.headers[name] = again.headers[name]
    <3>1. CASE name = "X-Content-Type-Options"
      <4>1. again.headers[name] # <<>>
          BY <1>4, <1>5, <1>7, <1>9, <1>10, <2>1, <3>1
      <4> QED
          BY <1>8, <3>1, <4>1
    <3>2. CASE name # "X-Content-Type-Options"
        BY <1>8, <3>2
    <3> QED
        BY <3>1, <3>2
  <2> QED
      BY <1>2, <1>4, <1>7, <2>1, <2>2
<1>11. IF MeantStatus = {} THEN response'.status = start.status
       ELSE response'.status \in MeantStatus
    BY <1>2, <1>3, <1>4, <1>6, <1>7, <1>8
<1>12. start.headers["Set-Cookie"] = OwnCookies /\ OwnCookies \in {<<>>, <<"own">>}
    BY <1>1, <1>2, <1>5 DEF OwnCookies
<1>13. WritesArriveOnce'
    BY <1>1, <1>10, <1>11, <1>12, MergedArrives
<1> QED
    BY <1>1, <1>13, AnswerKeeps, OtherAnswers

LEMMA ServerFnKeeps == MergeInv /\ ServerFnReturns => MergeInv'
<1> SUFFICES ASSUME MergeInv, ServerFnReturns PROVE MergeInv'
    OBVIOUS
<1> PICK a : a = RedirectApplied(request, source.own)
    OBVIOUS
<1>1. /\ source.kind = "server_fn" /\ ~Answered /\ Answered'
      /\ response' = Completed(Merged(a, options))
      /\ UNCHANGED <<request, source, written>>
    BY DEF ServerFnReturns, Answer, Answered
<1> PICK own : own = source.own
    OBVIOUS
<1>2. /\ Shaped(own) /\ own.status \in 200..599
      /\ own.headers["Set-Cookie"] = OwnCookies /\ OwnCookies \in {<<>>, <<"own">>}
    BY <1>1, SourcesAre DEF MergeInv, OwnCookies
<1>3. /\ Shaped(a) /\ a.headers["Set-Cookie"] = OwnCookies
      /\ Redirection(a.status) /\ a.headers["Location"] # <<>> =>
             Head(a.headers["Location"]) \notin {"remote", "broken"}
      /\ own.status >= 400 => a.status = own.status
      /\ request.html /\ own.status < 400 /\ Mirrored(request) # {}
         /\ own.headers["Location"] = <<>> =>
             a.status = 302
             /\ \E t \in Mirrored(request) : a.headers["Location"] = <<Sanitized(t)>>
  <2>1. Polished(request, own, RedirectApplied(request, own))
      BY <1>2, AppliedIs, Zenon
  <2>2. Polished(request, own, a)
      BY <2>1
  <2> QED
      BY <1>2, <2>2 DEF Polished
<1>4. /\ IF MeantStatus = {} THEN response'.status = a.status
         ELSE response'.status \in MeantStatus
      /\ \A name \in Names :
             (Meant(name) # <<>> \/ name \in {"Set-Cookie", "Location"}) =>
                 response'.headers[name] = MergedHeader(name, a.headers[name], Meant(name))
    BY <1>1, <1>3, MergeTells
<1>5. WritesArriveOnce'
    BY <1>1, <1>2, <1>3, <1>4, MergedArrives
<1>6. /\ MeantStatus' = MeantStatus /\ Mirrored(request)' = Mirrored(request)
      /\ \A name : Meant(name)' = Meant(name)
      /\ \A t : Sanitized(t)' = Sanitized(t)
    BY <1>1, SameMeant DEF Mirrored, Sanitized
<1>7. response'.headers["Location"] = MergedHeader("Location", a.headers["Location"], Meant("Location"))
    BY <1>4 DEF Names
<1>8. RedirectsStayHome'
  <2>1. MeantStatus = {} /\ Meant("Location") = <<>> =>
            response'.status = a.status /\ response'.headers["Location"] = a.headers["Location"]
      BY <1>4, <1>7 DEF MergedHeader
  <2> QED
      BY <1>3, <1>6, <2>1 DEF RedirectsStayHome
<1>9. FormsGoBack'
  <2>1. /\ a.headers["Location"] # <<>> => response'.headers["Location"] # <<>>
        /\ Meant("Location") = <<>> =>
               response'.headers["Location"] = a.headers["Location"]
    <3>1. \A x : <<x>> # <<>>
        OBVIOUS
    <3> QED
        BY <1>7, <3>1 DEF MergedHeader, ListValued
  <2> PICK n \in 200..599 : n = own.status
      BY <1>2
  <2>2. own.status < 400 <=> ~(own.status >= 400)
      BY StatusFails
  <2>3. ASSUME MeantStatus = {}, request.html, own.status >= 400
        PROVE  response'.status = own.status
      BY <1>3, <1>4, <2>3
  <2>4. ASSUME MeantStatus = {}, request.html, own.status < 400,
               Mirrored(request) # {}, own.headers["Location"] = <<>>
        PROVE  /\ response'.status = 302 /\ response'.headers["Location"] # <<>>
               /\ Meant("Location") = <<>> =>
                      \E t \in Mirrored(request) :
                          response'.headers["Location"] = <<Sanitized(t)>>
    <3>1. PICK t \in Mirrored(request) : a.headers["Location"] = <<Sanitized(t)>>
        BY <1>3, <2>4
    <3>2. a.status = 302 /\ response'.status = 302
        BY <1>3, <1>4, <2>4
    <3>3. \A x : <<x>> # <<>>
        OBVIOUS
    <3>4. a.headers["Location"] # <<>>
        BY <3>1, <3>3
    <3> QED
        BY <2>1, <3>1, <3>2, <3>4
  <2> QED
      BY <1>1, <1>6, <2>2, <2>3, <2>4 DEF FormsGoBack
<1> QED
    BY <1>1, <1>5, <1>8, <1>9, AnswerKeeps

LEMMA PresetKeeps == MergeInv /\ PresetAnswers => MergeInv'
<1> SUFFICES ASSUME MergeInv, PresetAnswers PROVE MergeInv'
    OBVIOUS
<1> PICK own : own = source.own
    OBVIOUS
<1>1. /\ source.kind = "preset" /\ ~Answered /\ Answered'
      /\ response' = Completed(Merged(own, options))
      /\ UNCHANGED <<request, source, written>>
    BY DEF PresetAnswers, Answer, Answered
<1>2. Shaped(own) /\ own.headers["Set-Cookie"] = OwnCookies /\ OwnCookies \in {<<>>, <<"own">>}
    BY <1>1, SourcesAre DEF MergeInv, OwnCookies
<1>3. /\ IF MeantStatus = {} THEN response'.status = own.status
         ELSE response'.status \in MeantStatus
      /\ \A name \in Names :
             (Meant(name) # <<>> \/ name \in {"Set-Cookie", "Location"}) =>
                 response'.headers[name] = MergedHeader(name, own.headers[name], Meant(name))
    BY <1>1, <1>2, MergeTells
<1>4. WritesArriveOnce'
    BY <1>1, <1>2, <1>3, MergedArrives
<1> QED
    BY <1>1, <1>4, AnswerKeeps, OtherAnswers

LEMMA NotFoundKeeps == MergeInv /\ NotFoundAnswers => MergeInv'
<1> SUFFICES ASSUME MergeInv, NotFoundAnswers PROVE MergeInv'
    OBVIOUS
<1> PICK own : own = Parts(404, NoHeaders)
    OBVIOUS
<1>1. /\ source.kind = "not_found" /\ ~Answered /\ Answered'
      /\ response' = Completed(own) /\ written = <<>>
      /\ UNCHANGED <<request, source, written>>
    BY DEF NotFoundAnswers, Answer, Answered, MergeInv
<1>2. MeantStatus = {} /\ \A name \in Names : Meant(name) = <<>>
    BY <1>1, NothingMeant
<1>3. Shaped(own) /\ own.headers["Set-Cookie"] = OwnCookies /\ OwnCookies = <<>>
    BY <1>1 DEF Parts, Shaped, NoHeaders, OwnCookies, Names
<1>4. "X-Content-Type-Options" \in Names
    BY DEF Names
<1>5. /\ response'.status = own.status
      /\ \A name \in Names \ {"X-Content-Type-Options"} : response'.headers[name] = own.headers[name]
  <2>1. HasDefault(response', own, "X-Content-Type-Options", "default")
      BY <1>1, <1>3, CompletedIs
  <2> QED
      BY <2>1 DEF HasDefault
<1>6. WritesArriveOnce'
    BY <1>1, <1>2, <1>3, <1>5, MergedArrives DEF MergedHeader
<1> QED
    BY <1>1, <1>6, AnswerKeeps, OtherAnswers

LEMMA MergeSteps == MergeInv /\ [MergeNext]_mergeVars => MergeInv'
<1> SUFFICES ASSUME MergeInv, [MergeNext]_mergeVars PROVE MergeInv'
    OBVIOUS
<1>1. CASE StreamEnds \/ UNCHANGED mergeVars
  <2>1. UNCHANGED <<request, source, written, response, options>> /\ Answered' = Answered
      BY <1>1 DEF StreamEnds, mergeVars, Answered
  <2>2. /\ Found' <=> Found
        /\ MeantStatus' = MeantStatus
        /\ \A name : Meant(name)' = Meant(name)
      BY <2>1, SameMeant
  <2>3. ASSUME Answered PROVE WritesArriveOnce' /\ RedirectsStayHome' /\ FormsGoBack'
    <3>1. WritesArriveOnce'
        BY <2>1, <2>2, <2>3 DEF MergeInv, WritesArriveOnce, OwnCookies
    <3>2. RedirectsStayHome'
        BY <2>1, <2>2, <2>3 DEF MergeInv, RedirectsStayHome
    <3>3. FormsGoBack'
        BY <2>1, <2>2, <2>3 DEF MergeInv, FormsGoBack
    <3> QED
        BY <3>1, <3>2, <3>3
  <2>4. ~Answered => Gathered'
      BY <2>1, <2>2 DEF MergeInv, Gathered
  <2> QED
      BY <2>1, <2>2, <2>3, <2>4 DEF MergeInv
<1>2. CASE AppWrites
    BY <1>2, AppWritesKeep
<1>3. CASE Answers
    BY <1>3, FirstChunkKeeps, ServerFnKeeps, PresetKeeps, NotFoundKeeps DEF Answers
<1> QED
    BY <1>1, <1>2, <1>3 DEF MergeNext

\* The invariant implies the properties.
LEMMA MergeShows == MergeInv => WritesArriveOnce /\ RedirectsStayHome /\ FormsGoBack
    BY DEF MergeInv, WritesArriveOnce, RedirectsStayHome, FormsGoBack

\* The inductive invariant of the head of an answer: until there is an answer
\* the options are what the writes mean, and from then on late writes change
\* nothing of it (src/response.rs, src/integration.rs).
THEOREM HeadInvariant == MergeSpec => []MergeInv
    BY MergeInitially, MergeSteps, PTL DEF MergeSpec

\* Whatever an application writes before its first chunk, in any number of
\* writes, is in the response once (response.rs:283-303, render.rs:124,
\* 131-134).
THEOREM AllWritesArrive == MergeSpec => []WritesArriveOnce
    BY HeadInvariant, MergeShows, PTL

\* A redirect of a server function does not leave this origin, unless the
\* application has written so to its options (server_fns.rs, http_util.rs).
THEOREM RedirectsAreKept == MergeSpec => []RedirectsStayHome
    BY HeadInvariant, MergeShows, PTL

\* A browser that posts a form gets back to it, and a failure is never made a
\* redirect (server_fns.rs:68-77).
THEOREM FormsAreAnswered == MergeSpec => []FormsGoBack
    BY HeadInvariant, MergeShows, PTL

-----------------------------------------------------------------------------
(* The head and the body together *)

\* The part that a behaviour is not about satisfies its invariant as well.
LEMMA AnswerInitially == Init => MergeInv /\ TraceInv
<1>1. NoHead => MergeInv
  <2> SUFFICES ASSUME NoHead PROVE MergeInv
      OBVIOUS
  <2>1. /\ written = <<>> /\ written \in Seq({}) /\ source = [kind |-> "not_found"] /\ Answered
        /\ response = NoResponse
      BY DEF NoHead, Answered
  <2>2. source \in Sources /\ source.kind = "not_found"
      BY <2>1 DEF Sources
  <2>3. Found /\ MeantStatus = {} /\ \A name \in Names : Meant(name) = <<>>
      BY <2>1, NothingMeant
  <2>4. response.headers["Set-Cookie"] = <<>> /\ OwnCookies = <<>> /\ "Set-Cookie" \in Names
      BY <2>1, <2>2 DEF NoResponse, Parts, NoHeaders, Names, OwnCookies
  <2>5. WritesArriveOnce
      BY <2>3, <2>4 DEF WritesArriveOnce
  <2>6. RedirectsStayHome /\ FormsGoBack
      BY <2>2 DEF RedirectsStayHome, FormsGoBack
  <2> QED
      BY <2>1, <2>2, <2>3, <2>5, <2>6 DEF MergeInv
<1>2. NoTrace => TraceInv
  <2> SUFFICES ASSUME NoTrace PROVE TraceInv
      OBVIOUS
  <2>1. /\ body = NoBody /\ owner = "handler" /\ received = <<>>
        /\ firstByte = FALSE /\ bytes = 0 /\ report = NoReport
      BY DEF NoTrace
  <2>2. received \in Seq(Heards) /\ Final = {}
      BY <2>1 DEF Final
  <2>3. BytesIn(received) = 0
      BY <2>1, NoBytes
  <2>5. firstByte <=> bytes > 0
      BY <2>1
  <2>4. body = [kind |-> body.kind, left |-> body.left] /\ body.left \in Seq(Frames)
      BY <2>1 DEF NoBody
  <2> QED
      BY <2>1, <2>2, <2>3, <2>4, <2>5 DEF TraceInv
<1> QED
    BY <1>1, <1>2, MergeInitially, TraceInitially DEF Init

\* A step of one is a stutter of the other.
LEMMA AnswerSteps ==
    MergeInv /\ TraceInv /\ [Next]_vars => MergeInv' /\ TraceInv'
<1>1. [Next]_vars => [MergeNext]_mergeVars /\ [TraceNext]_traceVars
    BY DEF Next, vars
<1> QED
    BY <1>1, MergeSteps, TraceSteps

\* Of every answer: what was written arrives, redirects and forms are answered
\* as promised, and the report tells how the body ended (render.rs, wasip3.rs).
THEOREM AnswersKeepTheirPromises ==
    Spec => [](WritesArriveOnce /\ RedirectsStayHome /\ FormsGoBack /\ ReportIsTrue)
<1>1. Spec => [](MergeInv /\ TraceInv)
    BY AnswerInitially, AnswerSteps, PTL DEF Spec
<1> QED
    BY <1>1, MergeShows, TraceShows, PTL
=============================================================================
