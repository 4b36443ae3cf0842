---------------------------- MODULE IngestProofs ----------------------------
(***************************************************************************)
(* Proofs about validate_content_length, for every list of members, and    *)
(* about the two previews reading one request, for every limit, cap, body  *)
(* and list of Content-Length members.                                     *)
(***************************************************************************)
EXTENDS IngestAgreement, Recursion

(* The recursive function exists *)

\* The equation that defines the readings.
LEMMA ReadingsAre ==
    ASSUME NEW list, Len(list) \in Nat, \A i \in 1..Len(list) : list[i] \in Nat
    PROVE  /\ Readings(list)[0] = Reading("none", {})
           /\ \A i \in 1..Len(list) :
                  Readings(list)[i] = Member(Readings(list)[i - 1], list[i])
<1> DEFINE m == Len(list)
           S == [error : {"none", "InvalidContentLength", "ConflictingContentLength"},
                 parsed : SUBSET Nat]
           step == [i \in Nat |-> [read \in S |->
                       IF i \in 1..m THEN Member(read, list[i]) ELSE read]]
<1>1. Reading("none", {}) \in S
    BY DEF Reading
<1>2. ASSUME NEW read \in S, NEW member \in Nat PROVE Member(read, member) \in S
    BY DEF Member, Reading
<1>3. step \in [Nat -> [S -> S]]
  <2> HIDE DEF S
  <2>1. ASSUME NEW i \in Nat PROVE step[i] \in [S -> S]
    <3>1. ASSUME NEW read \in S
          PROVE  (IF i \in 1..m THEN Member(read, list[i]) ELSE read) \in S
        BY <1>2
    <3> QED
        BY <3>1
  <2> QED
      BY <2>1
<1> HIDE DEF S
<1>4. \A i \in 1..m : i \in Nat /\ i # 0 /\ i \in 0..m /\ i - 1 \in 0..m
    OBVIOUS
<1>5. \A i \in 1..m : \A read \in S : step[i][read] = Member(read, list[i])
    BY <1>4
<1> HIDE DEF step
<1>6. PICK f : FirstValues(f, S, Reading("none", {}), step, m)
    BY <1>1, <1>3, ValuesExist
<1>7. \A i \in 0..m : f[i] \in S
    BY <1>6 DEF FirstValues
<1>8. f = [i \in 0..m |-> IF i = 0 THEN Reading("none", {}) ELSE Member(f[i - 1], list[i])]
  <2>1. f = [i \in 0..m |-> f[i]]
      BY <1>6 DEF FirstValues
  <2>2. ASSUME NEW i \in 0..m
        PROVE  f[i] = IF i = 0 THEN Reading("none", {}) ELSE Member(f[i - 1], list[i])
    <3>1. CASE i = 0
        BY <3>1, <1>6 DEF FirstValues
    <3>2. CASE i # 0
      <4>1. i \in 1..m /\ f[i - 1] \in S
          BY <3>2, <1>4, <1>7
      <4> QED
          BY <3>2, <4>1, <1>5, <1>6 DEF FirstValues
    <3> QED
        BY <3>1, <3>2
  <2> QED
      BY <2>1, <2>2
<1>9. Readings(list) =
          [i \in 0..m |-> IF i = 0 THEN Reading("none", {})
                          ELSE Member(Readings(list)[i - 1], list[i])]
    BY <1>8 DEF Readings
<1>10. 0 \in 0..m
    OBVIOUS
<1> QED
    BY <1>4, <1>9, <1>10

-----------------------------------------------------------------------------
(* What the readings are *)

Numbers(list) ==
    /\ Len(list) \in Nat
    /\ \A i \in 1..Len(list) : list[i] \in Nat

Alike(list, i) == Valid(list, i) /\ list[i] = list[1]
Odd(list, i) == AgreeBefore(list, i) /\ ~Alike(list, i)
Seen(list, n) == {list[i] : i \in 1..n}

\* The cases of a member, each by itself.
LEMMA MemberCases ==
    ASSUME NEW read, NEW member \in Nat
    PROVE  /\ read.error # "none" => Member(read, member) = read
           /\ read.error = "none" /\ ~(member <= MaxU64) =>
                  Member(read, member).error = "InvalidContentLength"
           /\ \A previous \in read.parsed :
                  read.error = "none" /\ member <= MaxU64 /\ previous # member =>
                  Member(read, member).error = "ConflictingContentLength"
           /\ /\ read.error = "none" /\ member <= MaxU64
              /\ \A previous \in read.parsed : previous = member
              => Member(read, member) = Reading("none", {member})
<1>1. member > MaxU64 <=> ~(member <= MaxU64)
    BY MaxU64Assumption
<1>2. \A error, parsed : Reading(error, parsed).error = error
    BY DEF Reading
<1>3. read.error # "none" => Member(read, member) = read
    BY DEF Member
<1>4. ASSUME read.error = "none", ~(member <= MaxU64)
      PROVE  Member(read, member).error = "InvalidContentLength"
    BY <1>1, <1>2, <1>4 DEF Member
<1>5. ASSUME read.error = "none", member <= MaxU64,
             \E previous \in read.parsed : previous # member
      PROVE  Member(read, member).error = "ConflictingContentLength"
    BY <1>1, <1>2, <1>5 DEF Member
<1>6. ASSUME read.error = "none", member <= MaxU64,
             \A previous \in read.parsed : previous = member
      PROVE  Member(read, member) = Reading("none", {member})
    BY <1>1, <1>6 DEF Member
<1> QED
    BY <1>3, <1>4, <1>5, <1>6

\* Members that are numbers and the same are read as that number.
LEMMA AlikeIsRead ==
    ASSUME NEW list, Numbers(list), NEW n \in 0..Len(list),
           \A i \in 1..n : Alike(list, i)
    PROVE  Readings(list)[n] = Reading("none", Seen(list, n))
<1> DEFINE S == {m \in 0..n : Readings(list)[m] # Reading("none", Seen(list, m))}
<1>1. CASE S # {}
  <2>1. PICK m \in S : \A k \in S : m <= k
    <3>1. S \subseteq Nat
        OBVIOUS
    <3> HIDE DEF S
    <3> QED
        BY <1>1, <3>1, LeastNumber
  <2>2. m \in 0..n /\ Readings(list)[m] # Reading("none", Seen(list, m))
      BY <2>1
  <2>3. m # 0
    <3>1. Seen(list, 0) = {}
        BY DEF Seen
    <3> QED
        BY <2>2, <3>1, ReadingsAre DEF Numbers
  <2>4. m - 1 \in 0..n /\ m - 1 \notin S
      BY <2>1, <2>2, <2>3
  <2>5. Readings(list)[m - 1] = Reading("none", Seen(list, m - 1))
      BY <2>4
  <2>6. m \in 1..n /\ m \in 1..Len(list)
      BY <2>2, <2>3 DEF Numbers
  <2>7. list[m] \in Nat /\ list[m] <= MaxU64 /\ list[m] = list[1]
      BY <2>6 DEF Numbers, Alike, Valid
  <2>8. /\ \A previous \in Seen(list, m - 1) : previous = list[m]
        /\ Seen(list, m) = {list[m]}
    <3>1. \A i \in 1..m : list[i] = list[m]
        BY <2>6, <2>7 DEF Alike
    <3> QED
        BY <2>6, <3>1 DEF Seen
  <2>9. /\ Reading("none", Seen(list, m - 1)).error = "none"
        /\ Reading("none", Seen(list, m - 1)).parsed = Seen(list, m - 1)
      BY DEF Reading
  <2>10. Readings(list)[m] = Member(Readings(list)[m - 1], list[m])
      BY <2>6, ReadingsAre DEF Numbers
  <2> QED
      BY <2>2, <2>5, <2>7, <2>8, <2>9, <2>10, MemberCases
<1>2. CASE S = {}
    BY <1>2
<1> QED
    BY <1>1, <1>2

OddError(list, i) ==
    IF Valid(list, i) THEN "ConflictingContentLength" ELSE "InvalidContentLength"

\* The first odd member decides the error, and no later one changes it.
LEMMA OddIsFound ==
    ASSUME NEW list, Numbers(list), NEW k \in 1..Len(list),
           Odd(list, k), NEW n \in k..Len(list)
    PROVE  Readings(list)[n].error = OddError(list, k)
<1>1. /\ Readings(list)[k - 1] = Reading("none", Seen(list, k - 1))
      /\ list[k] \in Nat
      /\ Readings(list)[k] = Member(Readings(list)[k - 1], list[k])
  <2>1. k - 1 \in 0..Len(list) /\ \A i \in 1..k - 1 : Alike(list, i)
      BY DEF Odd, AgreeBefore, Alike, Numbers
  <2> QED
      BY <2>1, AlikeIsRead, ReadingsAre DEF Numbers
<1>2. /\ Readings(list)[k - 1].error = "none"
      /\ Readings(list)[k - 1].parsed = Seen(list, k - 1)
    BY <1>1 DEF Reading
<1>3. Readings(list)[k].error = OddError(list, k)
  <2>1. CASE ~Valid(list, k)
    <3>1. ~(list[k] <= MaxU64) /\ OddError(list, k) = "InvalidContentLength"
        BY <2>1 DEF Valid, OddError
    <3>2. Member(Readings(list)[k - 1], list[k]).error = "InvalidContentLength"
        BY <1>1, <1>2, <3>1, MemberCases
    <3> QED
        BY <1>1, <3>1, <3>2
  <2>2. CASE Valid(list, k)
    <3>1. list[k] # list[1]
        BY <2>2 DEF Odd, Alike
    <3>2. 1 \in 1..k - 1
        BY <3>1
    <3>3. list[1] \in Seen(list, k - 1)
        BY <3>2 DEF Seen
    <3>4. list[k] <= MaxU64 /\ OddError(list, k) = "ConflictingContentLength"
        BY <2>2 DEF Valid, OddError
    <3>5. list[1] \in Readings(list)[k - 1].parsed
        BY <1>2, <3>3
    <3>6. Member(Readings(list)[k - 1], list[k]).error = "ConflictingContentLength"
        BY <1>1, <1>2, <3>1, <3>4, <3>5, MemberCases
    <3> QED
        BY <1>1, <3>4, <3>6
  <2> QED
      BY <2>1, <2>2
<1> DEFINE S == {m \in k..n : Readings(list)[m].error # OddError(list, k)}
<1>4. CASE S # {}
  <2>1. PICK m \in S : \A i \in S : m <= i
    <3>1. S \subseteq Nat
        OBVIOUS
    <3> HIDE DEF S
    <3> QED
        BY <1>4, <3>1, LeastNumber
  <2>2. m \in k..n /\ Readings(list)[m].error # OddError(list, k)
      BY <2>1
  <2>3. m # k
      BY <1>3, <2>2
  <2>4. m - 1 \in k..n /\ m - 1 \notin S
      BY <2>1, <2>2, <2>3
  <2>5. Readings(list)[m - 1].error = OddError(list, k)
      BY <2>4
  <2>6. m \in 1..Len(list) /\ list[m] \in Nat
      BY <2>2 DEF Numbers
  <2>7. Readings(list)[m] = Member(Readings(list)[m - 1], list[m])
      BY <2>6, ReadingsAre DEF Numbers
  <2>8. OddError(list, k) # "none"
      BY DEF OddError
  <2> QED
      BY <2>2, <2>5, <2>6, <2>7, <2>8, MemberCases
<1>5. CASE S = {}
  <2>1. n \in k..n
      OBVIOUS
  <2> QED
      BY <1>5, <2>1
<1> QED
    BY <1>4, <1>5

\* Without an odd member all are alike.
LEMMA NoneIsOdd ==
    ASSUME NEW list, Numbers(list),
           \A i \in 1..Len(list) : ~Odd(list, i)
    PROVE  \A i \in 1..Len(list) : Alike(list, i)
<1> DEFINE S == {i \in 1..Len(list) : ~Alike(list, i)}
<1>1. CASE S # {}
  <2>1. PICK i \in S : \A j \in S : i <= j
    <3>1. S \subseteq Nat
        BY DEF Numbers
    <3> HIDE DEF S
    <3> QED
        BY <1>1, <3>1, LeastNumber
  <2>2. i \in 1..Len(list) /\ ~Alike(list, i)
      BY <2>1
  <2>3. \A j \in 1..i - 1 : j \in 1..Len(list) /\ j \notin S
      BY <2>1, <2>2 DEF Numbers
  <2>4. AgreeBefore(list, i)
      BY <2>3 DEF AgreeBefore, Alike
  <2> QED
      BY <2>2, <2>4 DEF Odd
<1>2. CASE S = {}
    BY <1>2
<1> QED
    BY <1>1, <1>2

-----------------------------------------------------------------------------
(* The verdict *)

\* validate_content_length finds the error that the first odd member calls for,
\* or a length over the limit, and otherwise the length all members agree on.
THEOREM LengthIsWhatMembersSay ==
    ASSUME NEW list, Numbers(list)
    PROVE  /\ ValidateContentLength(list).error = Expected(list)
           /\ ValidateContentLength(list).error = "none" =>
                  ValidateContentLength(list).parsed = Seen(list, Len(list))
<1> DEFINE n == Len(list)
           read == Readings(list)[n]
           odd == {i \in 1..n : /\ AgreeBefore(list, i)
                                /\ ~Valid(list, i) \/ list[i] # list[1]}
<1>1. odd = {i \in 1..n : Odd(list, i)}
    BY DEF Odd, Alike
<1>2. /\ Expected(list) =
             CASE \E i \in odd : ~Valid(list, i) -> "InvalidContentLength"
               [] \E i \in odd : Valid(list, i) -> "ConflictingContentLength"
               [] odd = {} /\ list # <<>> /\ list[1] > Limit -> "BodyTooLarge"
               [] OTHER -> "none"
      /\ ValidateContentLength(list) =
             IF read.error = "none" /\ \E length \in read.parsed : length > Limit
             THEN Reading("BodyTooLarge", {})
             ELSE read
    BY DEF Expected, ValidateContentLength, Scan
<1>3. \A e, p : Reading(e, p).error = e /\ Reading(e, p).parsed = p
    BY DEF Reading
<1> HIDE DEF odd, read
<1>4. ASSUME NEW k \in odd PROVE
             /\ ValidateContentLength(list).error = Expected(list)
             /\ ValidateContentLength(list).error # "none"
  <2>1. k \in 1..n /\ Odd(list, k) /\ n \in k..n
      BY <1>1 DEF Numbers
  <2>2. read.error = OddError(list, k)
      BY <2>1, OddIsFound DEF read
  <2>3. \A i \in odd : i = k
    <3>1. \A i, j \in odd : ~(i < j)
      <4>1. \A i, j \in 1..n : i < j => i \in 1..j - 1
          BY DEF Numbers
      <4> QED
          BY <1>1, <4>1 DEF Odd, AgreeBefore, Alike
    <3>2. \A i, j \in 1..n : ~(i < j) /\ ~(j < i) => i = j
        BY DEF Numbers
    <3> QED
        BY <1>1, <3>1, <3>2
  <2>4. Expected(list) = OddError(list, k)
      BY <1>2, <2>3 DEF OddError
  <2>5. OddError(list, k) # "none"
      BY DEF OddError
  <2> QED
      BY <1>2, <2>2, <2>4, <2>5
<1>5. ASSUME odd = {} PROVE
             /\ ValidateContentLength(list).error = Expected(list)
             /\ ValidateContentLength(list).error = "none" =>
                    ValidateContentLength(list).parsed = Seen(list, n)
  <2>1. \A i \in 1..n : Alike(list, i)
      BY <1>1, <1>5, NoneIsOdd
  <2>2. read = Reading("none", Seen(list, n))
    <3>1. n \in 0..Len(list)
        BY DEF Numbers
    <3> QED
        BY <2>1, <3>1, AlikeIsRead DEF read
  <2>3. (\E length \in Seen(list, n) : length > Limit)
            <=> n # 0 /\ list[1] > Limit
    <3>1. \A i \in 1..n : list[i] = list[1] /\ 1 \in 1..n
        BY <2>1 DEF Alike, Numbers
    <3>2. n # 0 => 1 \in 1..n
        BY DEF Numbers
    <3> QED
        BY <3>1, <3>2 DEF Seen
  <2>4. n # 0 <=> list # <<>>
      BY DEF Numbers
  <2>5. Expected(list) =
            IF n # 0 /\ list[1] > Limit THEN "BodyTooLarge" ELSE "none"
      BY <1>2, <1>5, <2>4
  <2> QED
      BY <1>2, <1>3, <2>2, <2>3, <2>5
<1> QED
    BY <1>4, <1>5

-----------------------------------------------------------------------------
(* The two readers *)

USE MaxBodyAssumption, LimitAssumption, EmptyReadCapAssumption, HostMayLieAssumption

Places2 == {"convert", "validate", "open", "check", "read", "poll", "done"}
Places3 == {"validate", "collect", "expiry", "parked", "done"}

ClientTypes ==
    /\ budget \in BOOLEAN
    /\ sent \in 0..MaxBody
    /\ end \in {"open", "closed", "failed"}
    /\ expired \in BOOLEAN

\* The reader of Preview 2.  A chunk is late only if the check was passed
\* before the timer fired; with an honest host an empty read is followed by
\* a fruitful one; an accepted body was compared with its length.
Reader ==
    /\ pc \in Places2
    /\ got \in 0..sent
    /\ got <= Limit
    /\ empties \in 0..EmptyReadCap
    /\ pc # "done" => empties < EmptyReadCap
    /\ late \in 0..1
    /\ lied \in BOOLEAN
    /\ expired => budget /\ pc \notin {"convert", "validate", "open"}
    /\ late > 0 => expired /\ pc \in {"check", "done"}
    /\ late > 0 => budget
    /\ ~lied => empties <= 1
    /\ ~lied /\ empties = 1 => pc \in {"poll", "done"} \/ Readable

\* The collector of Preview 3.
Collector ==
    /\ at \in Places3
    /\ held \in 0..sent
    /\ held <= Limit

\* What each has accepted, as far as that can be told without the recursion.
Acceptance ==
    /\ pc # "done" => verdict = "none"
    /\ at # "done" => answer = "none"
    /\ pc \notin {"convert", "validate", "done"} => LengthError = "none"
    /\ verdict = "accepted" /\ method = "other" =>
           end = "closed" /\ got = sent /\ LengthError = "none" /\ LengthMatches
    /\ answer = "accepted" => end = "closed" /\ held = sent

IngestInvariant == ClientTypes /\ Reader /\ Collector

LEMMA Initially == BothInit => IngestInvariant /\ Acceptance
<1> SUFFICES ASSUME BothInit PROVE IngestInvariant /\ Acceptance
    OBVIOUS
<1>1. /\ sent = 0 /\ end = "open" /\ ~expired
      /\ budget \in BOOLEAN /\ expired \in BOOLEAN
    BY DEF BothInit, BodyInit
<1>2. /\ pc = "convert" /\ got = 0 /\ empties = 0 /\ late = 0
      /\ ~lied /\ lied \in BOOLEAN
    BY DEF BothInit, ReaderInit
<1>3. at = "validate" /\ held = 0
    BY DEF BothInit, IngestInit
<1>4. Acceptance
    BY DEF BothInit, ReaderInit, IngestInit, Acceptance
<1> QED
    BY <1>1, <1>2, <1>3, <1>4
       DEF IngestInvariant, ClientTypes, Reader, Collector, Places2, Places3, Readable

\* What the client does is seen by both, and changes nothing they hold.
LEMMA ClientKeeps ==
    ASSUME IngestInvariant, ClientNext,
           pc \in {"convert", "validate", "open"} => expired' = expired,
           UNCHANGED <<readerVars, ingestVars>>
    PROVE  IngestInvariant'
<1> USE DEF IngestInvariant, ClientTypes, Reader, Collector,
            Readable, requestVars, readerVars, ingestVars
<1>1. CASE \E n \in 1..MaxBody : Arrive(n)
    BY <1>1 DEF Arrive
<1>2. CASE \E how \in {"closed", "failed"} : CloseBody(how)
    BY <1>2 DEF CloseBody
<1>3. CASE Expire
    BY <1>3 DEF Expire
<1> QED
    BY <1>1, <1>2, <1>3 DEF ClientNext

\* The steps of Preview 2's reader.
LEMMA ReaderKeeps ==
    ASSUME IngestInvariant, ReaderNext, UNCHANGED ingestVars
    PROVE  IngestInvariant'
<1> USE DEF IngestInvariant, ClientTypes, Reader, Collector,
            Readable, requestVars, clientVars, bodyVars, ingestVars, Places2, Return, Top
<1>1. CASE Convert \/ ConvertFails
    BY <1>1 DEF Convert, ConvertFails
<1>2. CASE RejectLength \/ SkipBody \/ Validated
  <2>1. CASE pc' = "done" /\ UNCHANGED <<bodyVars, got, empties, late, lied>>
      BY <2>1
  <2>2. CASE Validated
      BY <2>2 DEF Validated
  <2> QED
      BY <1>2, <2>1, <2>2 DEF RejectLength, SkipBody
<1>3. CASE Open \/ OpenFails
    BY <1>3 DEF Open, OpenFails
<1>4. CASE CheckDeadline
  <2>1. CASE expired /\ Return("BodyReadTimeout")
      BY <2>1
  <2>2. CASE ~expired /\ pc' = "read" /\ UNCHANGED <<bodyVars, got, empties, verdict, late, lied>>
      BY <1>4, <2>2 DEF CheckDeadline
  <2> QED
      BY <1>4, <2>1, <2>2 DEF CheckDeadline
<1>5. CASE \E n \in 1..MaxBody : Take(n)
  <2>1. PICK n \in 1..MaxBody : Take(n)
      BY <1>5
  <2>2. CASE got + n > Limit
      BY <2>1, <2>2 DEF Take
  <2>3. CASE got + n <= Limit
      BY <2>1, <2>3 DEF Take
  <2> QED
      BY <2>2, <2>3
<1>6. CASE ReadClosed \/ ReadFails
    BY <1>6 DEF ReadClosed, ReadFails
<1>7. CASE ReadEmpty
    BY <1>7 DEF ReadEmpty
<1>8. CASE Poll
  <2>1. CASE expired /\ Return("BodyReadTimeout")
      BY <2>1
  <2>2. CASE ~expired
    <3>1. lied' \in BOOLEAN /\ (~lied' => ~lied /\ Readable)
        BY <1>8, <2>2 DEF Poll
    <3>2. pc' = Top /\ UNCHANGED <<bodyVars, got, empties, late>>
        BY <1>8, <2>2 DEF Poll
    <3> QED
        BY <1>8, <2>2, <3>1, <3>2 DEF Poll
  <2> QED
      BY <1>8, <2>1, <2>2 DEF Poll
<1> QED
    BY <1>1, <1>2, <1>3, <1>4, <1>5, <1>6, <1>7, <1>8 DEF ReaderNext

\* The steps of Preview 3's collector.
LEMMA CollectorKeeps ==
    ASSUME IngestInvariant, IngestNext, UNCHANGED readerVars
    PROVE  IngestInvariant'
<1> USE DEF IngestInvariant, ClientTypes, Reader, Collector,
            Readable, requestVars, clientVars, bodyVars, readerVars, Places3,
            Answer, GoTo
<1>1. CASE Validate
    BY <1>1 DEF Validate
<1>2. CASE \E n \in 1..MaxBody : Frame(n)
    BY <1>2 DEF Frame
<1>3. CASE Collected \/ CollectFails \/ NoFrame
    BY <1>3 DEF Collected, CollectFails, NoFrame
<1>4. CASE Expiry
    BY <1>4 DEF Expiry
<1>5. CASE Woken
    BY <1>5 DEF Woken
<1> QED
    BY <1>1, <1>2, <1>3, <1>4, <1>5 DEF IngestNext

LEMMA IngestSteps == IngestInvariant /\ [BothNext]_bothVars => IngestInvariant'
<1> SUFFICES ASSUME IngestInvariant, [BothNext]_bothVars PROVE IngestInvariant'
    OBVIOUS
<1>1. CASE Preview2Reads
    BY <1>1, ReaderKeeps DEF Preview2Reads
<1>2. CASE Preview3Reads
    BY <1>2, CollectorKeeps DEF Preview3Reads
<1>3. CASE Outside
    BY <1>3, ClientKeeps DEF Outside, Environment, readerVars, ingestVars
<1>4. CASE UNCHANGED bothVars
    BY <1>4 DEF IngestInvariant, ClientTypes, Reader, Collector, Readable, bothVars,
                bodyVars, requestVars, clientVars, readerVars, ingestVars
<1> QED
    BY <1>1, <1>2, <1>3, <1>4 DEF BothNext

\* The inductive invariant of the two readers, for every limit, cap and body: the
\* buffers stay within the limit, and a chunk is late only once.
THEOREM IngestInvariantHolds == BothSpec => []IngestInvariant
<1>1. BothInit => IngestInvariant
    BY Initially
<1> QED
    BY <1>1, IngestSteps, PTL DEF BothSpec

\* After the timer has fired at most one more chunk is taken.
THEOREM LateChunks == BothSpec => []OneLateChunk
<1>1. IngestInvariant => OneLateChunk
    BY DEF IngestInvariant, Reader, OneLateChunk
<1> QED
    BY <1>1, IngestInvariantHolds, PTL

\* The cap on empty reads ends a request only if the host has lied.
THEOREM TricklingIsForgiven == BothSpec => []NotBlamedForTrickling
<1>1. IngestInvariant => NotBlamedForTrickling
    BY EmptyReadCapAssumption DEF IngestInvariant, Reader, NotBlamedForTrickling
<1> QED
    BY <1>1, IngestInvariantHolds, PTL

-----------------------------------------------------------------------------
(* What is accepted.  Validation returns what it is justified to return.    *)

\* No error of the validation is the verdict "accepted".
LEMMA ErrorsAreErrors == LengthIsJustified => LengthError # "accepted"
BY DEF LengthIsJustified, Expected

\* The validation depends on the members alone.
LEMMA LengthStays ==
    UNCHANGED members => UNCHANGED <<LengthError, Declared>>
BY DEF LengthError, Declared

LEMMA MembersStay == [BothNext]_bothVars => UNCHANGED members
<1> SUFFICES ASSUME [BothNext]_bothVars PROVE UNCHANGED members
    OBVIOUS
<1> USE DEF bodyVars, requestVars
<1>1. CASE Preview2Reads
    BY <1>1 DEF Preview2Reads, ReaderNext, Convert, ConvertFails, RejectLength,
       SkipBody, Validated, Open, OpenFails, CheckDeadline, Take, ReadClosed,
       ReadFails, ReadEmpty, Poll, Return
<1>2. CASE Preview3Reads
    BY <1>2 DEF Preview3Reads, IngestNext, Validate, Frame, Collected,
       CollectFails, NoFrame, Expiry, Woken, Answer, GoTo
<1>3. CASE Outside
    BY <1>3 DEF Outside, Environment, ClientNext, Arrive, CloseBody, Expire
<1>4. CASE UNCHANGED bothVars
    BY <1>4 DEF bothVars
<1> QED
    BY <1>1, <1>2, <1>3, <1>4 DEF BothNext

\* The members never change, and are numbers.
LEMMA HeadersAreNumbers == BodyInit => Numbers(members)
<1> SUFFICES ASSUME BodyInit PROVE Numbers(members)
    OBVIOUS
<1>1. PICK n \in 0..MaxMembers : members \in [1..n -> 0..MaxU64 + 1]
    BY MaxMembersAssumption DEF BodyInit, Headers
<1>2. n \in Nat /\ Len(members) = n
    BY <1>1, MaxMembersAssumption
<1>3. 0..MaxU64 + 1 \subseteq Nat
    BY MaxU64Assumption
<1> QED
    BY <1>1, <1>2, <1>3 DEF Numbers

\* The length a request declares is validated as its members call for.
THEOREM LengthIsChecked == BothSpec => []LengthIsJustified
<1>1. BothInit => Numbers(members)
    BY HeadersAreNumbers DEF BothInit
<1>2. Numbers(members) /\ [BothNext]_bothVars => Numbers(members)'
    BY MembersStay DEF Numbers
<1>3. Numbers(members) => LengthIsJustified
    BY LengthIsWhatMembersSay DEF LengthIsJustified, LengthError, Declared, Seen
<1> QED
    BY <1>1, <1>2, <1>3, PTL DEF BothSpec

LEMMA AcceptanceKept2 ==
    ASSUME LengthIsJustified, Acceptance, ReaderNext, UNCHANGED ingestVars
    PROVE  Acceptance'
<1>1. LengthError # "accepted" /\ LengthError' = LengthError /\ Declared' = Declared
    BY ErrorsAreErrors, LengthStays, MembersStay DEF BothNext, Preview2Reads
<1> USE <1>1 DEF Acceptance, LengthMatches, bodyVars, requestVars, clientVars,
                 ingestVars, Return, Top
<1>2. CASE Convert \/ ConvertFails
    BY <1>2 DEF Convert, ConvertFails
<1>3. CASE RejectLength
    BY <1>3 DEF RejectLength
<1>4. CASE SkipBody
    BY <1>4 DEF SkipBody
<1>5. CASE Validated
    BY <1>5 DEF Validated
<1>6. CASE Open \/ OpenFails
    BY <1>6 DEF Open, OpenFails
<1>7. CASE CheckDeadline
    BY <1>7 DEF CheckDeadline
<1>8. CASE \E n \in 1..MaxBody : Take(n)
    BY <1>8 DEF Take
<1>9. CASE ReadClosed
    BY <1>9 DEF ReadClosed
<1>10. CASE ReadFails \/ ReadEmpty
    BY <1>10 DEF ReadFails, ReadEmpty
<1>11. CASE Poll
    BY <1>11 DEF Poll
<1> QED
    BY <1>2, <1>3, <1>4, <1>5, <1>6, <1>7, <1>8, <1>9, <1>10, <1>11 DEF ReaderNext

LEMMA AcceptanceKept3 ==
    ASSUME LengthIsJustified, Acceptance, IngestNext, UNCHANGED readerVars
    PROVE  Acceptance'
<1>1. LengthError # "accepted" /\ LengthError' = LengthError /\ Declared' = Declared
    BY ErrorsAreErrors, LengthStays, MembersStay DEF BothNext, Preview3Reads
<1> USE <1>1 DEF Acceptance, LengthMatches, bodyVars, requestVars, clientVars,
                 readerVars, Answer, GoTo
<1>2. CASE Validate
    BY <1>2 DEF Validate
<1>3. CASE \E n \in 1..MaxBody : Frame(n)
    BY <1>3 DEF Frame
<1>4. CASE Collected \/ CollectFails \/ NoFrame
    BY <1>4 DEF Collected, CollectFails, NoFrame
<1>5. CASE Expiry \/ Woken
    BY <1>5 DEF Expiry, Woken
<1> QED
    BY <1>2, <1>3, <1>4, <1>5 DEF IngestNext

LEMMA AcceptanceSteps ==
    LengthIsJustified /\ Acceptance /\ [BothNext]_bothVars => Acceptance'
<1> SUFFICES ASSUME LengthIsJustified, Acceptance, [BothNext]_bothVars
             PROVE  Acceptance'
    OBVIOUS
<1>1. LengthError' = LengthError /\ Declared' = Declared
    BY LengthStays, MembersStay
<1>2. CASE Preview2Reads
    BY <1>2, AcceptanceKept2 DEF Preview2Reads
<1>3. CASE Preview3Reads
    BY <1>3, AcceptanceKept3 DEF Preview3Reads
<1>4. CASE Outside
    BY <1>1, <1>4 DEF Outside, Environment, ClientNext, Arrive, CloseBody, Expire,
       Acceptance, LengthMatches, readerVars, ingestVars, requestVars
<1>5. CASE UNCHANGED bothVars
    BY <1>1, <1>5 DEF bothVars, bodyVars, requestVars, clientVars, readerVars,
       ingestVars, Acceptance, LengthMatches
<1> QED
    BY <1>2, <1>3, <1>4, <1>5 DEF BothNext

\* Preview 2 accepts only whole bodies, within the limit and of the length that
\* every member of the Content-Length headers declares.
THEOREM WholeBodies == BothSpec => []AcceptedIsWhole
<1>1. BothInit => Acceptance
    BY Initially
<1>2. LengthIsJustified /\ IngestInvariant /\ Acceptance => AcceptedIsWhole
  <2> SUFFICES ASSUME LengthIsJustified, IngestInvariant, Acceptance
               PROVE  AcceptedIsWhole
      OBVIOUS
  <2>1. got <= Limit
      BY DEF IngestInvariant, Reader
  <2>2. ASSUME verdict = "accepted", method = "other"
        PROVE  end = "closed" /\ got = sent
               /\ \A i \in 1..Len(members) : members[i] = got
      BY <2>2 DEF Acceptance, LengthMatches, LengthIsJustified
  <2> QED
      BY <2>1, <2>2 DEF AcceptedIsWhole
<1> QED
    BY <1>1, <1>2, AcceptanceSteps, IngestInvariantHolds, LengthIsChecked, PTL
       DEF BothSpec

\* And Preview 3 only what the client sent before it closed the stream.
THEOREM WholeCollections == BothSpec => []CollectedIsWhole
<1>1. BothInit => Acceptance
    BY Initially
<1>2. IngestInvariant /\ Acceptance => CollectedIsWhole
    BY DEF IngestInvariant, Collector, Acceptance, CollectedIsWhole
<1> QED
    BY <1>1, <1>2, AcceptanceSteps, IngestInvariantHolds, LengthIsChecked, PTL
       DEF BothSpec
-----------------------------------------------------------------------------
(* The two answers side by side *)

\* What ends the reading of a body, as far as the client can tell.
Cause(v) ==
    \/ v = "BodyReadTimeout" /\ expired
    \/ v = "BodyFailed" /\ end = "failed"
    \/ v = "BodyTooLarge" /\ sent > Limit

\* Preview 2 compares a whole body with its declared length.
Reasons2 ==
    pc = "done" =>
        \/ verdict \in {"Http", "BodyAlreadyConsumed", "BodyStreamUnavailable"}
        \/ LengthError # "none" /\ verdict = LengthError
        \/ LengthError = "none" /\ method # "other"
        \/ LengthError = "none" /\ Cause(verdict)
        \/ /\ LengthError = "none" /\ end = "closed" /\ got = sent
           /\ \/ verdict = "accepted"
              \/ verdict = "InvalidContentLength" /\ ~LengthMatches

\* Preview 3 does not.
Reasons3 ==
    /\ at \notin {"validate", "done"} => LengthError = "none"
    /\ at = "done" =>
           \/ LengthError # "none" /\ answer = LengthError
           \/ LengthError = "none" /\ Cause(answer)
           \/ LengthError = "none" /\ end = "closed" /\ held = sent /\ answer = "accepted"

Reasons == Reasons2 /\ Reasons3

LEMMA ReasonsKept2 ==
    ASSUME IngestInvariant, Acceptance, Reasons, ReaderNext, UNCHANGED ingestVars
    PROVE  Reasons'
<1>1. LengthError' = LengthError /\ Declared' = Declared
    BY LengthStays, MembersStay DEF BothNext, Preview2Reads
<1>2. UNCHANGED <<bodyVars, ingestVars>> => Reasons3'
    BY <1>1 DEF Reasons, Reasons3, Cause, ingestVars, bodyVars, clientVars
<1> USE <1>1 DEF Reasons, Reasons2, Acceptance, LengthMatches, bodyVars, requestVars,
                 clientVars, ingestVars, Return, Top
<1>3. CASE Convert \/ ConvertFails
    BY <1>2, <1>3 DEF Convert, ConvertFails
<1>4. CASE RejectLength \/ SkipBody \/ Validated
    BY <1>2, <1>4 DEF RejectLength, SkipBody, Validated
<1>5. CASE Open \/ OpenFails
    BY <1>2, <1>5 DEF Open, OpenFails
<1>6. CASE CheckDeadline
    BY <1>2, <1>6 DEF CheckDeadline, Cause
<1>7. CASE \E n \in 1..MaxBody : Take(n)
  <2>1. PICK n \in 1..MaxBody : Take(n)
      BY <1>7
  <2>2. CASE Return("BodyTooLarge") /\ got + n > Limit
    <3>1. sent > Limit
        BY <2>1, <2>2 DEF Take, IngestInvariant, Reader, ClientTypes
    <3> QED
        BY <1>2, <2>1, <2>2, <3>1 DEF Take, Cause
  <2>3. CASE pc' = Top /\ UNCHANGED bodyVars
      BY <1>2, <2>1, <2>3
  <2> QED
      BY <2>1, <2>2, <2>3 DEF Take
<1>8. CASE ReadClosed
    BY <1>2, <1>8 DEF ReadClosed
<1>9. CASE ReadFails
    BY <1>2, <1>9 DEF ReadFails, Cause
<1>10. CASE ReadEmpty
    BY <1>2, <1>10 DEF ReadEmpty
<1>11. CASE Poll
    BY <1>2, <1>11 DEF Poll, Cause
<1> QED
    BY <1>3, <1>4, <1>5, <1>6, <1>7, <1>8, <1>9, <1>10, <1>11 DEF ReaderNext

LEMMA ReasonsKept3 ==
    ASSUME IngestInvariant, Reasons, IngestNext, UNCHANGED readerVars
    PROVE  Reasons'
<1>1. LengthError' = LengthError /\ Declared' = Declared
    BY LengthStays, MembersStay DEF BothNext, Preview3Reads
<1>2. UNCHANGED <<bodyVars, readerVars>> => Reasons2'
    BY <1>1 DEF Reasons, Reasons2, Cause, LengthMatches, readerVars, bodyVars, clientVars,
       requestVars
<1> USE <1>1 DEF Reasons, Reasons3, bodyVars, requestVars, clientVars, readerVars,
                 Answer, GoTo
<1>3. CASE Validate
    BY <1>2, <1>3 DEF Validate
<1>4. CASE \E n \in 1..MaxBody : Frame(n)
  <2>1. PICK n \in 1..MaxBody : Frame(n)
      BY <1>4
  <2>2. CASE Answer("BodyTooLarge") /\ held + n > Limit
    <3>1. sent > Limit
        BY <2>1, <2>2 DEF Frame, IngestInvariant, Collector, ClientTypes
    <3> QED
        BY <1>2, <2>1, <2>2, <3>1 DEF Frame, Cause
  <2>3. CASE UNCHANGED <<bodyVars, at, answer>>
      BY <1>2, <2>1, <2>3 DEF Frame
  <2> QED
      BY <2>1, <2>2, <2>3 DEF Frame
<1>5. CASE Collected
    BY <1>2, <1>5 DEF Collected
<1>6. CASE CollectFails \/ NoFrame
    BY <1>2, <1>6 DEF CollectFails, NoFrame, Cause
<1>7. CASE Expiry \/ Woken
    BY <1>2, <1>7 DEF Expiry, Woken, Cause
<1> QED
    BY <1>3, <1>4, <1>5, <1>6, <1>7 DEF IngestNext

\* The client can only add to the reasons: it sends more, fails, or is too late.
LEMMA ReasonsSteps ==
    IngestInvariant /\ Acceptance /\ Reasons /\ [BothNext]_bothVars => Reasons'
<1> SUFFICES ASSUME IngestInvariant, Acceptance, Reasons, [BothNext]_bothVars
             PROVE  Reasons'
    OBVIOUS
<1>1. LengthError' = LengthError /\ Declared' = Declared
    BY LengthStays, MembersStay
<1>2. CASE Preview2Reads
    BY <1>2, ReasonsKept2 DEF Preview2Reads
<1>3. CASE Preview3Reads
    BY <1>3, ReasonsKept3 DEF Preview3Reads
<1>4. CASE Outside
  <2>1. (end # "open" => end' = end /\ sent' = sent) /\ (expired => expired')
      BY <1>4 DEF Outside, Environment, ClientNext, Arrive, CloseBody, Expire
  <2>2. sent' >= sent /\ sent \in Nat /\ sent' \in Nat
      BY <1>4 DEF Outside, Environment, ClientNext, Arrive, CloseBody, Expire,
         IngestInvariant, ClientTypes
  <2>3. UNCHANGED <<method, readerVars, ingestVars>>
      BY <1>4 DEF Outside, Environment, ClientNext, Arrive, CloseBody, Expire, requestVars
  <2>4. sent > Limit => sent' > Limit
      BY <2>2
  <2>5. \A v : Cause(v) => Cause(v)'
      BY <2>1, <2>4 DEF Cause
  <2> QED
      BY <1>1, <2>1, <2>3, <2>5
         DEF Reasons, Reasons2, Reasons3, LengthMatches, readerVars, ingestVars
<1>5. CASE UNCHANGED bothVars
    BY <1>1, <1>5 DEF bothVars, bodyVars, requestVars, clientVars, readerVars,
       ingestVars, Reasons, Reasons2, Reasons3, Cause, LengthMatches
<1> QED
    BY <1>2, <1>3, <1>4, <1>5 DEF BothNext

\* In time, both previews answer a request with a body alike, for every limit, cap
\* and list of members, but for the declared length that only Preview 2 compares.
THEOREM AnswersAgreeInTime == BothSpec => []SameAnswerInTime
<1>1. BothInit => Acceptance
    BY Initially
<1>2. BothInit => Reasons
    BY DEF BothInit, ReaderInit, IngestInit, Reasons, Reasons2, Reasons3
<1>3. LengthIsJustified /\ IngestInvariant /\ Reasons => SameAnswerInTime
  <2> SUFFICES ASSUME LengthIsJustified, IngestInvariant, Reasons,
                      BothDone, method = "other", ~expired, end # "failed"
               PROVE  \/ Preview2Status(verdict) = Preview3Status(answer)
                      \/ /\ verdict = "InvalidContentLength" /\ answer = "accepted"
                         /\ \E i \in 1..Len(members) : members[i] # sent
      BY DEF SameAnswerInTime
  <2>1. got <= Limit /\ held <= Limit /\ sent \in Nat
      BY DEF IngestInvariant, Reader, Collector, ClientTypes
  <2>2. LengthError \in {"none", "InvalidContentLength", "ConflictingContentLength",
                         "BodyTooLarge"}
      BY DEF LengthIsJustified, Expected
  <2>3. CASE LengthError # "none"
    <3>1. verdict = LengthError /\ answer = LengthError
        BY <2>3 DEF BothDone, Reasons, Reasons2, Reasons3
    <3> QED
        BY <2>2, <2>3, <3>1 DEF Preview2Status, Preview3Status, PolicyErrors
  <2>4. CASE LengthError = "none"
    <3>1. \/ verdict = "BodyTooLarge" /\ sent > Limit
          \/ got = sent /\ verdict = "accepted"
          \/ got = sent /\ verdict = "InvalidContentLength" /\ ~LengthMatches
        BY <2>4 DEF BothDone, Reasons, Reasons2, Cause
    <3>2. \/ answer = "BodyTooLarge" /\ sent > Limit
          \/ held = sent /\ answer = "accepted"
        BY <2>4 DEF BothDone, Reasons, Reasons3, Cause
    <3>3. CASE sent > Limit
      <4>1. verdict = "BodyTooLarge" /\ answer = "BodyTooLarge"
          BY <2>1, <3>1, <3>2, <3>3
      <4> QED
          BY <4>1 DEF Preview2Status, Preview3Status, PolicyErrors
    <3>4. CASE ~(sent > Limit) /\ verdict = "accepted"
        BY <3>2, <3>4 DEF Preview2Status, Preview3Status, PolicyErrors
    <3>5. CASE ~(sent > Limit) /\ verdict = "InvalidContentLength"
      <4>1. \E i \in 1..Len(members) : members[i] # sent
          BY <2>4, <3>1, <3>5 DEF LengthIsJustified, LengthMatches
      <4> QED
          BY <3>2, <3>5, <4>1
    <3> QED
        BY <3>1, <3>3, <3>4, <3>5
  <2> QED
      BY <2>3, <2>4
<1> QED
    BY <1>1, <1>2, <1>3, AcceptanceSteps, ReasonsSteps, IngestInvariantHolds,
       LengthIsChecked, PTL DEF BothSpec
-----------------------------------------------------------------------------
(* What the return of the two readers rests on *)

\* Bytes and the end that the client can still send, and the timer.
Unsent == MaxBody - sent
Sending == IF end = "open" THEN 1 ELSE 0
Ticking == IF expired THEN 0 ELSE 1

\* Bytes that each can still read, and empty reads that Preview 2 still forgives.
Unread == MaxBody - got
Patience == EmptyReadCap - empties
Uncollected == MaxBody - held

\* Steps of Preview 2's reader until its next read.
Place2 ==
    CASE pc = "convert" -> 6
      [] pc = "validate" -> 5
      [] pc = "open" -> 4
      [] pc = "poll" -> 3
      [] pc = "check" -> 2
      [] pc = "read" -> 1
      [] pc = "done" -> 0

\* Steps of Preview 3's race until it takes a frame, ends or is parked for good.
Place3 ==
    CASE at = "validate" -> 5
      [] at = "collect" -> IF expired \/ held < sent \/ end # "open" THEN 2 ELSE 4
      [] at = "expiry" -> IF expired THEN 1
                          ELSE IF held < sent \/ end # "open" THEN 4 ELSE 3
      [] at = "parked" -> IF expired \/ held < sent \/ end # "open" THEN 3 ELSE 2
      [] at = "done" -> 0

Place2Tells ==
    /\ Place2 \in 0..6
    /\ pc = "convert" => Place2 = 6
    /\ pc = "validate" => Place2 = 5
    /\ pc = "open" => Place2 = 4
    /\ pc = "poll" => Place2 = 3
    /\ pc = "check" => Place2 = 2
    /\ pc = "read" => Place2 = 1
    /\ pc = "done" => Place2 = 0

LEMMA Place2Is == pc \in Places2 => Place2Tells
<1> SUFFICES ASSUME pc \in Places2 PROVE Place2Tells
    OBVIOUS
<1>1. CASE pc \in {"convert", "validate", "open"}
    BY <1>1 DEF Place2, Place2Tells
<1>2. CASE pc \in {"poll", "check", "read", "done"}
    BY <1>2 DEF Place2, Place2Tells
<1> QED
    BY <1>1, <1>2 DEF Places2

\* Something has come that the race can act on.
Roused == held < sent \/ end # "open"

Place3Tells ==
    /\ Place3 \in 0..5
    /\ at = "validate" => Place3 = 5
    /\ at = "collect" /\ (expired \/ Roused) => Place3 = 2
    /\ at = "collect" /\ ~expired /\ ~Roused => Place3 = 4
    /\ at = "expiry" /\ expired => Place3 = 1
    /\ at = "expiry" /\ ~expired /\ Roused => Place3 = 4
    /\ at = "expiry" /\ ~expired /\ ~Roused => Place3 = 3
    /\ at = "parked" /\ (expired \/ Roused) => Place3 = 3
    /\ at = "parked" /\ ~expired /\ ~Roused => Place3 = 2
    /\ at = "done" => Place3 = 0

LEMMA Place3Is == at \in Places3 => Place3Tells
<1> SUFFICES ASSUME at \in Places3 PROVE Place3Tells
    OBVIOUS
<1>1. CASE at \in {"validate", "done"}
    BY <1>1 DEF Place3, Place3Tells
<1>2. CASE at = "collect"
    BY <1>2 DEF Place3, Place3Tells, Roused
<1>3. CASE at = "expiry"
    BY <1>3 DEF Place3, Place3Tells, Roused
<1>4. CASE at = "parked"
    BY <1>4 DEF Place3, Place3Tells, Roused
<1> QED
    BY <1>1, <1>2, <1>3, <1>4 DEF Places3

\* What is still to do is less after a step than before: for the client and the
\* timer, for the reader of Preview 2, or for the collector of Preview 3.
LessToSend ==
    \/ Unsent' < Unsent
    \/ Unsent' = Unsent /\ Sending' < Sending
    \/ Unsent' = Unsent /\ Sending' = Sending /\ Ticking' < Ticking

LessToRead ==
    /\ UNCHANGED bodyVars
    /\ \/ Unread' < Unread
       \/ Unread' = Unread /\ Patience' < Patience
       \/ Unread' = Unread /\ Patience' = Patience /\ Place2' < Place2

LessToCollect ==
    /\ UNCHANGED bodyVars
    /\ UNCHANGED readerVars
    /\ \/ Uncollected' < Uncollected
       \/ Uncollected' = Uncollected /\ Place3' < Place3

LEMMA SendingEnds ==
    ASSUME IngestInvariant, Outside
    PROVE  LessToSend
<1>1. sent \in Nat
    BY DEF IngestInvariant, ClientTypes
<1>2. CASE \E n \in 1..MaxBody : Arrive(n)
  <2>1. PICK n \in 1..MaxBody : Arrive(n)
      BY <1>2
  <2>2. Unsent' < Unsent
      BY <1>1, <2>1 DEF Arrive, Unsent
  <2> QED
      BY <2>2 DEF LessToSend
<1>3. CASE \E how \in {"closed", "failed"} : CloseBody(how)
    BY <1>3 DEF CloseBody, LessToSend, Unsent, Sending
<1>4. CASE Expire
    BY <1>4 DEF Expire, LessToSend, Unsent, Sending, Ticking
<1> QED
    BY <1>2, <1>3, <1>4 DEF Outside, Environment, ClientNext

LEMMA ReadingEnds ==
    ASSUME IngestInvariant, IngestInvariant', ReaderNext
    PROVE  LessToRead
<1>1. /\ got \in Nat /\ empties \in Nat
      /\ pc \in Places2 /\ pc' \in Places2
    BY DEF IngestInvariant, Reader, ClientTypes
<1>2. Place2Tells /\ Place2Tells'
  <2>1. (pc \in Places2 => Place2Tells)'
      BY Place2Is, PTL
  <2> QED
      BY <1>1, <2>1, Place2Is
<1>3. ASSUME UNCHANGED <<bodyVars, got, empties>>, Place2' < Place2
      PROVE  LessToRead
    BY <1>3 DEF LessToRead, Unread, Patience
<1>4. ASSUME NEW v, Return(v), pc # "done" PROVE LessToRead
  <2>1. Place2' = 0 /\ Place2 \in 1..6
    <3>1. pc' = "done"
        BY <1>4 DEF Return
    <3> QED
        BY <1>1, <1>2, <1>4, <3>1 DEF Place2Tells, Places2
  <2> QED
      BY <1>3, <1>4, <2>1 DEF Return
<1>5. Top = "check" \/ Top = "read"
    BY DEF Top
<1>6. CASE Convert \/ ConvertFails
  <2>1. CASE Convert
      BY <1>2, <1>3, <2>1 DEF Convert, Place2Tells
  <2> QED
      BY <1>4, <1>6, <2>1 DEF ConvertFails
<1>7. CASE RejectLength \/ SkipBody \/ Validated
  <2>1. CASE Validated
      BY <1>2, <1>3, <2>1 DEF Validated, Place2Tells
  <2> QED
      BY <1>4, <1>7, <2>1 DEF RejectLength, SkipBody
<1>8. CASE Open \/ OpenFails
  <2>1. CASE Open
      BY <1>2, <1>3, <1>5, <2>1 DEF Open, Place2Tells
  <2> QED
      BY <1>4, <1>8, <2>1 DEF OpenFails
<1>9. CASE CheckDeadline
  <2>1. CASE ~expired
      BY <1>2, <1>3, <1>9, <2>1 DEF CheckDeadline, Place2Tells
  <2> QED
      BY <1>4, <1>9, <2>1 DEF CheckDeadline
<1>10. CASE \E n \in 1..MaxBody : Take(n)
  <2>1. PICK n \in 1..MaxBody : Take(n)
      BY <1>10
  <2>2. CASE Return("BodyTooLarge")
      BY <1>4, <2>1, <2>2 DEF Take
  <2>3. CASE got' = got + n /\ UNCHANGED bodyVars
    <3>1. Unread' < Unread
        BY <1>1, <2>3 DEF Unread
    <3> QED
        BY <2>3, <3>1 DEF LessToRead
  <2> QED
      BY <2>1, <2>2, <2>3 DEF Take
<1>11. CASE ReadClosed \/ ReadFails
    BY <1>4, <1>11 DEF ReadClosed, ReadFails
<1>12. CASE ReadEmpty
  <2>1. empties' = empties + 1 /\ UNCHANGED <<bodyVars, got>>
      BY <1>12 DEF ReadEmpty
  <2>2. Patience' < Patience
      BY <1>1, <2>1 DEF Patience
  <2> QED
      BY <2>1, <2>2 DEF LessToRead, Unread
<1>13. CASE Poll
  <2>1. CASE expired
      BY <1>4, <1>13, <2>1 DEF Poll
  <2>2. CASE ~expired
      BY <1>2, <1>3, <1>5, <1>13, <2>2 DEF Poll, Place2Tells
  <2> QED
      BY <2>1, <2>2
<1> QED
    BY <1>6, <1>7, <1>8, <1>9, <1>10, <1>11, <1>12, <1>13 DEF ReaderNext

LEMMA CollectingEnds ==
    ASSUME IngestInvariant, IngestInvariant', IngestNext, UNCHANGED readerVars
    PROVE  LessToCollect
<1>1. /\ held \in Nat /\ sent \in Nat /\ held <= sent
      /\ at \in Places3 /\ at' \in Places3
      /\ expired => budget
    BY DEF IngestInvariant, Collector, Reader, ClientTypes
<1>2. Place3Tells /\ Place3Tells'
  <2>1. (at \in Places3 => Place3Tells)'
      BY Place3Is, PTL
  <2> QED
      BY <1>1, <2>1, Place3Is
<1>3. ASSUME UNCHANGED <<bodyVars, held>>, Place3' < Place3
      PROVE  LessToCollect
    BY <1>3 DEF LessToCollect, Uncollected
<1>4. ASSUME NEW v, Answer(v), at # "done" PROVE LessToCollect
  <2>1. Place3' = 0
      BY <1>2, <1>4 DEF Answer, Place3Tells
  <2>2. Place3 \in 1..5
      BY <1>1, <1>2, <1>4 DEF Place3Tells, Places3
  <2> QED
      BY <1>3, <1>4, <2>1, <2>2 DEF Answer
<1>5. ASSUME NEW place, GoTo(place)
      PROVE  /\ UNCHANGED <<bodyVars, held>> /\ at' = place
             /\ expired' = expired /\ Roused' = Roused
    BY <1>5 DEF GoTo, Roused, bodyVars, clientVars
<1>6. CASE Validate
  <2>1. CASE LengthError = "none"
    <3>1. at = "validate" /\ GoTo("collect")
        BY <1>6, <2>1 DEF Validate
    <3>2. Place3 = 5 /\ Place3' <= 4
        BY <1>2, <1>5, <3>1 DEF Place3Tells
    <3> QED
        BY <1>2, <1>3, <1>5, <3>1, <3>2 DEF Place3Tells
  <2> QED
      BY <1>4, <1>6, <2>1 DEF Validate
<1>7. CASE \E n \in 1..MaxBody : Frame(n)
  <2>1. PICK n \in 1..MaxBody : Frame(n)
      BY <1>7
  <2>2. CASE Answer("BodyTooLarge")
      BY <1>4, <2>1, <2>2 DEF Frame
  <2>3. CASE held' = held + n /\ UNCHANGED bodyVars
    <3>1. Uncollected' < Uncollected
        BY <1>1, <2>3 DEF Uncollected
    <3> QED
        BY <2>3, <3>1 DEF LessToCollect
  <2> QED
      BY <2>1, <2>2, <2>3 DEF Frame
<1>8. CASE Collected \/ CollectFails
    BY <1>4, <1>8 DEF Collected, CollectFails
<1>9. CASE NoFrame
  <2>1. at = "collect" /\ ~Roused
      BY <1>1, <1>9 DEF NoFrame, Roused
  <2>2. CASE budget
    <3>1. GoTo("expiry")
        BY <1>9, <2>2 DEF NoFrame
    <3>2. Place3' < Place3
        BY <1>2, <1>5, <2>1, <3>1 DEF Place3Tells
    <3> QED
        BY <1>3, <1>5, <3>1, <3>2
  <2>3. CASE ~budget
    <3>1. GoTo("parked") /\ ~expired
        BY <1>1, <1>9, <2>3 DEF NoFrame
    <3>2. Place3' < Place3
        BY <1>2, <1>5, <2>1, <3>1 DEF Place3Tells
    <3> QED
        BY <1>3, <1>5, <3>1, <3>2
  <2> QED
      BY <2>2, <2>3
<1>10. CASE Expiry
  <2>1. CASE expired
      BY <1>4, <1>10, <2>1 DEF Expiry
  <2>2. CASE ~expired
    <3>1. at = "expiry" /\ GoTo("parked")
        BY <1>10, <2>2 DEF Expiry
    <3>2. Place3' < Place3
        BY <1>2, <1>5, <2>2, <3>1 DEF Place3Tells
    <3> QED
        BY <1>3, <1>5, <3>1, <3>2
  <2> QED
      BY <2>1, <2>2
<1>11. CASE Woken
  <2>1. at = "parked" /\ (expired \/ Roused) /\ GoTo("collect")
      BY <1>11 DEF Woken, Roused
  <2>2. Place3' < Place3
      BY <1>2, <1>5, <2>1 DEF Place3Tells
  <2> QED
      BY <1>3, <1>5, <2>1, <2>2
<1> QED
    BY <1>6, <1>7, <1>8, <1>9, <1>10, <1>11 DEF IngestNext

\* What is still to do, as a list of numbers.
LeftToDo ==
    [i \in 1..8 |-> CASE i = 1 -> Unsent
                     [] i = 2 -> Sending
                     [] i = 3 -> Ticking
                     [] i = 4 -> Unread
                     [] i = 5 -> Patience
                     [] i = 6 -> Place2
                     [] i = 7 -> Uncollected
                     [] i = 8 -> Place3]

LeftToDoFalls == <<LeftToDo', LeftToDo>> \in Falling(8)

LeftToDoTells ==
    /\ LeftToDo \in [1..8 -> Nat]
    /\ LeftToDo[1] = Unsent /\ LeftToDo[2] = Sending /\ LeftToDo[3] = Ticking
    /\ LeftToDo[4] = Unread /\ LeftToDo[5] = Patience /\ LeftToDo[6] = Place2
    /\ LeftToDo[7] = Uncollected /\ LeftToDo[8] = Place3

LEMMA LeftToDoIs == IngestInvariant => LeftToDoTells
<1> SUFFICES ASSUME IngestInvariant PROVE LeftToDoTells
    OBVIOUS
<1>1. Unsent \in Nat /\ Sending \in Nat /\ Ticking \in Nat
    BY DEF IngestInvariant, ClientTypes, Unsent, Sending, Ticking
<1>2. Unread \in Nat /\ Patience \in Nat /\ Uncollected \in Nat
    BY DEF IngestInvariant, ClientTypes, Reader, Collector, Unread, Patience, Uncollected
<1>3. Place2 \in Nat /\ Place3 \in Nat
    BY Place2Is, Place3Is DEF IngestInvariant, Reader, Collector, Place2Tells, Place3Tells
<1>4. /\ LeftToDo[1] = Unsent /\ LeftToDo[2] = Sending /\ LeftToDo[3] = Ticking
      /\ LeftToDo[4] = Unread /\ LeftToDo[5] = Patience /\ LeftToDo[6] = Place2
      /\ LeftToDo[7] = Uncollected /\ LeftToDo[8] = Place3
    BY DEF LeftToDo
<1>5. \A i \in 1..8 : LeftToDo[i] \in Nat
  <2>1. \A i \in 1..8 : i = 1 \/ i = 2 \/ i = 3 \/ i = 4 \/ i = 5 \/ i = 6 \/ i = 7 \/ i = 8
      OBVIOUS
  <2> QED
      BY <1>1, <1>2, <1>3, <1>4, <2>1
<1>6. LeftToDo = [i \in 1..8 |-> LeftToDo[i]]
    BY DEF LeftToDo
<1> QED
    BY <1>4, <1>5, <1>6 DEF LeftToDoTells

\* Whatever the client and the host do, every step that is taken, by either reader,
\* the client or the timer, leaves less to do, and what is to do cannot get less for
\* ever: neither loop spins, not on empty reads and not on wake-ups.
THEOREM ReadingIsFinite ==
    /\ BothSpec => [][LeftToDoFalls]_bothVars
    /\ IsWellFoundedOn(Falling(8), [1..8 -> Nat])
<1>1. IngestInvariant /\ IngestInvariant' /\ [BothNext]_bothVars
          => [LeftToDoFalls]_bothVars
  <2> SUFFICES ASSUME IngestInvariant, IngestInvariant', BothNext
               PROVE  <<LeftToDo', LeftToDo>> \in Falling(8)
      BY DEF LeftToDoFalls
  <2>1. LessToSend \/ (LessToRead /\ UNCHANGED ingestVars) \/ LessToCollect
      BY SendingEnds, ReadingEnds, CollectingEnds DEF BothNext, Preview2Reads, Preview3Reads
  <2>2. LeftToDoTells /\ LeftToDoTells'
      BY LeftToDoIs, PTL
  <2> PICK s : s = LeftToDo'
      OBVIOUS
  <2> PICK t : t = LeftToDo
      OBVIOUS
  <2>3. /\ s \in [1..8 -> Nat] /\ t \in [1..8 -> Nat]
        /\ s[1] = Unsent' /\ t[1] = Unsent /\ s[2] = Sending' /\ t[2] = Sending
        /\ s[3] = Ticking' /\ t[3] = Ticking /\ s[4] = Unread' /\ t[4] = Unread
        /\ s[5] = Patience' /\ t[5] = Patience /\ s[6] = Place2' /\ t[6] = Place2
        /\ s[7] = Uncollected' /\ t[7] = Uncollected /\ s[8] = Place3' /\ t[8] = Place3
      BY <2>2 DEF LeftToDoTells
  <2>4. ASSUME NEW j \in 1..8, s[j] < t[j], \A i \in 1..(j - 1) : s[i] = t[i]
        PROVE  <<s, t>> \in Falling(8)
      BY <2>3, <2>4, FallsAt
  <2>5. UNCHANGED bodyVars => s[1] = t[1] /\ s[2] = t[2] /\ s[3] = t[3]
      BY <2>3 DEF bodyVars, clientVars, Unsent, Sending, Ticking
  <2>6. UNCHANGED readerVars => s[4] = t[4] /\ s[5] = t[5] /\ s[6] = t[6]
      BY <2>3 DEF readerVars, Unread, Patience, Place2
  <2>7. CASE LessToSend
    <3>1. \/ s[1] < t[1]
          \/ s[1] = t[1] /\ s[2] < t[2]
          \/ s[1] = t[1] /\ s[2] = t[2] /\ s[3] < t[3]
        BY <2>3, <2>7 DEF LessToSend
    <3>2. CASE s[1] < t[1]
        BY <2>4, <3>2
    <3>3. CASE s[1] = t[1] /\ s[2] < t[2]
      <4>1. \A i \in 1..(2 - 1) : s[i] = t[i]
        <5>1. \A i \in 1..(2 - 1) : i = 1
            OBVIOUS
        <5> QED
            BY ONLY <5>1, <3>3
      <4> QED
          BY <2>4, <3>3, <4>1
    <3>4. CASE s[1] = t[1] /\ s[2] = t[2] /\ s[3] < t[3]
      <4>1. \A i \in 1..(3 - 1) : s[i] = t[i]
        <5>1. \A i \in 1..(3 - 1) : i = 1 \/ i = 2
            OBVIOUS
        <5> QED
            BY ONLY <5>1, <3>4
      <4> QED
          BY <2>4, <3>4, <4>1
    <3> QED
        BY <3>1, <3>2, <3>3, <3>4
  <2>8. CASE LessToRead
    <3>1. s[1] = t[1] /\ s[2] = t[2] /\ s[3] = t[3]
        BY <2>5, <2>8 DEF LessToRead
    <3>2. \/ s[4] < t[4]
          \/ s[4] = t[4] /\ s[5] < t[5]
          \/ s[4] = t[4] /\ s[5] = t[5] /\ s[6] < t[6]
        BY <2>3, <2>8 DEF LessToRead
    <3>3. CASE s[4] < t[4]
      <4>1. \A i \in 1..(4 - 1) : s[i] = t[i]
        <5>1. \A i \in 1..(4 - 1) : i = 1 \/ i = 2 \/ i = 3
            OBVIOUS
        <5> QED
            BY ONLY <5>1, <3>1, <3>3
      <4> QED
          BY <2>4, <3>3, <4>1
    <3>4. CASE s[4] = t[4] /\ s[5] < t[5]
      <4>1. \A i \in 1..(5 - 1) : s[i] = t[i]
        <5>1. \A i \in 1..(5 - 1) : i = 1 \/ i = 2 \/ i = 3 \/ i = 4
            OBVIOUS
        <5> QED
            BY ONLY <5>1, <3>1, <3>4
      <4> QED
          BY <2>4, <3>4, <4>1
    <3>5. CASE s[4] = t[4] /\ s[5] = t[5] /\ s[6] < t[6]
      <4>1. \A i \in 1..(6 - 1) : s[i] = t[i]
        <5>1. \A i \in 1..(6 - 1) : i = 1 \/ i = 2 \/ i = 3 \/ i = 4 \/ i = 5
            OBVIOUS
        <5> QED
            BY ONLY <5>1, <3>1, <3>5
      <4> QED
          BY <2>4, <3>5, <4>1
    <3> QED
        BY <3>2, <3>3, <3>4, <3>5
  <2>9. CASE LessToCollect
    <3>1. s[1] = t[1] /\ s[2] = t[2] /\ s[3] = t[3] /\ s[4] = t[4] /\ s[5] = t[5] /\ s[6] = t[6]
        BY <2>5, <2>6, <2>9 DEF LessToCollect
    <3>2. s[7] < t[7] \/ (s[7] = t[7] /\ s[8] < t[8])
        BY <2>3, <2>9 DEF LessToCollect
    <3>3. CASE s[7] < t[7]
      <4>1. \A i \in 1..(7 - 1) : s[i] = t[i]
        <5>1. \A i \in 1..(7 - 1) : i = 1 \/ i = 2 \/ i = 3 \/ i = 4 \/ i = 5 \/ i = 6
            OBVIOUS
        <5> QED
            BY ONLY <5>1, <3>1, <3>3
      <4> QED
          BY <2>4, <3>3, <4>1
    <3>4. CASE s[7] = t[7] /\ s[8] < t[8]
      <4>1. \A i \in 1..(8 - 1) : s[i] = t[i]
        <5>1. \A i \in 1..(8 - 1) : i = 1 \/ i = 2 \/ i = 3 \/ i = 4 \/ i = 5 \/ i = 6 \/ i = 7
            OBVIOUS
        <5> QED
            BY ONLY <5>1, <3>1, <3>4
      <4> QED
          BY <2>4, <3>4, <4>1
    <3> QED
        BY <3>2, <3>3, <3>4
  <2> QED
      BY <2>1, <2>7, <2>8, <2>9
<1>2. BothSpec => [][LeftToDoFalls]_bothVars
    BY <1>1, IngestInvariantHolds, PTL DEF BothSpec
<1> QED
    BY <1>2, NothingFallsForEver
=============================================================================
