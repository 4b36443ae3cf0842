----------------------------- MODULE SetupProofs -----------------------------
(***************************************************************************)
(* Proofs about what a component does before a request is rendered, for    *)
(* any modes, any application and any number of calls: what a spawner call *)
(* was told is still true after every later one; what a request has been   *)
(* through decides who answers it; a route table is the application's.     *)
(***************************************************************************)
EXTENDS Setup, StaticPathProofs

-----------------------------------------------------------------------------
(* SpawnerInit *)

Conflict == "SpawnerAlreadyInitialized"
WrongMode == "Preview2ModeMismatch"

Results == {"Ok", Conflict, WrongMode, "Registered", "Preview2NotInitialized"}

AllCalls ==
    [name : {"Executor::new", "init_wasip2_executor", "init_wasip3_spawner",
             "WaitPoll::poll"},
     mode : Modes \cup {"none"}]

AnswerTypes == answers \in Seq([call : AllCalls, result : Results])

\* The memos know who holds the slot, and a thread's executor keeps its mode.
MemosAreTrue ==
    /\ memo2 = "Initialized" => spawner = "preview2" /\ queue /\ executor # {}
    /\ memo2 = "Conflict" => spawner \notin {"none", "preview2"}
    /\ memo3 = "Initialized" => spawner = "preview3"
    /\ memo3 = "Conflict" => spawner \notin {"none", "preview3"}
    /\ spawner = "preview2" => memo2 = "Initialized"
    /\ spawner = "preview3" => memo3 = "Initialized"
    /\ \A m, n \in executor : m = n

\* Every answer is the one its memo gives today.
Justified2(a) ==
    \A mode \in Modes : a.call = Call2(mode) =>
        \/ a.result = "Ok" /\ memo2 = "Initialized" /\ executor = {mode}
        \/ a.result = Conflict /\ memo2 = "Conflict"
        \/ a.result = WrongMode /\ Mismatch(mode)

Justified3(a) ==
    a.call = Call3 =>
        \/ a.result = "Ok" /\ memo3 = "Initialized"
        \/ a.result = Conflict /\ memo3 = "Conflict"

AnswersAreJustified ==
    \A i \in 1..Len(answers) : Justified2(answers[i]) /\ Justified3(answers[i])

SpawnerInv ==
    /\ SpawnerTypeOK /\ AnswerTypes
    /\ MemosAreTrue
    /\ AnswersAreJustified
    /\ \A mode \in Modes : Consistent(Calls2(mode))

LEMMA SpawnerInitially == SpawnerInit => SpawnerInv
<1> SUFFICES ASSUME SpawnerInit PROVE SpawnerInv
    OBVIOUS
<1> USE DEF SpawnerInit
<1>1. SpawnerTypeOK /\ AnswerTypes
  <2>1. queue \in BOOLEAN
      BY Zenon
  <2>2. answers = <<>> /\ Len(answers) = 0
      OBVIOUS
  <2>3. Len(answers) \in 0..MaxInits /\ AnswerTypes
      BY <2>2, MaxInitsAssumption DEF AnswerTypes
  <2> QED
      BY <2>1, <2>3 DEF SpawnerTypeOK, Memos, Spawners
<1>2. MemosAreTrue
    BY DEF MemosAreTrue
<1>3. AnswersAreJustified /\ \A mode \in Modes : Consistent(Calls2(mode))
    BY DEF AnswersAreJustified, Consistent, Calls2
<1> QED
    BY <1>1, <1>2, <1>3 DEF SpawnerInv

\* A step that leaves no memo behind: what was justified stays so, as long as the
\* memos only go from unset to set and the executor from none to one.
OnlyForward ==
    /\ memo2 # "unset" => memo2' = memo2
    /\ memo3 # "unset" => memo3' = memo3
    /\ executor # {} => executor' = executor

LEMMA OldAnswersStay ==
    ASSUME SpawnerInv, OnlyForward,
           NEW i \in 1..Len(answers), answers'[i] = answers[i]
    PROVE  (Justified2(answers[i]) /\ Justified3(answers[i]))'
<1>1. Justified2(answers[i]) /\ Justified3(answers[i])
    BY DEF SpawnerInv, AnswersAreJustified
<1>2. Justified2(answers[i])'
    BY <1>1 DEF Justified2, SpawnerInv, MemosAreTrue, OnlyForward, Mismatch
<1>3. Justified3(answers[i])'
    BY <1>1 DEF Justified3, OnlyForward
<1> QED
    BY <1>2, <1>3

\* A call's own answer keeps the invariant if it is justified, and if a conflict
\* that is remembered is what every later initialization is told.
LEMMA NewAnswerFits ==
    ASSUME SpawnerInv, OnlyForward, MemosAreTrue', SpawnerTypeOK',
           NEW call \in AllCalls, NEW result \in Results,
           Answer(call, result),
           Justified2([call |-> call, result |-> result])',
           Justified3([call |-> call, result |-> result])',
           \A mode \in Modes :
               call = Call2(mode) /\ memo2 = "Conflict" => result = Conflict
    PROVE  SpawnerInv'
<1> DEFINE new == [call |-> call, result |-> result]
<1>1. /\ answers' = Append(answers, new)
      /\ AnswerTypes /\ AnswerTypes'
    BY DEF Answer, SpawnerInv, AnswerTypes
<1>2. /\ Len(answers') = Len(answers) + 1
      /\ DOMAIN answers = 1..Len(answers) /\ DOMAIN answers' = 1..Len(answers')
      /\ Len(answers) \in Nat
      /\ \A i \in 1..Len(answers) : answers'[i] = answers[i]
      /\ answers'[Len(answers) + 1] = new
    BY <1>1 DEF AnswerTypes
<1>3. AnswersAreJustified'
  <2>1. ASSUME NEW i \in 1..Len(answers)
        PROVE  (Justified2(answers[i]) /\ Justified3(answers[i]))'
      BY <1>2, OldAnswersStay
  <2>2. (Justified2(answers[Len(answers)]) /\ Justified3(answers[Len(answers)]))'
      BY <1>2 DEF Justified2, Justified3
  <2> QED
      BY <1>2, <2>1, <2>2 DEF AnswersAreJustified
<1>4. ASSUME NEW mode \in Modes PROVE Consistent(Calls2(mode))'
  <2> SUFFICES ASSUME NEW i \in 1..Len(answers'), NEW j \in 1..Len(answers'), i < j,
                      answers'[i].call = Call2(mode), answers'[j].call = Call2(mode),
                      answers'[i].result # WrongMode
               PROVE  answers'[j].result = answers'[i].result
      BY <1>2 DEF Consistent, Calls2, WrongMode, Call2, Invoked
  <2>1. CASE j <= Len(answers)
    <3>1. /\ i \in 1..Len(answers) /\ j \in 1..Len(answers)
          /\ answers'[i] = answers[i] /\ answers'[j] = answers[j]
        BY <1>2, <2>1
    <3>2. Consistent(Calls2(mode))
        BY DEF SpawnerInv
    <3> QED
        BY <3>1, <3>2 DEF Consistent, Calls2, WrongMode
  <2>2. CASE j = Len(answers) + 1
    <3>1. Justified2(answers[i])
        BY <1>2, <2>2 DEF SpawnerInv, AnswersAreJustified
    <3>2. Justified2(answers[i])' /\ Justified2(answers[j])'
        BY <1>3 DEF AnswersAreJustified
    <3>3. CASE answers[i].result = Conflict
        BY <1>2, <2>2, <3>1, <3>3 DEF Justified2, Conflict, WrongMode
    <3>4. CASE answers[i].result = "Ok"
        BY <1>2, <2>2, <3>2, <3>4 DEF Justified2, Mismatch, Conflict, WrongMode
    <3> QED
        BY <1>2, <2>2, <3>1, <3>3, <3>4 DEF Justified2
  <2> QED
      BY <1>2, <2>1, <2>2
<1> QED
    BY <1>1, <1>3, <1>4 DEF SpawnerInv

LEMMA SilentStep ==
    ASSUME SpawnerInv, OnlyForward, MemosAreTrue', SpawnerTypeOK', UNCHANGED answers
    PROVE  SpawnerInv'
<1>1. AnswersAreJustified'
  <2>1. ASSUME NEW i \in 1..Len(answers)
        PROVE  (Justified2(answers[i]) /\ Justified3(answers[i]))'
      BY OldAnswersStay
  <2> QED
      BY <2>1 DEF AnswersAreJustified
<1>2. AnswerTypes' /\ \A mode \in Modes : Consistent(Calls2(mode))'
    BY DEF SpawnerInv, AnswerTypes, Consistent, Calls2
<1> QED
    BY <1>1, <1>2 DEF SpawnerInv

\* A call and its answer have their types, and there is room for them.
LEMMA AnswerHasRoom ==
    ASSUME SpawnerInv, NEW call, NEW result, Answer(call, result)
    PROVE  Len(answers') \in 0..MaxInits
BY MaxInitsAssumption DEF SpawnerInv, AnswerTypes, Answer

LEMMA NewExecutorKeeps ==
    ASSUME SpawnerInv, NEW mode \in Modes, NewExecutor(mode)
    PROVE  SpawnerInv'
<1> DEFINE call == Invoked("Executor::new", mode)
<1> USE DEF NewExecutor, CreateExecutor, Mismatch
<1>1. OnlyForward
    BY DEF OnlyForward
<1>2. MemosAreTrue'
    BY DEF MemosAreTrue, SpawnerInv
<1>3. PICK result \in Results : Answer(call, result)
    BY DEF WrongMode, Results
<1>4. SpawnerTypeOK'
  <2>1. queue' \in BOOLEAN
      BY DEF SpawnerTypeOK, SpawnerInv
  <2> QED
      BY <1>3, <2>1, AnswerHasRoom DEF SpawnerTypeOK, SpawnerInv
<1>5. (Justified2([call |-> call, result |-> result])
          /\ Justified3([call |-> call, result |-> result]))'
      /\ \A m \in Modes : call # Call2(m)
    BY DEF Justified2, Justified3, Call2, Call3, Invoked
<1>6. call \in AllCalls
    BY DEF AllCalls, Invoked
<1> QED
    BY <1>1, <1>2, <1>3, <1>4, <1>5, <1>6, NewAnswerFits

LEMMA AwaitPollableKeeps ==
    ASSUME SpawnerInv, AwaitPollable
    PROVE  SpawnerInv'
<1> DEFINE call == Invoked("WaitPoll::poll", "none")
<1> USE DEF AwaitPollable
<1>1. OnlyForward /\ MemosAreTrue'
    BY DEF OnlyForward, MemosAreTrue, SpawnerInv
<1>2. PICK result \in Results : Answer(call, result)
    BY DEF Results
<1>3. SpawnerTypeOK'
    BY <1>2, AnswerHasRoom DEF SpawnerTypeOK, SpawnerInv
<1>4. (Justified2([call |-> call, result |-> result])
          /\ Justified3([call |-> call, result |-> result]))'
      /\ \A m \in Modes : call # Call2(m)
    BY DEF Justified2, Justified3, Call2, Call3, Invoked
<1>5. call \in AllCalls
    BY DEF AllCalls, Invoked
<1> QED
    BY <1>1, <1>2, <1>3, <1>4, <1>5, NewAnswerFits

LEMMA InstallForeignKeeps ==
    ASSUME SpawnerInv, InstallForeign
    PROVE  SpawnerInv'
<1> USE DEF InstallForeign, SpawnerInv
<1>1. OnlyForward /\ MemosAreTrue'
    BY DEF OnlyForward, MemosAreTrue
<1>2. SpawnerTypeOK'
    BY DEF SpawnerTypeOK, Spawners
<1> QED
    BY <1>1, <1>2, SilentStep

LEMMA InitPreview3Keeps ==
    ASSUME SpawnerInv, InitPreview3
    PROVE  SpawnerInv'
<1> USE DEF InitPreview3, Installs
<1>1. OnlyForward
    BY DEF OnlyForward
<1>2. MemosAreTrue'
    BY DEF MemosAreTrue, SpawnerInv, SpawnerTypeOK, Memos
<1>3. PICK result \in Results :
          /\ Answer(Call3, result)
          /\ result = IF memo3' = "Initialized" THEN "Ok" ELSE Conflict
    BY DEF Results, Conflict
<1>4. memo3' \in {"Initialized", "Conflict"}
    BY DEF SpawnerInv, SpawnerTypeOK, Memos
<1>5. SpawnerTypeOK'
    BY <1>3, <1>4, AnswerHasRoom DEF SpawnerTypeOK, SpawnerInv, Memos, Spawners
<1>6. (Justified2([call |-> Call3, result |-> result])
          /\ Justified3([call |-> Call3, result |-> result]))'
      /\ \A m \in Modes : Call3 # Call2(m)
    BY <1>3, <1>4 DEF Justified2, Justified3, Call2, Call3, Invoked
<1>7. Call3 \in AllCalls
    BY DEF AllCalls, Invoked, Call3
<1> QED
    BY <1>1, <1>2, <1>3, <1>5, <1>6, <1>7, NewAnswerFits

LEMMA InitPreview2Keeps ==
    ASSUME SpawnerInv, NEW mode \in Modes, InitPreview2(mode)
    PROVE  SpawnerInv'
<1> USE DEF InitPreview2, FirstInit2, CreateExecutor, Installs, Installed2,
            Mismatch, MemoResult
<1>1. OnlyForward
    BY DEF OnlyForward
<1>2. MemosAreTrue'
    BY DEF MemosAreTrue, SpawnerInv, SpawnerTypeOK, Memos
<1>3. PICK result \in Results :
          /\ Answer(Call2(mode), result)
          /\ \/ result = "Ok" /\ memo2' = "Initialized" /\ executor' = {mode}
             \/ result = Conflict /\ memo2' = "Conflict"
             \/ result = WrongMode /\ executor' \notin {{}, {mode}} /\ memo2 # "Conflict"
  <2>1. CASE memo2 = "unset" /\ Mismatch(mode)
      BY <2>1 DEF Results, WrongMode
  <2>2. CASE memo2 = "unset" /\ ~Mismatch(mode) /\ spawner = "none"
      BY <2>2 DEF Results
  <2>3. CASE memo2 = "unset" /\ ~Mismatch(mode) /\ spawner # "none"
      BY <2>3 DEF Results, Conflict
  <2>4. CASE memo2 = "Conflict"
      BY <2>4 DEF Results, Conflict
  <2>5. CASE memo2 = "Initialized"
      BY <2>5 DEF Results, WrongMode, SpawnerInv, MemosAreTrue
  <2> QED
      BY <2>1, <2>2, <2>3, <2>4, <2>5 DEF SpawnerInv, SpawnerTypeOK, Memos
<1>4. SpawnerTypeOK'
  <2>1. queue' \in BOOLEAN
      BY DEF SpawnerTypeOK, SpawnerInv
  <2> QED
      BY <1>3, <2>1, AnswerHasRoom DEF SpawnerTypeOK, SpawnerInv, Memos, Spawners
<1>5. (Justified2([call |-> Call2(mode), result |-> result])
          /\ Justified3([call |-> Call2(mode), result |-> result]))'
      /\ \A m \in Modes : Call2(m) = Call2(mode) => m = mode
    BY <1>3 DEF Justified2, Justified3, Call2, Call3, Invoked
<1>6. memo2 = "Conflict" => result = Conflict
    BY <1>3 DEF Conflict
<1>7. Call2(mode) \in AllCalls
    BY DEF AllCalls, Invoked, Call2
<1> QED
    BY <1>1, <1>2, <1>3, <1>4, <1>5, <1>6, <1>7, NewAnswerFits

LEMMA SpawnerSteps == SpawnerInv /\ [SpawnerNext]_spawnerVars => SpawnerInv'
<1> SUFFICES ASSUME SpawnerInv, [SpawnerNext]_spawnerVars PROVE SpawnerInv'
    OBVIOUS
<1>1. CASE UNCHANGED spawnerVars
  <2>1. OnlyForward /\ MemosAreTrue' /\ SpawnerTypeOK'
      BY <1>1 DEF OnlyForward, MemosAreTrue, SpawnerTypeOK, SpawnerInv, spawnerVars
  <2> QED
      BY <1>1, <2>1, SilentStep DEF spawnerVars
<1> QED
    BY <1>1, NewExecutorKeeps, InitPreview2Keeps, InitPreview3Keeps,
       InstallForeignKeeps, AwaitPollableKeeps DEF SpawnerNext

\* The inductive invariant, for any modes and any number of calls.
THEOREM SpawnerInvariant == SpawnerSpec => []SpawnerInv
BY SpawnerInitially, SpawnerSteps, PTL DEF SpawnerSpec

LEMMA OkShows == SpawnerInv => OkMeansInstalled
<1> SUFFICES ASSUME SpawnerInv PROVE OkMeansInstalled
    OBVIOUS
<1>1. DOMAIN answers = 1..Len(answers)
    BY DEF SpawnerInv, AnswerTypes
<1> QED
    BY <1>1 DEF SpawnerInv, MemosAreTrue, AnswersAreJustified, Justified2,
       Justified3, OkMeansInstalled, Ok, Calls2, Calls3, Conflict, WrongMode

\* An initialization that returned Ok has the slot, for good.
THEOREM OkIsInstalled == SpawnerSpec => []OkMeansInstalled
BY SpawnerInvariant, OkShows, PTL

LEMMA AnswersShow == SpawnerInv => AnswersAreConsistent
<1> SUFFICES ASSUME SpawnerInv PROVE AnswersAreConsistent
    OBVIOUS
<1>1. DOMAIN answers = 1..Len(answers)
    BY DEF SpawnerInv, AnswerTypes
<1>2. Consistent(Calls3)
    BY <1>1 DEF SpawnerInv, AnswersAreJustified, Justified3, Consistent, Calls3
<1> QED
    BY <1>2 DEF SpawnerInv, AnswersAreConsistent

\* What one request was told every later one is told.
THEOREM SameAnswersAlways == SpawnerSpec => []AnswersAreConsistent
BY SpawnerInvariant, AnswersShow, PTL

-----------------------------------------------------------------------------
(* RouteTable *)

\* Two paths have one collision key exactly if every URL matches or misses both.
LEMMA KeysMeanPatterns ==
    ASSUME NEW X, NEW p \in Seq(X), NEW q \in Seq(X)
    PROVE  CollisionKey(p) = CollisionKey(q) <=> SamePattern(p, q)
<1> DEFINE one(s) == IF s.segment = "param" THEN Param("_") ELSE s
<1>1. Param("_").segment = "param"
    BY DEF Param
<1>2. ASSUME NEW s, NEW t
      PROVE  one(s) = one(t) <=> s = t \/ (s.segment = "param" /\ t.segment = "param")
  <2> DEFINE p0 == Param("_")
  <2> HIDE DEF p0
  <2>1. p0.segment = "param"
      BY <1>1 DEF p0
  <2>2. /\ s.segment = "param" => one(s) = p0
        /\ s.segment # "param" => one(s) = s
        /\ t.segment = "param" => one(t) = p0
        /\ t.segment # "param" => one(t) = t
      BY DEF p0
  <2> HIDE DEF one
  <2>3. CASE s.segment = "param" /\ t.segment = "param"
      BY <2>2, <2>3
  <2>4. CASE s.segment = "param" /\ t.segment # "param"
    <3>1. one(s) = p0 /\ one(t) = t
        BY <2>2, <2>4
    <3> QED
        BY <2>1, <2>4, <3>1
  <2>5. CASE s.segment # "param" /\ t.segment = "param"
    <3>1. one(t) = p0 /\ one(s) = s
        BY <2>2, <2>5
    <3> QED
        BY <2>1, <2>5, <3>1
  <2>6. CASE s.segment # "param" /\ t.segment # "param"
      BY <2>2, <2>6
  <2> QED
      BY <2>3, <2>4, <2>5, <2>6
<1>3. /\ CollisionKey(p) = [i \in 1..Len(p) |-> one(p[i])]
      /\ CollisionKey(q) = [i \in 1..Len(q) |-> one(q[i])]
    BY DEF CollisionKey
<1>4. /\ Len(p) \in Nat /\ DOMAIN p = 1..Len(p)
      /\ Len(q) \in Nat /\ DOMAIN q = 1..Len(q)
    OBVIOUS
<1> HIDE DEF one
<1>7. DOMAIN CollisionKey(p) = 1..Len(p) /\ DOMAIN CollisionKey(q) = 1..Len(q)
    BY DEF CollisionKey
<1>5. ASSUME CollisionKey(p) = CollisionKey(q) PROVE SamePattern(p, q)
  <2>1. Len(p) = Len(q)
    <3>1. PICK d : d = DOMAIN CollisionKey(p)
        OBVIOUS
    <3>2. d = DOMAIN CollisionKey(q)
        BY ONLY <1>5, <3>1
    <3>3. d = 1..Len(p) /\ d = 1..Len(q)
        BY <1>7, <3>1, <3>2
    <3>4. \A m, n \in Nat : d = 1..m /\ d = 1..n => m = n
      <4>1. SUFFICES ASSUME NEW m \in Nat, NEW n \in Nat, d = 1..m, d = 1..n
                     PROVE  m = n
          OBVIOUS
      <4>2. (m # 0 => m \in d) /\ (n # 0 => n \in d)
          BY ONLY <4>1
      <4>3. (m # 0 => m \in 1..n) /\ (n # 0 => n \in 1..m)
          BY <4>1, <4>2
      <4> QED
          BY <4>3
    <3>5. Len(p) \in Nat /\ Len(q) \in Nat
        BY <1>4
    <3> QED
        BY ONLY <3>3, <3>4, <3>5, Zenon
  <2>2. ASSUME NEW i \in 1..Len(p) PROVE one(p[i]) = one(q[i])
    <3>1. CollisionKey(p)[i] = one(p[i]) /\ CollisionKey(q)[i] = one(q[i])
        BY <1>3, <2>1
    <3> QED
        BY <3>1, <1>5
  <2> QED
      BY <2>1, <2>2, <1>2, <1>4 DEF SamePattern
<1>6. ASSUME SamePattern(p, q) PROVE CollisionKey(p) = CollisionKey(q)
  <2>1. Len(p) = Len(q) /\ \A i \in 1..Len(p) : one(p[i]) = one(q[i])
      BY <1>2, <1>4, <1>6 DEF SamePattern
  <2> QED
      BY <2>1, <1>3
<1> QED
    BY <1>5, <1>6

Symbols == Segments \cup {Param(s.name) : s \in Segments}
Spellings == Seq(Seq(Symbols))
HasMalformed(path, i) == \E j \in i..Len(path) : path[j] = Malformed

Spelled(path, i, rest) ==
    /\ rest \in Spellings
    /\ Len(rest) > 0
    /\ \A k \in 1..Len(rest) :
           (\E j \in 1..Len(rest[k]) : rest[k][j] = Malformed) <=> HasMalformed(path, i)

\* The spellings of a path from its i-th segment on.
From(path, i, rest) ==
    LET with(segment) == [k \in DOMAIN rest |-> <<segment>> \o rest[k]]
    IN IF path[i].segment = "optional"
       THEN with(Param(path[i].name)) \o rest
       ELSE with(path[i])

LEMMA WithOne ==
    ASSUME NEW s \in Symbols, NEW rest \in Spellings, Len(rest) > 0
    PROVE  LET more == [k \in DOMAIN rest |-> <<s>> \o rest[k]]
           IN  /\ more \in Spellings
               /\ Len(more) = Len(rest)
               /\ \A k \in 1..Len(rest) :
                      (\E j \in 1..Len(more[k]) : more[k][j] = Malformed)
                      <=> s = Malformed \/ \E j \in 1..Len(rest[k]) : rest[k][j] = Malformed
<1> DEFINE more == [k \in DOMAIN rest |-> <<s>> \o rest[k]]
<1>1. /\ DOMAIN rest = 1..Len(rest) /\ Len(rest) \in Nat
      /\ \A k \in 1..Len(rest) : rest[k] \in Seq(Symbols)
    BY DEF Spellings
<1>2. \A k \in 1..Len(rest) : <<s>> \o rest[k] \in Seq(Symbols)
    BY <1>1
<1>3. more \in Spellings /\ Len(more) = Len(rest)
    BY <1>1, <1>2 DEF Spellings
<1>4. ASSUME NEW k \in 1..Len(rest)
      PROVE  (\E j \in 1..Len(more[k]) : more[k][j] = Malformed)
             <=> s = Malformed \/ \E j \in 1..Len(rest[k]) : rest[k][j] = Malformed
  <2>1. more[k] = <<s>> \o rest[k] /\ rest[k] \in Seq(Symbols)
      BY <1>1
  <2>2. /\ Len(more[k]) = Len(rest[k]) + 1 /\ Len(rest[k]) \in Nat
        /\ more[k][1] = s
        /\ \A j \in 1..Len(rest[k]) : more[k][j + 1] = rest[k][j]
      BY <2>1
  <2>3. /\ \A j \in 1..Len(rest[k]) : j + 1 \in 1..Len(more[k])
        /\ 1 \in 1..Len(more[k])
        /\ \A j \in 1..Len(more[k]) : j = 1 \/ (j - 1 \in 1..Len(rest[k]) /\ j - 1 + 1 = j)
      BY <2>2
  <2> HIDE DEF more
  <2>4. ASSUME NEW j \in 1..Len(more[k]), more[k][j] = Malformed
        PROVE  s = Malformed \/ \E i \in 1..Len(rest[k]) : rest[k][i] = Malformed
    <3>1. CASE j = 1
        BY <3>1, <2>4, <2>2
    <3>2. CASE j # 1
      <4>1. j - 1 \in 1..Len(rest[k]) /\ j - 1 + 1 = j
          BY <3>2, <2>3
      <4> QED
          BY <4>1, <2>4, <2>2
    <3> QED
        BY <3>1, <3>2
  <2> QED
      BY <2>2, <2>3, <2>4
<1> QED
    BY <1>3, <1>4

LEMMA FromIsSpelled ==
    ASSUME NEW path \in Seq(Segments), NEW i \in 1..Len(path), NEW rest,
           Spelled(path, i + 1, rest)
    PROVE  Spelled(path, i, From(path, i, rest))
<1>1. path[i] \in Segments /\ path[i] \in Symbols /\ Param(path[i].name) \in Symbols
    BY DEF Symbols
<1>2. rest \in Spellings /\ Len(rest) > 0
    BY DEF Spelled
<1>3. HasMalformed(path, i) <=> path[i] = Malformed \/ HasMalformed(path, i + 1)
  <2>1. \A j \in i..Len(path) : j = i \/ j \in i + 1..Len(path)
      OBVIOUS
  <2>2. i \in i..Len(path) /\ \A j \in i + 1..Len(path) : j \in i..Len(path)
      OBVIOUS
  <2> QED
      BY <2>1, <2>2 DEF HasMalformed
<1> DEFINE more(s) == [k \in DOMAIN rest |-> <<s>> \o rest[k]]
<1>4. CASE path[i].segment = "optional"
  <2> DEFINE p == Param(path[i].name)
             m == more(p)
  <2>1. p # Malformed /\ path[i] # Malformed
    <3>1. (\A x : Param(x).segment = "param") /\ Malformed.segment = "malformed"
        BY DEF Param, Malformed
    <3> QED
        BY <3>1, <1>4
  <2>2. p \in Symbols
      BY <1>1
  <2> HIDE DEF p
  <2>3. /\ m \in Spellings /\ Len(m) = Len(rest)
        /\ \A k \in 1..Len(rest) :
              (\E j \in 1..Len(m[k]) : m[k][j] = Malformed)
              <=> p = Malformed \/ \E j \in 1..Len(rest[k]) : rest[k][j] = Malformed
      BY <1>2, <2>2, WithOne
  <2>4. From(path, i, rest) = m \o rest
      BY <1>4 DEF From, p
  <2> HIDE DEF m
  <2>5. \A k \in 1..Len(rest) :
           /\ (\E j \in 1..Len(rest[k]) : rest[k][j] = Malformed) <=> HasMalformed(path, i)
           /\ (\E j \in 1..Len(m[k]) : m[k][j] = Malformed) <=> HasMalformed(path, i)
      BY <1>3, <2>1, <2>3 DEF Spelled
  <2>6. /\ m \o rest \in Spellings /\ Len(m \o rest) = Len(rest) + Len(rest) /\ Len(rest) \in Nat
    <3>1. \A X : \A a, b \in Seq(X) :
             a \o b \in Seq(X) /\ Len(a \o b) = Len(a) + Len(b) /\ Len(b) \in Nat
        OBVIOUS
    <3>2. m \in Seq(Seq(Symbols)) /\ rest \in Seq(Seq(Symbols)) /\ Len(m) = Len(rest)
        BY <1>2, <2>3 DEF Spellings
    <3>3. m \o rest \in Seq(Seq(Symbols)) /\ Len(m \o rest) = Len(m) + Len(rest) /\ Len(rest) \in Nat
        BY <3>1, <3>2
    <3> QED
        BY <3>2, <3>3 DEF Spellings
  <2>7. ASSUME NEW k \in 1..Len(m \o rest)
        PROVE  (\E j \in 1..Len((m \o rest)[k]) : (m \o rest)[k][j] = Malformed)
               <=> HasMalformed(path, i)
    <3>1. CASE k <= Len(rest)
      <4>1. k \in 1..Len(rest) /\ (m \o rest)[k] = m[k]
          BY <3>1, <1>2, <2>3, <2>6 DEF Spellings
      <4> QED
          BY <4>1, <2>5
    <3>2. CASE ~(k <= Len(rest))
      <4>1. k - Len(rest) \in 1..Len(rest) /\ (m \o rest)[k] = rest[k - Len(rest)]
        <5>1. \A X : \A a, b \in Seq(X) : \A j \in 1..Len(a \o b) :
                 ~(j <= Len(a)) => j - Len(a) \in 1..Len(b) /\ (a \o b)[j] = b[j - Len(a)]
            OBVIOUS
        <5>2. m \in Seq(Seq(Symbols)) /\ rest \in Seq(Seq(Symbols)) /\ Len(m) = Len(rest)
            BY <1>2, <2>3 DEF Spellings
        <5>3. \A j \in 1..Len(m \o rest) :
                  ~(j <= Len(m)) => /\ j - Len(m) \in 1..Len(rest)
                                    /\ (m \o rest)[j] = rest[j - Len(m)]
            BY <5>1, <5>2, Zenon
        <5> QED
            BY <3>2, <5>2, <5>3
      <4> QED
          BY <4>1, <2>5
    <3> QED
        BY <3>1, <3>2
  <2> QED
      BY <1>2, <2>4, <2>6, <2>7 DEF Spelled
<1>5. CASE path[i].segment # "optional"
  <2> DEFINE m == more(path[i])
  <2>1. /\ m \in Spellings /\ Len(m) = Len(rest)
        /\ \A k \in 1..Len(rest) :
              (\E j \in 1..Len(m[k]) : m[k][j] = Malformed)
              <=> path[i] = Malformed \/ \E j \in 1..Len(rest[k]) : rest[k][j] = Malformed
      BY <1>1, <1>2, WithOne
  <2>2. From(path, i, rest) = m
      BY <1>5 DEF From
  <2> HIDE DEF m
  <2> QED
      BY <1>2, <1>3, <2>1, <2>2 DEF Spelled
<1> QED
    BY <1>4, <1>5

\* Expansions is its recursion, and what it returns.
LEMMA ExpansionsAreSpellings ==
    ASSUME NEW path \in Seq(Segments)
    PROVE  Spelled(path, 1, Expansions(path))
<1> DEFINE n == Len(path)
           S == Spellings
           empty == <<(<<>>)>>
           step == [m \in Nat |-> [rest \in S |->
                       IF m \in 1..n /\ Len(rest) > 0 THEN From(path, n + 1 - m, rest) ELSE rest]]
           IsFrom(f) == f = [i \in 1..n + 1 |->
                               IF i > n THEN empty
                               ELSE LET rest == f[i + 1]
                                        with(segment) == [k \in DOMAIN rest |-> <<segment>> \o rest[k]]
                                    IN IF path[i].segment = "optional"
                                       THEN with(Param(path[i].name)) \o rest
                                       ELSE with(path[i])]
<1>1. empty \in S /\ Len(empty) = 1 /\ Len(empty[1]) = 0 /\ n \in Nat
    BY DEF Spellings
<1>2. Spelled(path, n + 1, empty)
  <2>1. ~HasMalformed(path, n + 1)
      BY <1>1 DEF HasMalformed
  <2> QED
      BY <1>1, <2>1 DEF Spelled
<1>3. \E f : IsFrom(f)
  <2>1. ASSUME NEW i \in 1..n, NEW rest \in S, Len(rest) > 0
        PROVE  From(path, i, rest) \in S
    <3>1. path[i] \in Symbols /\ Param(path[i].name) \in Symbols
        BY DEF Symbols
    <3>2. \A s \in Symbols : [k \in DOMAIN rest |-> <<s>> \o rest[k]] \in S
        BY <2>1, WithOne
    <3>3. \A a, b \in S : a \o b \in S
        BY DEF Spellings
    <3> QED
        BY <3>1, <3>2, <3>3 DEF From
  <2>2. step \in [Nat -> [S -> S]]
    <3> HIDE DEF S
    <3>1. ASSUME NEW m \in Nat PROVE step[m] \in [S -> S]
      <4>1. ASSUME NEW rest \in S
            PROVE  (IF m \in 1..n /\ Len(rest) > 0 THEN From(path, n + 1 - m, rest) ELSE rest) \in S
        <5>1. m \in 1..n => n + 1 - m \in 1..n
            BY <1>1
        <5> QED
            BY <2>1, <5>1
      <4> QED
          BY <4>1
    <3> QED
        BY <3>1
  <2>3. PICK g : FirstValues(g, S, empty, step, n)
    <3> HIDE DEF step, S, empty
    <3> QED
        BY <1>1, <2>2, ValuesExist
  <2> DEFINE f == [i \in 1..n + 1 |-> g[n + 1 - i]]
             Fits == {m \in Nat : m <= n => Len(g[m]) > 0}
  <2>4. \A m \in 0..n : g[m] \in S
      BY <2>3 DEF FirstValues
  <2>5. ASSUME NEW m \in 1..n, Len(g[m - 1]) > 0
        PROVE  g[m] = From(path, n + 1 - m, g[m - 1])
    <3>1. m \in Nat /\ m - 1 \in 0..n
        BY <1>1
    <3>2. step[m][g[m - 1]] = From(path, n + 1 - m, g[m - 1])
      <4> HIDE DEF S
      <4> QED
          BY <3>1, <2>4, <2>5
    <3> QED
        BY <3>2, <2>3 DEF FirstValues
  <2>6. ASSUME NEW i \in 1..n, NEW rest \in S, Len(rest) > 0
        PROVE  Len(From(path, i, rest)) > 0
    <3>1. path[i] \in Symbols /\ Param(path[i].name) \in Symbols
        BY DEF Symbols
    <3>2. \A s \in Symbols : /\ [k \in DOMAIN rest |-> <<s>> \o rest[k]] \in S
                             /\ Len([k \in DOMAIN rest |-> <<s>> \o rest[k]]) = Len(rest)
        BY <2>6, WithOne
    <3>3. \A a, b \in S : Len(a \o b) = Len(a) + Len(b) /\ Len(a) \in Nat /\ Len(b) \in Nat
        BY DEF Spellings
    <3>4. \A a, b \in S : Len(a) > 0 => Len(a \o b) > 0
        BY <3>3
    <3> QED
        BY <2>6, <3>1, <3>2, <3>4 DEF From
  <2>7. \A m \in Nat : m \in Fits
    <3>1. 0 \in Fits
      <4>1. g[0] = empty
          BY <2>3 DEF FirstValues
      <4> HIDE DEF empty
      <4>2. Len(empty) = 1
          BY <1>1
      <4>3. Len(g[0]) > 0
          BY <4>1, <4>2
      <4> QED
          BY <4>3
    <3>2. ASSUME NEW m \in Nat, m \in Fits PROVE m + 1 \in Fits
      <4>1. CASE m + 1 <= n
        <5>1. m + 1 \in 1..n /\ m + 1 - 1 = m /\ m \in 0..n /\ n + 1 - (m + 1) \in 1..n /\ m <= n
            BY <1>1, <4>1
        <5>2. Len(g[m]) > 0
            BY <3>2, <5>1
        <5>3. g[m + 1] = From(path, n + 1 - (m + 1), g[m])
            BY <5>1, <5>2, <2>5
        <5> QED
            BY <5>1, <5>2, <5>3, <2>4, <2>6
      <4>2. CASE ~(m + 1 <= n)
          BY <4>2
      <4> QED
          BY <4>1, <4>2
    <3> HIDE DEF Fits
    <3> QED
        BY <3>1, <3>2, Induction
  <2>8. ASSUME NEW i \in 1..n + 1
        PROVE  f[i] = IF i > n THEN empty ELSE From(path, i, f[i + 1])
    <3>1. CASE i > n
      <4>1. i = n + 1 /\ n + 1 - i = 0
          BY <1>1, <3>1
      <4> QED
          BY <3>1, <4>1, <2>3 DEF FirstValues
    <3>2. CASE ~(i > n)
      <4>1. /\ i + 1 \in 1..n + 1 /\ n + 1 - i \in 1..n /\ n + 1 - (i + 1) = n + 1 - i - 1
            /\ n + 1 - (n + 1 - i) = i /\ n + 1 - i - 1 \in Nat /\ n + 1 - i - 1 <= n
          BY <1>1, <3>2
      <4>2. Len(g[n + 1 - i - 1]) > 0
          BY <4>1, <2>7
      <4>3. g[n + 1 - i] = From(path, i, g[n + 1 - i - 1])
          BY <4>1, <4>2, <2>5
      <4>4. f[i] = g[n + 1 - i] /\ f[i + 1] = g[n + 1 - (i + 1)]
          BY <4>1
      <4> QED
          BY <3>2, <4>1, <4>3, <4>4
    <3> QED
        BY <3>1, <3>2
  <2>9. f = [i \in 1..n + 1 |-> f[i]]
      BY Zenon
  <2> HIDE DEF f
  <2>10. IsFrom(f)
      BY <2>8, <2>9 DEF From
  <2> QED
      BY <2>10
<1> DEFINE f == CHOOSE f : IsFrom(f)
<1>4. IsFrom(f)
  <2> HIDE DEF IsFrom
  <2> QED
      BY <1>3, Zenon
<1>5. Expansions(path) = f[1]
    BY DEF Expansions
<1> HIDE DEF f
<1>6. ASSUME NEW i \in 1..n + 1
      PROVE  f[i] = IF i > n THEN empty ELSE From(path, i, f[i + 1])
    BY <1>4 DEF From
<1> HIDE DEF IsFrom, empty
<1> DEFINE Good == {m \in Nat : m <= n => Spelled(path, n + 1 - m, f[n + 1 - m])}
<1>7. \A m \in Nat : m \in Good
  <2>1. 0 \in Good
    <3>1. n + 1 \in 1..n + 1 /\ n + 1 > n /\ n + 1 - 0 = n + 1
        BY <1>1
    <3>2. f[n + 1] = empty
        BY <3>1, <1>6
    <3> QED
        BY <3>1, <3>2, <1>2
  <2>2. ASSUME NEW m \in Nat, m \in Good PROVE m + 1 \in Good
    <3>1. CASE m + 1 <= n
      <4>1. /\ m <= n /\ n + 1 - (m + 1) \in 1..n /\ n + 1 - (m + 1) + 1 = n + 1 - m
            /\ n + 1 - (m + 1) \in 1..n + 1 /\ ~(n + 1 - (m + 1) > n)
          BY <1>1, <3>1
      <4>2. Spelled(path, n + 1 - m, f[n + 1 - m])
          BY <2>2, <4>1
      <4>3. f[n + 1 - (m + 1)] = From(path, n + 1 - (m + 1), f[n + 1 - m])
          BY <4>1, <1>6
      <4>4. Spelled(path, n + 1 - (m + 1), f[n + 1 - (m + 1)])
          BY <4>1, <4>2, <4>3, FromIsSpelled
      <4> QED
          BY <4>4
    <3>2. CASE ~(m + 1 <= n)
        BY <3>2
    <3> QED
        BY <3>1, <3>2
  <2> HIDE DEF Good
  <2> QED
      BY <2>1, <2>2, Induction
<1>8. n \in Good /\ n + 1 - n = 1
    BY <1>1, <1>7
<1> QED
    BY <1>1, <1>5, <1>8

\* all lists the elements of the first n sequences, each once: the j-th is the
\* col[j]-th of the row[j]-th sequence.
Lists(all, seqs, n, row, col) ==
    /\ row \in [1..Len(all) -> Nat] /\ col \in [1..Len(all) -> Nat]
    /\ \A j \in 1..Len(all) :
           /\ row[j] \in 1..n /\ col[j] \in 1..Len(seqs[row[j]])
           /\ all[j] = seqs[row[j]][col[j]]
    /\ \A j, k \in 1..Len(all) : row[j] = row[k] /\ col[j] = col[k] => j = k
    /\ \A i \in 1..n : \A k \in 1..Len(seqs[i]) :
           \E j \in 1..Len(all) : row[j] = i /\ col[j] = k

LEMMA ListsGoOn ==
    ASSUME NEW X, NEW seqs \in Seq(Seq(X)), NEW n \in Nat, n + 1 <= Len(seqs),
           NEW all \in Seq(X), NEW row, NEW col, Lists(all, seqs, n, row, col)
    PROVE  \E r, c : Lists(all \o seqs[n + 1], seqs, n + 1, r, c)
<1> DEFINE L == Len(all)
           M == Len(seqs[n + 1])
           more == all \o seqs[n + 1]
           r == [j \in 1..L + M |-> IF j <= L THEN row[j] ELSE n + 1]
           c == [j \in 1..L + M |-> IF j <= L THEN col[j] ELSE j - L]
<1>1. L \in Nat /\ M \in Nat /\ seqs[n + 1] \in Seq(X) /\ n + 1 \in 1..Len(seqs)
  <2>1. n + 1 \in 1..Len(seqs)
      OBVIOUS
  <2>2. seqs[n + 1] \in Seq(X)
      BY <2>1
  <2> QED
      BY <2>1, <2>2
<1>2. /\ Len(more) = L + M
      /\ \A j \in 1..L : more[j] = all[j]
      /\ \A j \in 1..M : more[L + j] = seqs[n + 1][j]
    BY <1>1
<1>3. \A j \in 1..L + M : (j <= L => j \in 1..L) /\ (~(j <= L) => j - L \in 1..M /\ L + (j - L) = j)
    BY <1>1
<1>4. \A j \in 1..L : j \in 1..L + M /\ j <= L
    BY <1>1
<1>5. \A j \in 1..M : L + j \in 1..L + M /\ ~(L + j <= L) /\ L + j - L = j
    BY <1>1
<1>6. /\ row \in [1..L -> Nat] /\ col \in [1..L -> Nat]
      /\ \A j \in 1..L : /\ row[j] \in 1..n /\ col[j] \in 1..Len(seqs[row[j]])
                         /\ all[j] = seqs[row[j]][col[j]]
      /\ \A j, k \in 1..L : row[j] = row[k] /\ col[j] = col[k] => j = k
      /\ \A i \in 1..n : \A k \in 1..Len(seqs[i]) : \E j \in 1..L : row[j] = i /\ col[j] = k
    BY DEF Lists
<1>7. /\ \A j \in 1..L + M : j <= L => r[j] = row[j] /\ c[j] = col[j]
      /\ \A j \in 1..L + M : ~(j <= L) => r[j] = n + 1 /\ c[j] = j - L
    OBVIOUS
<1>8. r \in [1..L + M -> Nat] /\ c \in [1..L + M -> Nat]
  <2>1. ASSUME NEW j \in 1..L + M
        PROVE  (IF j <= L THEN row[j] ELSE n + 1) \in Nat /\ (IF j <= L THEN col[j] ELSE j - L) \in Nat
    <3>1. CASE j <= L
      <4>1. j \in 1..L
          BY <3>1, <1>3
      <4> QED
          BY <3>1, <4>1, <1>6
    <3>2. CASE ~(j <= L)
        BY <3>2, <1>3
    <3> QED
        BY <3>1, <3>2
  <2> QED
      BY <2>1
<1> HIDE DEF r, c, more, L, M
<1>9. ASSUME NEW j \in 1..L + M
      PROVE  r[j] \in 1..n + 1 /\ c[j] \in 1..Len(seqs[r[j]]) /\ more[j] = seqs[r[j]][c[j]]
  <2>1. CASE j <= L
    <3>1. j \in 1..L /\ r[j] = row[j] /\ c[j] = col[j]
        BY <2>1, <1>3, <1>7
    <3>2. r[j] \in 1..n /\ c[j] \in 1..Len(seqs[r[j]]) /\ all[j] = seqs[r[j]][c[j]]
        BY <3>1, <1>6
    <3>3. more[j] = all[j]
        BY <3>1, <1>2
    <3>4. r[j] \in 1..n + 1
        BY <3>2
    <3> QED
        BY <3>2, <3>3, <3>4, Zenon
  <2>2. CASE ~(j <= L)
    <3>1. j - L \in 1..M /\ L + (j - L) = j /\ r[j] = n + 1 /\ c[j] = j - L
        BY <2>2, <1>3, <1>7
    <3>2. more[j] = seqs[n + 1][j - L]
        BY <3>1, <1>2
    <3>3. n + 1 \in 1..n + 1
        OBVIOUS
    <3> QED
        BY <3>1, <3>2, <3>3 DEF M
  <2> QED
      BY <2>1, <2>2
<1>10. ASSUME NEW j \in 1..L + M, NEW k \in 1..L + M, r[j] = r[k], c[j] = c[k] PROVE j = k
  <2>1. CASE j <= L /\ k <= L
    <3>1. j \in 1..L /\ k \in 1..L /\ row[j] = row[k] /\ col[j] = col[k]
        BY <2>1, <1>3, <1>7, <1>10
    <3> QED
        BY <3>1, <1>6
  <2>2. CASE ~(j <= L) /\ ~(k <= L)
    <3>1. j - L = k - L
        BY <2>2, <1>7, <1>10
    <3> QED
        BY <3>1, <1>1 DEF L
  <2>3. \A x, y \in 1..L + M : ~(x <= L /\ ~(y <= L) /\ r[x] = r[y])
    <3>1. SUFFICES ASSUME NEW x \in 1..L + M, NEW y \in 1..L + M, x <= L, ~(y <= L), r[x] = r[y]
                   PROVE FALSE
        OBVIOUS
    <3>2. r[x] = row[x] /\ r[y] = n + 1 /\ x \in 1..L
        BY <3>1, <1>3, <1>7
    <3>3. row[x] \in 1..n
        BY <3>2, <1>6
    <3>4. row[x] = n + 1
        BY <3>1, <3>2
    <3>5. n + 1 \notin 1..n
        OBVIOUS
    <3> QED
        BY <3>3, <3>4, <3>5
  <2> QED
      BY <2>1, <2>2, <2>3, <1>10
<1>11. ASSUME NEW i \in 1..n + 1, NEW k \in 1..Len(seqs[i])
       PROVE  \E j \in 1..L + M : r[j] = i /\ c[j] = k
  <2>1. CASE i = n + 1
    <3>1. k \in 1..M
        BY <2>1 DEF M
    <3>2. L + k \in 1..L + M /\ ~(L + k <= L) /\ L + k - L = k
        BY <3>1, <1>5
    <3>3. r[L + k] = n + 1 /\ c[L + k] = k
      <4>1. PICK j \in 1..L + M : j = L + k
          BY <3>2
      <4>2. ~(j <= L) /\ j - L = k
        <5>1. L \in Nat /\ M \in Nat
            BY <1>1 DEF L, M
        <5> QED
            BY <3>1, <4>1, <5>1
      <4>3. r[j] = n + 1 /\ c[j] = j - L
          BY <4>2, <1>7
      <4> QED
          BY <4>1, <4>2, <4>3
    <3> QED
        BY <2>1, <3>2, <3>3
  <2>2. CASE i # n + 1
    <3>1. i \in 1..n
        BY <2>2
    <3>2. PICK j \in 1..L : row[j] = i /\ col[j] = k
        BY <3>1, <1>6
    <3> QED
        BY <3>2, <1>4, <1>7
  <2> QED
      BY <2>1, <2>2
<1>12. Lists(more, seqs, n + 1, r, c)
    BY <1>2, <1>8, <1>9, <1>10, <1>11 DEF Lists
<1> QED
    BY <1>12 DEF more

LEMMA FlattenLists ==
    ASSUME NEW X, NEW seqs \in Seq(Seq(X))
    PROVE  /\ FlattenSeq(seqs) \in Seq(X)
           /\ \E row, col : Lists(FlattenSeq(seqs), seqs, Len(seqs), row, col)
<1> DEFINE n == Len(seqs)
           S == Seq(X)
           step == [i \in Nat |-> [s \in S |-> IF i \in 1..n THEN s \o seqs[i] ELSE s]]
           IsFlatten(f) == f = [i \in 1..n |-> IF i = 1 THEN seqs[i] ELSE f[i - 1] \o seqs[i]]
<1>1. n \in Nat /\ <<>> \in S /\ (\A i \in 1..n : seqs[i] \in S)
      /\ (\A a, b \in S : a \o b \in S)
    OBVIOUS
<1>2. step \in [Nat -> [S -> S]]
  <2> HIDE DEF S
  <2>1. ASSUME NEW i \in Nat PROVE step[i] \in [S -> S]
    <3>1. ASSUME NEW s \in S PROVE (IF i \in 1..n THEN s \o seqs[i] ELSE s) \in S
        BY <1>1
    <3> QED
        BY <3>1
  <2> QED
      BY <2>1
<1>3. PICK g : FirstValues(g, S, <<>>, step, n)
  <2> HIDE DEF step, S
  <2> QED
      BY <1>1, <1>2, ValuesExist
<1>4. g[0] = <<>> /\ \A i \in 0..n : g[i] \in S
  <2> HIDE DEF step, S
  <2> QED
      BY <1>3 DEF FirstValues
<1>5. ASSUME NEW i \in 1..n PROVE g[i] = g[i - 1] \o seqs[i]
  <2>1. i \in Nat /\ i - 1 \in 0..n
      BY <1>1
  <2>2. step[i][g[i - 1]] = g[i - 1] \o seqs[i]
    <3> HIDE DEF S
    <3> QED
        BY <1>4, <2>1
  <2> QED
      BY <2>2, <1>3 DEF FirstValues
<1> HIDE DEF step
<1>6. \E f : IsFlatten(f)
  <2> DEFINE f == [i \in 1..n |-> g[i]]
  <2>1. ASSUME NEW i \in 1..n PROVE f[i] = IF i = 1 THEN seqs[i] ELSE f[i - 1] \o seqs[i]
    <3>1. CASE i = 1
      <4>1. g[i] = <<>> \o seqs[i]
        <5>1. i - 1 = 0
            BY <3>1
        <5>2. g[i] = g[i - 1] \o seqs[i]
            BY <1>5
        <5> QED
            BY <5>1, <5>2, <1>4
      <4>2. \A s \in S : <<>> \o s = s
          OBVIOUS
      <4> QED
          BY <3>1, <4>1, <4>2, <1>1
    <3>2. CASE i # 1
      <4>1. i - 1 \in 1..n
          BY <3>2, <1>1
      <4> QED
          BY <3>2, <4>1, <1>5
    <3> QED
        BY <3>1, <3>2
  <2>2. f = [i \in 1..n |-> f[i]]
      OBVIOUS
  <2> HIDE DEF f
  <2>3. IsFlatten(f)
      BY <2>1, <2>2
  <2> QED
      BY <2>3
<1> DEFINE f == CHOOSE f : IsFlatten(f)
<1>7. IsFlatten(f)
    BY <1>6
<1>8. n # 0 => FlattenSeq(seqs) = f[n]
    BY DEF FlattenSeq
<1> HIDE DEF f
<1>9. \A i \in 1..n : f[i] = IF i = 1 THEN seqs[i] ELSE f[i - 1] \o seqs[i]
    BY <1>7
<1> HIDE DEF IsFlatten
<1>15. ASSUME NEW i \in Nat, i + 1 \in 1..n
       PROVE  g[i + 1] = g[i] \o seqs[i + 1] /\ (i # 0 => f[i + 1] = f[i] \o seqs[i + 1])
  <2>1. PICK k \in 1..n : k = i + 1
      BY <1>15
  <2>2. k - 1 = i /\ (i # 0 => k # 1)
      BY <2>1
  <2>3. g[k] = g[k - 1] \o seqs[k] /\ (k # 1 => f[k] = f[k - 1] \o seqs[k])
      BY <1>5, <1>9
  <2> QED
      BY <2>1, <2>2, <2>3
<1> DEFINE Same == {i \in Nat : i \in 1..n => f[i] = g[i]}
           Good == {i \in Nat : i <= n => \E row, col : Lists(g[i], seqs, i, row, col)}
<1>10. \A i \in Nat : i \in Same
  <2>1. 0 \in Same
      OBVIOUS
  <2>2. ASSUME NEW i \in Nat, i \in Same PROVE i + 1 \in Same
    <3>1. CASE i + 1 \in 1..n /\ i = 0
      <4>1. 1 \in 1..n /\ 1 - 1 = 0
          BY <3>1
      <4>2. f[1] = seqs[1] /\ g[1] = <<>> \o seqs[1] /\ seqs[1] \in S
          BY <4>1, <1>1, <1>4, <1>5, <1>9
      <4>3. \A s \in S : <<>> \o s = s
          OBVIOUS
      <4> QED
          BY <3>1, <4>2, <4>3
    <3>2. CASE i + 1 \in 1..n /\ i # 0
      <4>1. i \in 1..n /\ i + 1 - 1 = i /\ i + 1 # 1
          BY <3>2, <1>1
      <4>2. f[i + 1] = f[i] \o seqs[i + 1] /\ g[i + 1] = g[i] \o seqs[i + 1]
          BY <3>2, <4>1, <1>15
      <4>3. f[i] = g[i]
          BY <2>2, <4>1
      <4>4. f[i + 1] = g[i + 1]
          BY <4>2, <4>3
      <4> QED
          BY <4>4
    <3>3. CASE i + 1 \notin 1..n
        BY <3>3
    <3> QED
        BY <3>1, <3>2, <3>3
  <2> HIDE DEF Same
  <2> QED
      BY <2>1, <2>2, Induction
<1>11. \A i \in Nat : i \in Good
  <2>1. 0 \in Good
    <3> DEFINE none == [j \in 1..0 |-> 0]
    <3>1. Lists(<<>>, seqs, 0, none, none)
      <4>1. none \in [1..Len(<<>>) -> Nat] /\ Len(<<>>) = 0
          OBVIOUS
      <4> HIDE DEF none
      <4> QED
          BY <4>1 DEF Lists
    <3> HIDE DEF none
    <3> QED
        BY <3>1, <1>4
  <2>2. ASSUME NEW i \in Nat, i \in Good PROVE i + 1 \in Good
    <3>1. CASE i + 1 <= n
      <4>1. i <= n /\ i + 1 \in 1..n /\ i \in 0..n /\ i + 1 - 1 = i
          BY <3>1, <1>1
      <4>2. PICK row, col : Lists(g[i], seqs, i, row, col)
          BY <2>2, <4>1
      <4>3. g[i + 1] = g[i] \o seqs[i + 1] /\ g[i] \in S
          BY <4>1, <1>4, <1>15
      <4>4. \E r, c : Lists(g[i] \o seqs[i + 1], seqs, i + 1, r, c)
          BY <3>1, <4>2, <4>3, ListsGoOn
      <4>5. \E r, c : Lists(g[i + 1], seqs, i + 1, r, c)
          BY <4>3, <4>4
      <4> QED
          BY <4>5
    <3>2. CASE ~(i + 1 <= n)
        BY <3>2
    <3> QED
        BY <3>1, <3>2
  <2> HIDE DEF Good
  <2> QED
      BY <2>1, <2>2, Induction
<1>12. FlattenSeq(seqs) = g[n]
  <2>1. CASE n = 0
    <3>1. seqs = <<>>
        BY <2>1
    <3>2. FlattenSeq(seqs) = seqs
        BY <2>1 DEF FlattenSeq
    <3> QED
        BY <2>1, <3>1, <3>2, <1>4
  <2>2. CASE n # 0
    <3>1. n \in 1..n
        BY <2>2, <1>1
    <3> QED
        BY <2>2, <3>1, <1>1, <1>8, <1>10
  <2> QED
      BY <2>1, <2>2
<1>13. n \in 0..n /\ n <= n
    BY <1>1
<1>14. \E row, col : Lists(g[n], seqs, n, row, col)
    BY <1>1, <1>11, <1>13
<1> QED
    BY <1>4, <1>12, <1>13, <1>14

-----------------------------------------------------------------------------
\* The entries of all listings, in order.
All == FlattenSeq([i \in DOMAIN listings |-> EntriesOf(listings[i])])
Rows == [path : Seq(Symbols), mode : {"OutOfOrder", "Static"}]

Numbered(row, col) ==
    /\ row \in [1..Len(All) -> Nat] /\ col \in [1..Len(All) -> Nat]
    /\ \A j \in 1..Len(All) :
           /\ row[j] \in DOMAIN listings
           /\ col[j] \in DOMAIN Expansions(listings[row[j]].path)
           /\ All[j].path = Expansions(listings[row[j]].path)[col[j]]
           /\ All[j].mode = listings[row[j]].mode
    /\ \A j, k \in 1..Len(All) : row[j] = row[k] /\ col[j] = col[k] => j = k
    /\ \A i \in DOMAIN listings : \A k \in DOMAIN Expansions(listings[i].path) :
           \E j \in 1..Len(All) : row[j] = i /\ col[j] = k

LEMMA ListingsAre ==
    ASSUME listings \in Seq(Listings), NEW i \in DOMAIN listings
    PROVE  /\ listings[i].path \in Seq(Segments)
           /\ listings[i].mode \in {"OutOfOrder", "Static"}
<1>1. listings[i] \in Listings
    OBVIOUS
<1>2. \A p \in Paths : p \in Seq(Segments)
    BY MaxDepthAssumption DEF Paths
<1> QED
    BY <1>1, <1>2 DEF Listings

LEMMA AllAreDeclared ==
    ASSUME listings \in Seq(Listings)
    PROVE  All \in Seq(Rows) /\ \E row, col : Numbered(row, col)
<1> DEFINE seqs == [i \in DOMAIN listings |-> EntriesOf(listings[i])]
<1>1. DOMAIN listings = 1..Len(listings) /\ Len(listings) \in Nat
    OBVIOUS
<1>2. ASSUME NEW i \in DOMAIN listings
      PROVE  LET paths == Expansions(listings[i].path)
             IN  /\ paths \in Seq(Seq(Symbols))
                 /\ EntriesOf(listings[i]) \in Seq(Rows)
                 /\ Len(EntriesOf(listings[i])) = Len(paths)
                 /\ DOMAIN paths = 1..Len(paths)
                 /\ \A k \in DOMAIN paths :
                        /\ EntriesOf(listings[i])[k].path = paths[k]
                        /\ EntriesOf(listings[i])[k].mode = listings[i].mode
  <2> DEFINE paths == Expansions(listings[i].path)
  <2>1. paths \in Seq(Seq(Symbols)) /\ listings[i].mode \in {"OutOfOrder", "Static"}
      BY ListingsAre, ExpansionsAreSpellings DEF Spelled, Spellings
  <2>2. EntriesOf(listings[i]) = [k \in DOMAIN paths |-> [path |-> paths[k], mode |-> listings[i].mode]]
      BY DEF EntriesOf
  <2> HIDE DEF paths
  <2>3. DOMAIN paths = 1..Len(paths) /\ Len(paths) \in Nat /\ \A k \in DOMAIN paths : paths[k] \in Seq(Symbols)
      BY <2>1
  <2>4. \A k \in 1..Len(paths) : [path |-> paths[k], mode |-> listings[i].mode] \in Rows
      BY <2>1, <2>3 DEF Rows
  <2>5. EntriesOf(listings[i]) \in Seq(Rows) /\ Len(EntriesOf(listings[i])) = Len(paths)
      BY <2>2, <2>3, <2>4
  <2> QED
      BY <2>1, <2>2, <2>3, <2>5 DEF paths
<1>3. seqs \in Seq(Seq(Rows)) /\ Len(seqs) = Len(listings)
    BY <1>1, <1>2
<1>4. \A i \in DOMAIN listings : seqs[i] = EntriesOf(listings[i])
    OBVIOUS
<1>5. All = FlattenSeq(seqs)
    BY DEF All
<1> HIDE DEF seqs
<1>6. /\ All \in Seq(Rows)
      /\ \E row, col : Lists(All, seqs, Len(seqs), row, col)
    BY <1>3, <1>5, FlattenLists
<1>7. PICK row, col : Lists(All, seqs, Len(seqs), row, col)
    BY <1>6
<1>8. /\ row \in [1..Len(All) -> Nat] /\ col \in [1..Len(All) -> Nat]
      /\ \A j \in 1..Len(All) :
             /\ row[j] \in DOMAIN listings /\ col[j] \in 1..Len(seqs[row[j]])
             /\ All[j] = seqs[row[j]][col[j]]
      /\ \A j, k \in 1..Len(All) : row[j] = row[k] /\ col[j] = col[k] => j = k
      /\ \A i \in DOMAIN listings : \A k \in 1..Len(seqs[i]) :
             \E j \in 1..Len(All) : row[j] = i /\ col[j] = k
    BY <1>1, <1>3, <1>7 DEF Lists
<1>9. ASSUME NEW j \in 1..Len(All)
      PROVE  /\ col[j] \in DOMAIN Expansions(listings[row[j]].path)
             /\ All[j].path = Expansions(listings[row[j]].path)[col[j]]
             /\ All[j].mode = listings[row[j]].mode
  <2>1. row[j] \in DOMAIN listings
      BY <1>8
  <2> QED
      BY <2>1, <1>2, <1>4, <1>8
<1>10. ASSUME NEW i \in DOMAIN listings, NEW k \in DOMAIN Expansions(listings[i].path)
       PROVE  \E j \in 1..Len(All) : row[j] = i /\ col[j] = k
  <2>1. k \in 1..Len(seqs[i])
      BY <1>2, <1>4
  <2> QED
      BY <2>1, <1>8
<1>11. Numbered(row, col)
    BY <1>8, <1>9, <1>10 DEF Numbered
<1> QED
    BY <1>6, <1>11

\* An entry cannot be parsed exactly if its listing cannot.
LEMMA MalformedIsMalformed ==
    ASSUME listings \in Seq(Listings)
    PROVE  (\E e \in ToSet(All) : Unparseable(e.path)) <=> SomeMalformed
<1>1. PICK row, col : Numbered(row, col)
    BY AllAreDeclared
<1>2. All \in Seq(Rows) /\ DOMAIN All = 1..Len(All)
    BY AllAreDeclared
<1>3. ASSUME NEW i \in DOMAIN listings, NEW k \in DOMAIN Expansions(listings[i].path)
      PROVE  Unparseable(Expansions(listings[i].path)[k]) <=> Unparseable(listings[i].path)
  <2> DEFINE path == listings[i].path
             x == Expansions(path)
  <2>1. path \in Seq(Segments)
      BY ListingsAre
  <2>2. Spelled(path, 1, x)
      BY <2>1, ExpansionsAreSpellings
  <2> HIDE DEF x
  <2>3. k \in 1..Len(x) /\ x[k] \in Seq(Symbols)
      BY <2>2 DEF Spelled, Spellings, x
  <2>4. (\E j \in 1..Len(x[k]) : x[k][j] = Malformed) <=> \E j \in 1..Len(path) : path[j] = Malformed
      BY <2>2, <2>3 DEF Spelled, HasMalformed
  <2>5. \A X : \A s \in Seq(X) : Unparseable(s) <=> \E j \in 1..Len(s) : s[j] = Malformed
      BY DEF Unparseable, ToSet
  <2>6. Unparseable(x[k]) <=> \E j \in 1..Len(x[k]) : x[k][j] = Malformed
      BY <2>3, <2>5
  <2>7. Unparseable(path) <=> \E j \in 1..Len(path) : path[j] = Malformed
      BY <2>1, <2>5
  <2> QED
      BY <2>4, <2>6, <2>7 DEF x
<1>4. ASSUME NEW e \in ToSet(All), Unparseable(e.path) PROVE SomeMalformed
  <2>1. PICK j \in 1..Len(All) : e = All[j]
      BY <1>2 DEF ToSet
  <2>2. /\ row[j] \in DOMAIN listings /\ col[j] \in DOMAIN Expansions(listings[row[j]].path)
        /\ e.path = Expansions(listings[row[j]].path)[col[j]]
      BY <1>1, <2>1 DEF Numbered
  <2>3. Unparseable(listings[row[j]].path)
      BY <1>3, <1>4, <2>2
  <2>4. listings[row[j]] \in ToSet(listings)
      BY <2>2 DEF ToSet
  <2> QED
      BY <2>3, <2>4 DEF SomeMalformed
<1>5. ASSUME NEW l \in ToSet(listings), Unparseable(l.path)
      PROVE  \E e \in ToSet(All) : Unparseable(e.path)
  <2>1. PICK i \in DOMAIN listings : l = listings[i]
      BY DEF ToSet
  <2>2. 1 \in DOMAIN Expansions(listings[i].path)
    <3>1. Spelled(listings[i].path, 1, Expansions(listings[i].path))
        BY ListingsAre, ExpansionsAreSpellings
    <3>2. \A X : \A s \in Seq(X) : Len(s) > 0 => 1 \in DOMAIN s
        OBVIOUS
    <3> QED
        BY <3>1, <3>2 DEF Spelled, Spellings
  <2>3. PICK j \in 1..Len(All) : row[j] = i /\ col[j] = 1
      BY <1>1, <2>2 DEF Numbered
  <2>4. All[j].path = Expansions(listings[i].path)[1]
      BY <1>1, <2>3 DEF Numbered
  <2>5. Unparseable(All[j].path)
      BY <1>3, <1>5, <2>1, <2>2, <2>4
  <2>6. All[j] \in ToSet(All)
      BY <1>2 DEF ToSet
  <2> QED
      BY <2>5, <2>6
<1> QED
    BY <1>4, <1>5 DEF SomeMalformed

\* The numbers of the first n entries that are not excluded.
Kept(n) == {j \in 1..n : All[j].path \notin excluded}
KeyAt(j) == CollisionKey(All[j].path)

\* The declared paths are the entries that are not excluded.
KeptAreDeclared(K, row, col) ==
    /\ \A j \in K : /\ <<row[j], col[j]>> \in Declared
                    /\ PathOf(<<row[j], col[j]>>) = All[j].path
                    /\ listings[row[j]].mode = All[j].mode
    /\ \A d \in Declared : \E j \in K : d = <<row[j], col[j]>>
    /\ \A i, j \in K : <<row[i], col[i]>> = <<row[j], col[j]>> => i = j

LEMMA DeclaredAreKept ==
    ASSUME listings \in Seq(Listings), NEW row, NEW col, Numbered(row, col)
    PROVE  KeptAreDeclared(Kept(Len(All)), row, col)
<1>1. ASSUME NEW j \in Kept(Len(All))
      PROVE  /\ <<row[j], col[j]>> \in Declared
             /\ PathOf(<<row[j], col[j]>>) = All[j].path
             /\ listings[row[j]].mode = All[j].mode
  <2>1. j \in 1..Len(All) /\ All[j].path \notin excluded
      BY DEF Kept
  <2>2. /\ row[j] \in DOMAIN listings /\ col[j] \in DOMAIN Expansions(listings[row[j]].path)
        /\ All[j].path = Expansions(listings[row[j]].path)[col[j]]
        /\ All[j].mode = listings[row[j]].mode
    <3>1. \A i \in 1..Len(All) :
              /\ row[i] \in DOMAIN listings
              /\ col[i] \in DOMAIN Expansions(listings[row[i]].path)
              /\ All[i].path = Expansions(listings[row[i]].path)[col[i]]
              /\ All[i].mode = listings[row[i]].mode
        BY Zenon DEF Numbered
    <3> QED
        BY <2>1, <3>1, Zenon
  <2> QED
      BY <2>1, <2>2 DEF Declared, PathOf
<1>2. ASSUME NEW d \in Declared PROVE \E j \in Kept(Len(All)) : d = <<row[j], col[j]>>
  <2>0. PICK i \in DOMAIN listings : \E k \in DOMAIN Expansions(listings[i].path) :
            d = <<i, k>> /\ Expansions(listings[i].path)[k] \notin excluded
      BY DEF Declared
  <2>1. PICK k \in DOMAIN Expansions(listings[i].path) :
            d = <<i, k>> /\ Expansions(listings[i].path)[k] \notin excluded
      BY <2>0
  <2>2. PICK j \in 1..Len(All) : row[j] = i /\ col[j] = k
    <3>1. \A a \in DOMAIN listings : \A b \in DOMAIN Expansions(listings[a].path) :
              \E j \in 1..Len(All) : row[j] = a /\ col[j] = b
        BY Zenon DEF Numbered
    <3> QED
        BY <2>1, <3>1, Zenon
  <2>4. All[j].path = Expansions(listings[i].path)[k]
      BY <2>2 DEF Numbered
  <2> QED
      BY <2>1, <2>2, <2>4 DEF Kept
<1>3. ASSUME NEW i \in Kept(Len(All)), NEW j \in Kept(Len(All)), <<row[i], col[i]>> = <<row[j], col[j]>>
      PROVE  i = j
  <2>1. i \in 1..Len(All) /\ j \in 1..Len(All) /\ row[i] = row[j] /\ col[i] = col[j]
      BY <1>3 DEF Kept
  <2> QED
      BY <2>1 DEF Numbered
<1> QED
    BY <1>1, <1>2, <1>3, Zenon DEF KeptAreDeclared

-----------------------------------------------------------------------------
\* What the loop has done when n entries are behind it.
TableSoFar(n) ==
    /\ n \in 0..Len(All)
    /\ entries = SubSeq(All, n + 1, Len(All))
    /\ seen = {KeyAt(j) : j \in Kept(n)}
    /\ table \in Seq(Rows)
    /\ ToSet(table) = {All[j] : j \in Kept(n)}
    /\ Len(table) = Cardinality(Kept(n))
    /\ \A i, j \in Kept(n) : KeyAt(i) = KeyAt(j) => i = j
    /\ \A j \in Kept(n) : All[j].mode # "Static"

RouteInv ==
    /\ listings \in Seq(Listings)
    /\ outcome = "discovering" => seen = {} /\ table = <<>>
    /\ outcome = "InvalidRoute" => SomeMalformed
    /\ outcome \in {"validating", "Ok", "DuplicateRoute", "UnsupportedStaticSsr"} => ~SomeMalformed
    /\ outcome = "validating" => \E n \in Nat : TableSoFar(n)
    /\ outcome = "Ok" => TableSoFar(Len(All))
    /\ outcome = "DuplicateRoute" => Collide
    /\ outcome = "UnsupportedStaticSsr" => SomeStatic

LEMMA Remainder ==
    ASSUME NEW X, NEW s \in Seq(X), NEW n \in 0..Len(s)
    PROVE  LET rest == SubSeq(s, n + 1, Len(s))
           IN  /\ rest = <<>> <=> n = Len(s)
               /\ n < Len(s) => /\ Head(rest) = s[n + 1]
                                /\ Tail(rest) = SubSeq(s, n + 2, Len(s))
<1> DEFINE rest == SubSeq(s, n + 1, Len(s))
<1>1. rest \in Seq(X) /\ Len(rest) = Len(s) - n /\ Len(s) \in Nat /\ n \in Nat
    OBVIOUS
<1>2. \A i \in 1..Len(s) - n : rest[i] = s[n + i]
    OBVIOUS
<1>3. rest = <<>> <=> n = Len(s)
  <2> HIDE DEF rest
  <2>1. rest = <<>> <=> Len(rest) = 0
      BY <1>1
  <2> QED
      BY <2>1, <1>1
<1>4. ASSUME n < Len(s) PROVE Head(rest) = s[n + 1] /\ Tail(rest) = SubSeq(s, n + 2, Len(s))
  <2> DEFINE t == SubSeq(s, n + 2, Len(s))
  <2>1. 1 \in 1..Len(s) - n
      BY <1>1, <1>4
  <2>2. t \in Seq(X) /\ Len(t) = Len(s) - n - 1 /\ \A i \in 1..Len(s) - n - 1 : t[i] = s[n + 1 + i]
      BY <1>1, <1>4
  <2> HIDE DEF rest, t
  <2>3. Head(rest) = s[n + 1]
      BY <2>1, <1>1, <1>2
  <2>4. Tail(rest) \in Seq(X) /\ Len(Tail(rest)) = Len(s) - n - 1
      BY <1>1, <2>1
  <2>5. ASSUME NEW i \in 1..Len(s) - n - 1 PROVE Tail(rest)[i] = t[i]
    <3>1. i + 1 \in 1..Len(s) - n /\ n + (i + 1) = n + 1 + i
        BY <1>1
    <3>2. Tail(rest)[i] = rest[i + 1]
        BY <1>1, <3>1
    <3> QED
        BY <1>2, <2>2, <3>1, <3>2
  <2>6. Tail(rest) = t
    <3> PICK d : d = Len(s) - n - 1
        OBVIOUS
    <3>1. \A u \in Seq(X) : u = [i \in 1..Len(u) |-> u[i]]
        OBVIOUS
    <3>2. /\ Tail(rest) = [i \in 1..d |-> Tail(rest)[i]]
          /\ t = [i \in 1..d |-> t[i]]
        BY <2>2, <2>4, <3>1
    <3> QED
        BY <2>5, <3>2
  <2> QED
      BY <2>3, <2>6 DEF t
<1> QED
    BY <1>3, <1>4

LEMMA KeptGrows ==
    ASSUME NEW n \in Nat
    PROVE  /\ IsFiniteSet(Kept(n)) /\ Cardinality(Kept(n)) \in Nat
           /\ All[n + 1].path \in excluded => Kept(n + 1) = Kept(n)
           /\ All[n + 1].path \notin excluded =>
                  /\ Kept(n + 1) = Kept(n) \cup {n + 1}
                  /\ Cardinality(Kept(n + 1)) = Cardinality(Kept(n)) + 1
<1>1. IsFiniteSet(Kept(n)) /\ Cardinality(Kept(n)) \in Nat
  <2>1. IsFiniteSet(1..n)
      BY FS_Interval
  <2>2. Kept(n) \in SUBSET (1..n)
      BY DEF Kept
  <2> QED
      BY <2>1, <2>2, FS_Subset, FS_CardinalityType
<1>2. \A j \in 1..n + 1 : j = n + 1 \/ j \in 1..n
    OBVIOUS
<1>3. n + 1 \in 1..n + 1 /\ n + 1 \notin 1..n /\ \A j \in 1..n : j \in 1..n + 1
    OBVIOUS
<1>4. All[n + 1].path \in excluded => Kept(n + 1) = Kept(n)
    BY <1>2, <1>3 DEF Kept
<1>5. All[n + 1].path \notin excluded => Kept(n + 1) = Kept(n) \cup {n + 1}
    BY <1>2, <1>3 DEF Kept
<1>6. n + 1 \notin Kept(n)
    BY <1>3 DEF Kept
<1>7. Cardinality(Kept(n) \cup {n + 1}) = Cardinality(Kept(n)) + 1
    BY <1>1, <1>6, FS_AddElement
<1> QED
    BY <1>1, <1>4, <1>5, <1>7

LEMMA KeptAreRows ==
    ASSUME listings \in Seq(Listings), NEW j \in Kept(Len(All))
    PROVE  All[j] \in Rows /\ All[j].path \in Seq(Symbols)
<1>1. j \in 1..Len(All) /\ All \in Seq(Rows)
    BY AllAreDeclared DEF Kept
<1>2. All[j] \in Rows
    BY <1>1
<1> QED
    BY <1>2 DEF Rows

\* Two kept entries with one key are two declared paths that collide.
LEMMA SameKeyCollides ==
    ASSUME listings \in Seq(Listings), NEW i \in Kept(Len(All)), NEW j \in Kept(Len(All)), i # j,
           KeyAt(i) = KeyAt(j)
    PROVE  Collide
<1>1. PICK row, col : Numbered(row, col)
    BY AllAreDeclared
<1>2. All[i].path \in Seq(Symbols) /\ All[j].path \in Seq(Symbols)
    BY KeptAreRows
<1>3. SamePattern(All[i].path, All[j].path)
    BY <1>2, KeysMeanPatterns DEF KeyAt
<1>4. /\ <<row[i], col[i]>> \in Declared /\ <<row[j], col[j]>> \in Declared
      /\ PathOf(<<row[i], col[i]>>) = All[i].path /\ PathOf(<<row[j], col[j]>>) = All[j].path
      /\ <<row[i], col[i]>> # <<row[j], col[j]>>
  <2>1. KeptAreDeclared(Kept(Len(All)), row, col)
      BY <1>1, DeclaredAreKept
  <2> QED
      BY <2>1, Zenon DEF KeptAreDeclared
<1> QED
    BY <1>3, <1>4 DEF Collide

\* A table of all entries is what TableIsTheApplication asks for.
LEMMA WholeTable ==
    ASSUME listings \in Seq(Listings), TableSoFar(Len(All))
    PROVE  /\ ~Collide /\ ~SomeStatic
           /\ {e.path : e \in ToSet(table)} = {PathOf(d) : d \in Declared}
           /\ Len(table) = Cardinality(Declared)
<1> DEFINE K == Kept(Len(All))
<1>1. PICK row, col : Numbered(row, col)
    BY AllAreDeclared
<1>2. Len(All) \in Nat /\ All \in Seq(Rows)
    BY AllAreDeclared
<1> DEFINE at == [j \in K |-> <<row[j], col[j]>>]
<1>3. /\ \A j \in K : at[j] \in Declared /\ PathOf(at[j]) = All[j].path
                      /\ listings[at[j][1]].mode = All[j].mode
      /\ \A d \in Declared : \E j \in K : d = at[j]
      /\ \A i, j \in K : at[i] = at[j] => i = j
  <2> HIDE DEF K
  <2>1. \A j \in K : at[j] = <<row[j], col[j]>> /\ at[j][1] = row[j]
      OBVIOUS
  <2> HIDE DEF at
  <2>2. /\ \A j \in K : /\ <<row[j], col[j]>> \in Declared
                        /\ PathOf(<<row[j], col[j]>>) = All[j].path
                        /\ listings[row[j]].mode = All[j].mode
        /\ \A d \in Declared : \E j \in K : d = <<row[j], col[j]>>
        /\ \A i, j \in K : <<row[i], col[i]>> = <<row[j], col[j]>> => i = j
    <3>1. KeptAreDeclared(K, row, col)
        BY <1>1, DeclaredAreKept DEF K
    <3> QED
        BY <3>1, Zenon DEF KeptAreDeclared
  <2>3. ASSUME NEW j \in K
        PROVE  at[j] \in Declared /\ PathOf(at[j]) = All[j].path /\ listings[at[j][1]].mode = All[j].mode
      BY <2>1, <2>2
  <2>4. ASSUME NEW d \in Declared PROVE \E j \in K : d = at[j]
    <3>1. PICK j \in K : d = <<row[j], col[j]>>
        BY <2>2
    <3> QED
        BY <2>1, <3>1
  <2>5. ASSUME NEW i \in K, NEW j \in K, at[i] = at[j] PROVE i = j
    <3>1. <<row[i], col[i]>> = <<row[j], col[j]>>
        BY <2>1, <2>5
    <3> QED
        BY <2>2, <3>1
  <2> QED
      BY <2>3, <2>4, <2>5
<1>4. Cardinality(K) = Cardinality(Declared)
  <2>1. IsFiniteSet(K)
      BY <1>2, KeptGrows
  <2>2. at \in Bijection(K, Declared)
    <3>1. at \in [K -> Declared]
        BY <1>3
    <3> HIDE DEF at, K
    <3>2. at \in Injection(K, Declared)
        BY <1>3, <3>1 DEF Injection, IsInjective
    <3>3. at \in Surjection(K, Declared)
        BY <1>3, <3>1 DEF Surjection
    <3> QED
        BY <3>2, <3>3 DEF Bijection
  <2> HIDE DEF at, K
  <2> QED
      BY <2>1, <2>2, FS_Bijection DEF ExistsBijection
<1> HIDE DEF at
<1>5. ~SomeStatic
    BY <1>3 DEF SomeStatic, TableSoFar
<1>6. ~Collide
  <2>1. SUFFICES ASSUME NEW d \in Declared, NEW e \in Declared, d # e,
                        SamePattern(PathOf(d), PathOf(e))
                 PROVE  FALSE
      BY DEF Collide
  <2>2. PICK i \in K : d = at[i]
      BY <1>3
  <2>3. PICK j \in K : e = at[j]
      BY <1>3
  <2>4. PathOf(d) = All[i].path /\ PathOf(e) = All[j].path
      BY <1>3, <2>2, <2>3
  <2>5. All[i].path \in Seq(Symbols) /\ All[j].path \in Seq(Symbols)
      BY KeptAreRows
  <2>6. KeyAt(i) = KeyAt(j)
      BY <2>1, <2>4, <2>5, KeysMeanPatterns DEF KeyAt
  <2>7. i = j
      BY <2>6 DEF TableSoFar
  <2> QED
      BY <2>1, <2>2, <2>3, <2>7
<1>7. {e.path : e \in ToSet(table)} = {PathOf(d) : d \in Declared}
  <2>1. ToSet(table) = {All[j] : j \in K}
      BY DEF TableSoFar
  <2>2. {e.path : e \in ToSet(table)} = {All[j].path : j \in K}
      BY <2>1
  <2>3. {PathOf(d) : d \in Declared} = {All[j].path : j \in K}
    <3> HIDE DEF K
    <3>1. \A j \in K : All[j].path \in {PathOf(d) : d \in Declared}
        BY <1>3
    <3>2. \A d \in Declared : PathOf(d) \in {All[j].path : j \in K}
        BY <1>3
    <3> QED
        BY <3>1, <3>2
  <2> QED
      BY <2>2, <2>3
<1> QED
    BY <1>4, <1>5, <1>6, <1>7 DEF TableSoFar

LEMMA RouteInitially == RouteInit => RouteInv
<1> SUFFICES ASSUME RouteInit PROVE RouteInv
    OBVIOUS
<1>1. listings \in Seq(Listings)
  <2>1. PICK n \in 0..MaxRoutes : listings \in [1..n -> Listings]
      BY DEF RouteInit
  <2> QED
      BY <2>1, MaxRoutesAssumption
<1> QED
    BY <1>1 DEF RouteInit, RouteInv

\* Entries are known by their listings and by what is excluded.
LEMMA AllStays ==
    ASSUME UNCHANGED <<listings, excluded>>
    PROVE  /\ All' = All /\ (SomeMalformed <=> SomeMalformed') /\ (Collide <=> Collide')
           /\ (SomeStatic <=> SomeStatic')
           /\ \A n : Kept(n)' = Kept(n)
           /\ \A j : KeyAt(j)' = KeyAt(j)
<1>1. All' = All
    BY DEF All
<1>2. Declared' = Declared /\ \A d : PathOf(d)' = PathOf(d)
    BY DEF Declared, PathOf
<1> QED
    BY <1>1, <1>2 DEF SomeMalformed, Collide, SomeStatic, Kept, KeyAt

LEMMA TableOf ==
    ASSUME NEW n \in Nat, UNCHANGED <<listings, excluded>>,
           n \in 0..Len(All),
           entries' = SubSeq(All, n + 1, Len(All)),
           seen' = {KeyAt(j) : j \in Kept(n)},
           table' \in Seq(Rows),
           ToSet(table') = {All[j] : j \in Kept(n)},
           Len(table') = Cardinality(Kept(n)),
           \A i, j \in Kept(n) : KeyAt(i) = KeyAt(j) => i = j,
           \A j \in Kept(n) : All[j].mode # "Static"
    PROVE  TableSoFar(n)'
<1>1. All' = All /\ Kept(n)' = Kept(n) /\ \A j : KeyAt(j)' = KeyAt(j)
    BY AllStays
<1> QED
    BY <1>1 DEF TableSoFar

LEMMA DiscoverKeeps == RouteInv /\ Discover => RouteInv'
<1> SUFFICES ASSUME RouteInv, Discover PROVE RouteInv'
    OBVIOUS
<1>1. /\ listings \in Seq(Listings) /\ seen = {} /\ table = <<>>
      /\ UNCHANGED <<listings, excluded, seen, table>>
      /\ entries' = All
      /\ outcome' = IF \E e \in ToSet(All) : Unparseable(e.path) THEN "InvalidRoute" ELSE "validating"
    BY DEF RouteInv, Discover, All
<1>2. \/ outcome' = "InvalidRoute" /\ SomeMalformed'
      \/ outcome' = "validating" /\ ~SomeMalformed'
  <2>1. (\E e \in ToSet(All) : Unparseable(e.path)) <=> SomeMalformed
      BY <1>1, MalformedIsMalformed
  <2>2. SomeMalformed <=> SomeMalformed'
      BY <1>1, AllStays
  <2> QED
      BY <1>1, <2>1, <2>2
<1>3. TableSoFar(0)'
  <2>1. All \in Seq(Rows) /\ Len(All) \in Nat
      BY <1>1, AllAreDeclared
  <2>2. SubSeq(All, 0 + 1, Len(All)) = All
      BY <2>1
  <2>3. Kept(0) = {} /\ Cardinality({}) = 0
      BY FS_EmptySet DEF Kept
  <2>5. <<>> \in Seq(Rows) /\ ToSet(<<>>) = {} /\ Len(<<>>) = 0
      BY DEF ToSet
  <2> QED
    <3>1. 0 \in 0..Len(All) /\ entries' = SubSeq(All, 0 + 1, Len(All))
        BY <1>1, <2>1, <2>2
    <3>2. seen' = {KeyAt(j) : j \in Kept(0)} /\ ToSet(table') = {All[j] : j \in Kept(0)}
        BY <1>1, <2>3, <2>5
    <3>3. table' \in Seq(Rows) /\ Len(table') = Cardinality(Kept(0))
        BY <1>1, <2>3, <2>5
    <3>4. /\ \A i, j \in Kept(0) : KeyAt(i) = KeyAt(j) => i = j
          /\ \A j \in Kept(0) : All[j].mode # "Static"
        BY <2>3
    <3> QED
        BY <1>1, <3>1, <3>2, <3>3, <3>4, TableOf
<1> QED
    BY <1>1, <1>2, <1>3 DEF RouteInv

\* The entry of a turn is the next one.
LEMMA TurnIsNext ==
    ASSUME RouteInv, Turn, NEW n \in Nat, TableSoFar(n)
    PROVE  /\ n + 1 \in 1..Len(All) /\ Entry = All[n + 1] /\ All[n + 1] \in Rows
           /\ Tail(entries) = SubSeq(All, n + 1 + 1, Len(All))
<1>1. All \in Seq(Rows) /\ Len(All) \in Nat
    BY AllAreDeclared DEF RouteInv
<1>2. n \in 0..Len(All) /\ entries = SubSeq(All, n + 1, Len(All)) /\ entries # <<>>
    BY DEF TableSoFar, Turn
<1>3. n < Len(All)
    BY <1>1, <1>2, Remainder
<1>4. n + 1 \in 1..Len(All) /\ n + 1 + 1 = n + 2
    BY <1>1, <1>3
<1> QED
    BY <1>1, <1>2, <1>3, <1>4, Remainder DEF Entry

LEMMA ExcludeKeeps == RouteInv /\ Exclude => RouteInv'
<1> SUFFICES ASSUME RouteInv, Exclude PROVE RouteInv'
    OBVIOUS
<1>1. PICK n \in Nat : TableSoFar(n)
    BY DEF RouteInv, Exclude, Turn
<1>2. /\ n + 1 \in 1..Len(All) /\ Entry = All[n + 1]
      /\ Tail(entries) = SubSeq(All, n + 1 + 1, Len(All))
    BY <1>1, TurnIsNext DEF Exclude
<1>3. /\ UNCHANGED <<listings, excluded, seen, table, outcome>>
      /\ entries' = Tail(entries) /\ outcome = "validating" /\ All[n + 1].path \in excluded
    BY <1>2 DEF Exclude, Turn
<1>4. Kept(n + 1) = Kept(n)
    BY <1>3, KeptGrows
<1>5. All' = All /\ Kept(n + 1)' = Kept(n) /\ \A j : KeyAt(j)' = KeyAt(j)
    BY <1>3, <1>4, AllStays
<1>6. TableSoFar(n + 1)'
  <2>1. n + 1 \in 0..Len(All)
      BY <1>2
  <2> QED
      BY <1>1, <1>2, <1>3, <1>5, <2>1 DEF TableSoFar
<1>7. ~SomeMalformed'
    BY <1>3, AllStays DEF RouteInv
<1> QED
    BY <1>3, <1>6, <1>7 DEF RouteInv

LEMMA DuplicateKeeps == RouteInv /\ RefuseDuplicate => RouteInv'
<1> SUFFICES ASSUME RouteInv, RefuseDuplicate PROVE RouteInv'
    OBVIOUS
<1>1. PICK n \in Nat : TableSoFar(n)
    BY DEF RouteInv, RefuseDuplicate, Turn
<1>2. n + 1 \in 1..Len(All) /\ Entry = All[n + 1]
    BY <1>1, TurnIsNext DEF RefuseDuplicate
<1>3. /\ UNCHANGED <<listings, excluded>> /\ outcome' = "DuplicateRoute" /\ outcome = "validating"
      /\ All[n + 1].path \notin excluded /\ KeyAt(n + 1) \in seen
    BY <1>2 DEF RefuseDuplicate, Turn, KeyAt
<1>4. PICK j \in Kept(n) : KeyAt(j) = KeyAt(n + 1)
    BY <1>1, <1>3 DEF TableSoFar
<1>5. /\ j \in Kept(Len(All)) /\ n + 1 \in Kept(Len(All)) /\ j # n + 1
  <2>1. j \in 1..n /\ All[j].path \notin excluded
      BY <1>4 DEF Kept
  <2>2. j \in 1..Len(All) /\ j # n + 1
      BY <1>2, <2>1
  <2> QED
      BY <1>2, <1>3, <2>1, <2>2 DEF Kept
<1>6. Collide
    BY <1>4, <1>5, SameKeyCollides DEF RouteInv
<1>7. ~SomeMalformed' /\ Collide'
    BY <1>3, <1>6, AllStays DEF RouteInv
<1> QED
    BY <1>3, <1>7 DEF RouteInv

LEMMA StaticSsrKeeps == RouteInv /\ RefuseStaticSsr => RouteInv'
<1> SUFFICES ASSUME RouteInv, RefuseStaticSsr PROVE RouteInv'
    OBVIOUS
<1>1. PICK n \in Nat : TableSoFar(n)
    BY DEF RouteInv, RefuseStaticSsr, Turn
<1>2. n + 1 \in 1..Len(All) /\ Entry = All[n + 1]
    BY <1>1, TurnIsNext DEF RefuseStaticSsr
<1>3. /\ UNCHANGED <<listings, excluded>> /\ outcome' = "UnsupportedStaticSsr"
      /\ outcome = "validating"
      /\ All[n + 1].path \notin excluded /\ All[n + 1].mode = "Static"
    BY <1>2 DEF RefuseStaticSsr, Turn
<1>4. n + 1 \in Kept(Len(All))
    BY <1>2, <1>3 DEF Kept
<1>5. PICK row, col : Numbered(row, col)
    BY AllAreDeclared DEF RouteInv
<1>6. <<row[n + 1], col[n + 1]>> \in Declared /\ listings[row[n + 1]].mode = "Static"
  <2>1. KeptAreDeclared(Kept(Len(All)), row, col)
      BY <1>5, DeclaredAreKept DEF RouteInv
  <2>2. <<row[n + 1], col[n + 1]>> \in Declared /\ listings[row[n + 1]].mode = All[n + 1].mode
      BY <1>4, <2>1, Zenon DEF KeptAreDeclared
  <2> QED
      BY <1>3, <2>2
<1>7. SomeStatic
    BY <1>6 DEF SomeStatic
<1>8. ~SomeMalformed' /\ SomeStatic'
    BY <1>3, <1>7, AllStays DEF RouteInv
<1> QED
    BY <1>3, <1>8 DEF RouteInv

LEMMA KeepKeeps == RouteInv /\ Keep => RouteInv'
<1> SUFFICES ASSUME RouteInv, Keep PROVE RouteInv'
    OBVIOUS
<1>1. PICK n \in Nat : TableSoFar(n)
    BY DEF RouteInv, Keep, Turn
<1>2. /\ n + 1 \in 1..Len(All) /\ Entry = All[n + 1] /\ All[n + 1] \in Rows
      /\ Tail(entries) = SubSeq(All, n + 1 + 1, Len(All))
    BY <1>1, TurnIsNext DEF Keep
<1>3. /\ UNCHANGED <<listings, excluded, outcome>>
      /\ entries' = Tail(entries) /\ outcome = "validating" /\ All[n + 1].path \notin excluded
      /\ KeyAt(n + 1) \notin seen /\ All[n + 1].mode # "Static"
      /\ seen' = seen \cup {KeyAt(n + 1)} /\ table' = Append(table, All[n + 1])
    BY <1>2 DEF Keep, Turn, KeyAt
<1>4. /\ Kept(n + 1) = Kept(n) \cup {n + 1}
      /\ Cardinality(Kept(n + 1)) = Cardinality(Kept(n)) + 1
    BY <1>3, KeptGrows
<1>6. TableSoFar(n + 1)'
  <2>1. n + 1 \in 0..Len(All) /\ entries' = SubSeq(All, n + 1 + 1, Len(All))
    <3>1. entries' = SubSeq(All, n + 1 + 1, Len(All))
        BY <1>2, <1>3, Zenon
    <3>2. n + 1 \in 1..Len(All)
        BY <1>2
    <3> PICK m : m = Len(All)
        OBVIOUS
    <3>3. n + 1 \in 0..m
        BY <3>2
    <3> QED
        BY <3>1, <3>3
  <2>2. seen' = {KeyAt(j) : j \in Kept(n + 1)}
      BY <1>1, <1>3, <1>4 DEF TableSoFar
  <2>3. /\ table' \in Seq(Rows) /\ Len(table') = Len(table) + 1
        /\ ToSet(table') = ToSet(table) \cup {All[n + 1]}
    <3>1. table \in Seq(Rows)
        BY <1>1 DEF TableSoFar
    <3>2. \A X : \A s \in Seq(X), e \in X :
              /\ Append(s, e) \in Seq(X) /\ Len(Append(s, e)) = Len(s) + 1
              /\ ToSet(Append(s, e)) = ToSet(s) \cup {e}
      <4>1. SUFFICES ASSUME NEW X, NEW s \in Seq(X), NEW e \in X
                     PROVE  /\ Append(s, e) \in Seq(X) /\ Len(Append(s, e)) = Len(s) + 1
                            /\ ToSet(Append(s, e)) = ToSet(s) \cup {e}
          OBVIOUS
      <4>2. /\ Append(s, e) \in Seq(X) /\ Len(Append(s, e)) = Len(s) + 1
            /\ DOMAIN Append(s, e) = 1..Len(s) + 1 /\ DOMAIN s = 1..Len(s) /\ Len(s) \in Nat
            /\ Append(s, e)[Len(s) + 1] = e
            /\ \A i \in 1..Len(s) : Append(s, e)[i] = s[i]
          OBVIOUS
      <4>3. (\A i \in 1..Len(s) + 1 : i = Len(s) + 1 \/ i \in 1..Len(s))
            /\ Len(s) + 1 \in 1..Len(s) + 1 /\ (\A i \in 1..Len(s) : i \in 1..Len(s) + 1)
          BY <4>2
      <4> QED
          BY <4>2, <4>3 DEF ToSet
    <3> QED
        BY <1>2, <1>3, <3>1, <3>2
  <2>4. ToSet(table') = {All[j] : j \in Kept(n + 1)}
      BY <1>1, <1>4, <2>3 DEF TableSoFar
  <2>5. Len(table') = Cardinality(Kept(n + 1))
      BY <1>1, <1>4, <2>3 DEF TableSoFar
  <2>6. \A i, j \in Kept(n + 1) : KeyAt(i) = KeyAt(j) => i = j
    <3>1. \A i \in Kept(n) : KeyAt(i) # KeyAt(n + 1)
        BY <1>1, <1>3 DEF TableSoFar
    <3>2. \A i, j \in Kept(n) : KeyAt(i) = KeyAt(j) => i = j
        BY <1>1 DEF TableSoFar
    <3> QED
        BY <1>4, <3>1, <3>2
  <2>7. \A j \in Kept(n + 1) : All[j].mode # "Static"
      BY <1>1, <1>3, <1>4 DEF TableSoFar
  <2> QED
    <3>1. PICK m \in Nat : m = n + 1
        OBVIOUS
    <3>2. /\ m \in 0..Len(All) /\ entries' = SubSeq(All, m + 1, Len(All))
          /\ seen' = {KeyAt(j) : j \in Kept(m)}
          /\ table' \in Seq(Rows)
          /\ ToSet(table') = {All[j] : j \in Kept(m)}
          /\ Len(table') = Cardinality(Kept(m))
        BY <2>1, <2>2, <2>3, <2>4, <2>5, <3>1
    <3>3. /\ \A i, j \in Kept(m) : KeyAt(i) = KeyAt(j) => i = j
          /\ \A j \in Kept(m) : All[j].mode # "Static"
        BY <2>6, <2>7, <3>1
    <3>4. TableSoFar(m)'
        BY <1>3, <3>2, <3>3, TableOf
    <3> QED
        BY <3>1, <3>4
<1>7. ~SomeMalformed'
    BY <1>3, AllStays DEF RouteInv
<1> QED
    BY <1>3, <1>6, <1>7 DEF RouteInv

LEMMA FinishKeeps == RouteInv /\ Finish => RouteInv'
<1> SUFFICES ASSUME RouteInv, Finish PROVE RouteInv'
    OBVIOUS
<1>1. PICK n \in Nat : TableSoFar(n)
    BY DEF RouteInv, Finish
<1>2. UNCHANGED <<listings, excluded, entries, seen, table>> /\ outcome' = "Ok" /\ entries = <<>>
      /\ outcome = "validating"
    BY DEF Finish
<1>3. n = Len(All)
  <2>1. All \in Seq(Rows)
      BY AllAreDeclared DEF RouteInv
  <2>2. n \in 0..Len(All) /\ SubSeq(All, n + 1, Len(All)) = <<>>
      BY <1>1, <1>2 DEF TableSoFar
  <2> QED
      BY <2>1, <2>2, Remainder
<1>4. /\ All' = All /\ \A m : Kept(m)' = Kept(m)
      /\ \A j : KeyAt(j)' = KeyAt(j)
    BY <1>2, AllStays
<1>5. TableSoFar(n)'
    BY <1>1, <1>2, <1>4 DEF TableSoFar
<1>6. TableSoFar(Len(All))'
    BY <1>3, <1>4, <1>5
<1>7. ~SomeMalformed'
    BY <1>2, AllStays DEF RouteInv
<1> QED
    BY <1>2, <1>6, <1>7 DEF RouteInv

LEMMA RouteSteps == RouteInv /\ [RouteNext]_routeVars => RouteInv'
<1> SUFFICES ASSUME RouteInv, [RouteNext]_routeVars PROVE RouteInv'
    OBVIOUS
<1>1. CASE RouteNext
    BY <1>1, DiscoverKeeps, ExcludeKeeps, DuplicateKeeps, StaticSsrKeeps, KeepKeeps, FinishKeeps
       DEF RouteNext
<1>2. CASE UNCHANGED routeVars
  <2>1. UNCHANGED <<listings, excluded, entries, seen, table, outcome>>
      BY <1>2 DEF routeVars
  <2>2. All' = All /\ (\A n : Kept(n)' = Kept(n)) /\ (\A j : KeyAt(j)' = KeyAt(j))
        /\ (SomeMalformed <=> SomeMalformed') /\ (Collide <=> Collide')
        /\ (SomeStatic <=> SomeStatic')
      BY <2>1, AllStays
  <2>3. \A n : TableSoFar(n) => TableSoFar(n)'
      BY <2>1, <2>2 DEF TableSoFar
  <2> QED
      BY <2>1, <2>2, <2>3 DEF RouteInv
<1> QED
    BY <1>1, <1>2

LEMMA RouteShows == RouteInv => TableIsTheApplication
<1>1. ASSUME RouteInv PROVE TableIsTheApplication
    BY <1>1, WholeTable DEF RouteInv, TableIsTheApplication
<1> QED
    BY <1>1

\* A route table that is accepted is the application's, whole and unambiguous,
\* and one that is refused has the fault it is refused for, for every
\* application.
THEOREM TablesAreApplications == RouteSpec => []TableIsTheApplication
<1>1. RouteSpec => []RouteInv
    BY RouteInitially, RouteSteps, PTL DEF RouteSpec
<1> QED
    BY <1>1, RouteShows, PTL

-----------------------------------------------------------------------------
(* HandlerCore *)

USE MaxCallsAssumption, MethodsAssumption, SizeAssumption

RouteCall(i) == app[i].call \in {"generate_routes", "generate_routes_from"}
Before(m) == 1..next[m] - 1

\* The call that claims a request which nothing before it has claimed.
Claims(m, i) ==
    \/ app[i].call = "server_fn" /\ app[i].method = m /\ app[i].path
    \/ app[i].call = "static" /\ app[i].prefix = "matches"

ChoiceAt(m, i) ==
    IF app[i].call = "server_fn"
    THEN ServerFn(Response("server_fn", app[i].body, {}))
    ELSE CASE m \notin {"GET", "HEAD"} -> Preset(Plain("405"))
           [] m \in {"GET", "HEAD"} /\ app[i].key \in {"invalid", "unknown"} -> NotFound
           [] OTHER -> Preset(Asset(m, app[i]))

TableAt(i) == IF app[i].serves THEN "serves" ELSE "other"

Shapes ==
    /\ app \in Seq(Calls)
    /\ next \in [Methods -> Nat]
    /\ registered \in [Methods -> BOOLEAN]
    /\ rejected \in BOOLEAN
    /\ selection = [m \in Methods |-> selection[m]]
    /\ phase = [m \in Methods |-> phase[m]]
    /\ router = [m \in Methods |-> router[m]]
    /\ reply = [m \in Methods |-> reply[m]]

\* The first call that claims a request has it.
FirstClaim(m, i) == Claims(m, i) /\ \A j \in 1..i - 1 : ~Claims(m, j)

Claimed(m) ==
    \/ rejected /\ selection[m] = Preset(Plain("policy"))
    \/ /\ ~rejected /\ selection[m] = Unclaimed
       /\ \A i \in Before(m) : ~Claims(m, i)
    \/ /\ ~rejected
       /\ \E i \in Before(m) : FirstClaim(m, i) /\ selection[m] = ChoiceAt(m, i)

\* What was registered is valid, and the route table is the one call's.
Configured(m) ==
    /\ \A i \in Before(m) : app[i].call = "static" => app[i].prefix # "invalid"
    /\ \A i, j \in Before(m) : RouteCall(i) /\ RouteCall(j) => i = j
    /\ registered[m] <=> \E i \in Before(m) : RouteCall(i)
    /\ ~registered[m] => router[m] = "empty"
    /\ router[m] = "serves" =>
           \A i \in Before(m) : app[i].call = "generate_routes" => app[i].valid
    /\ selection[m] = Unclaimed =>
           \A i \in Before(m) : RouteCall(i) => router[m] = TableAt(i)

\* Why a request was refused, and how one was answered.
Ended(m) ==
    /\ phase[m] = "refused" =>
           /\ next[m] \in 1..Len(app)
           /\ \/ app[next[m]].call = "static" /\ app[next[m]].prefix = "invalid"
              \/ RouteCall(next[m]) /\ registered[m]
              \/ app[next[m]].call = "generate_routes" /\ ~app[next[m]].valid
    /\ phase[m] = "answered" =>
           next[m] = Len(app) + 1 /\ reply[m] = Finished(m, Rendered(m))

MethodInv(m) ==
    /\ next[m] \in 1..Len(app) + 1
    /\ Claimed(m) /\ Configured(m) /\ Ended(m)

HandlerInv == Shapes /\ \A m \in Methods : MethodInv(m)

LEMMA HandlerInitially == Init => HandlerInv
<1> SUFFICES ASSUME Init PROVE HandlerInv
    OBVIOUS
<1>1. app \in Seq(Calls) /\ Len(app) \in Nat
    BY DEF Init
<1>2. Shapes
  <2>1. next \in [Methods -> Nat]
      BY DEF Init
  <2>2. registered \in [Methods -> BOOLEAN] /\ rejected \in BOOLEAN
      BY DEF Init
  <2>3. /\ selection = [m \in Methods |-> selection[m]]
        /\ phase = [m \in Methods |-> phase[m]]
        /\ router = [m \in Methods |-> router[m]]
        /\ reply = [m \in Methods |-> reply[m]]
      BY DEF Init
  <2> QED
      BY <1>1, <2>1, <2>2, <2>3 DEF Shapes
<1>3. ASSUME NEW m \in Methods PROVE MethodInv(m)
  <2>1. /\ next[m] = 1 /\ phase[m] = "registering" /\ router[m] = "empty"
        /\ ~registered[m] /\ rejected \in BOOLEAN
        /\ rejected => selection[m] = Preset(Plain("policy"))
        /\ ~rejected => selection[m] = Unclaimed
      BY DEF Init
  <2>2. Before(m) = {}
      BY <2>1 DEF Before
  <2> QED
      BY <1>1, <2>1, <2>2 DEF MethodInv, Claimed, Configured, Ended
<1> QED
    BY <1>2, <1>3 DEF HandlerInv

-----------------------------------------------------------------------------
(* One call *)

\* What the next call of a request does to it, if it is not refused.
StepFits(m) ==
    LET i == next[m]
    IN  /\ i \in 1..Len(app)
        /\ phase[m] = "registering" /\ phase'[m] = "registering"
        /\ next'[m] = i + 1
        /\ app[i].call = "static" => app[i].prefix # "invalid"
        /\ RouteCall(i) => ~registered[m]
        /\ registered'[m] <=> registered[m] \/ RouteCall(i)
        /\ selection'[m] = IF selection[m] = Unclaimed /\ Claims(m, i)
                            THEN ChoiceAt(m, i) ELSE selection[m]
        /\ router'[m] = IF RouteCall(i) /\ selection[m] = Unclaimed
                         THEN TableAt(i) ELSE router[m]
        /\ app[i].call = "generate_routes" /\ selection[m] = Unclaimed => app[i].valid

LEMMA ClaimsAreClaims ==
    /\ \A m, i : ChoiceAt(m, i) # Unclaimed
    /\ Preset(Plain("policy")) # Unclaimed
<1>1. \A r : Preset(r) # Unclaimed /\ ServerFn(r) # Unclaimed
  <2>1. \A r : Preset(r).kind = "Preset" /\ ServerFn(r).kind = "ServerFn"
      BY DEF Preset, ServerFn
  <2>2. Unclaimed.kind = "Unclaimed"
      BY DEF Unclaimed
  <2> QED
      BY <2>1, <2>2
<1>2. NotFound # Unclaimed
    BY DEF NotFound, Unclaimed
<1> QED
    BY <1>1, <1>2 DEF ChoiceAt

LEMMA CallAdvances ==
    ASSUME HandlerInv, NEW m \in Methods, StepFits(m), UNCHANGED <<app, rejected>>
    PROVE  MethodInv(m)'
<1> PICK i \in 1..Len(app) : i = next[m]
    BY DEF StepFits
<1>1. /\ Len(app) \in Nat /\ i \in 1..Len(app) /\ next'[m] = i + 1
      /\ Before(m) = 1..i - 1 /\ Before(m)' = 1..i
      /\ MethodInv(m)
    BY DEF StepFits, Before, HandlerInv, Shapes
<1>2. \A k : RouteCall(k)' = RouteCall(k) /\ Claims(m, k)' = Claims(m, k)
             /\ TableAt(k)' = TableAt(k) /\ ChoiceAt(m, k)' = ChoiceAt(m, k)
    BY DEF RouteCall, Claims, TableAt, ChoiceAt
<1>3. Claimed(m)'
  <2>1. CASE rejected /\ selection[m] = Preset(Plain("policy"))
      BY <2>1, ClaimsAreClaims DEF StepFits, Claimed
  <2>2. CASE /\ ~rejected /\ selection[m] = Unclaimed
             /\ \A k \in Before(m) : ~Claims(m, k)
    <3>1. CASE Claims(m, i)
      <4>1. selection'[m] = ChoiceAt(m, i)
          BY <2>2, <3>1 DEF StepFits
      <4>2. FirstClaim(m, i)'
          BY <1>1, <1>2, <2>2, <3>1 DEF FirstClaim
      <4> QED
          BY <1>1, <1>2, <2>2, <4>1, <4>2 DEF Claimed
    <3>2. CASE ~Claims(m, i)
        BY <1>1, <1>2, <2>2, <3>2 DEF StepFits, Claimed
    <3> QED
        BY <3>1, <3>2
  <2>3. CASE /\ ~rejected
             /\ \E k \in Before(m) : FirstClaim(m, k) /\ selection[m] = ChoiceAt(m, k)
    <3>1. PICK k \in Before(m) : FirstClaim(m, k) /\ selection[m] = ChoiceAt(m, k)
        BY <2>3
    <3>2. selection'[m] = ChoiceAt(m, k)
        BY <3>1, ClaimsAreClaims DEF StepFits
    <3>3. FirstClaim(m, k)'
        BY <1>2, <3>1 DEF FirstClaim
    <3>4. k \in Before(m)'
        BY <1>1, <3>1
    <3> QED
        BY <1>2, <2>3, <3>2, <3>3, <3>4 DEF Claimed
  <2> QED
      BY <1>1, <2>1, <2>2, <2>3 DEF MethodInv, Claimed
<1>4. Configured(m)'
  <2>1. /\ \A k \in 1..i - 1 : app[k].call = "static" => app[k].prefix # "invalid"
        /\ \A k, l \in 1..i - 1 : RouteCall(k) /\ RouteCall(l) => k = l
        /\ registered[m] <=> \E k \in 1..i - 1 : RouteCall(k)
        /\ ~registered[m] => router[m] = "empty"
        /\ router[m] = "serves" =>
               \A k \in 1..i - 1 : app[k].call = "generate_routes" => app[k].valid
        /\ selection[m] = Unclaimed =>
               \A k \in 1..i - 1 : RouteCall(k) => router[m] = TableAt(k)
    <3>1. Configured(m) /\ Before(m) = 1..i - 1
        BY <1>1, Zenon DEF MethodInv
    <3> QED
        BY <3>1, Zenon DEF Configured
  <2>2. /\ app[i].call = "static" => app[i].prefix # "invalid"
        /\ RouteCall(i) => ~registered[m]
        /\ registered'[m] <=> registered[m] \/ RouteCall(i)
        /\ router'[m] = IF RouteCall(i) /\ selection[m] = Unclaimed THEN TableAt(i) ELSE router[m]
        /\ app[i].call = "generate_routes" /\ selection[m] = Unclaimed => app[i].valid
        /\ selection'[m] = Unclaimed => selection[m] = Unclaimed
    BY ClaimsAreClaims DEF StepFits
  <2>3. \A k : k \in 1..i <=> k \in 1..i - 1 \/ k = i
      OBVIOUS
  <2>4. \A k : app[k].call = "generate_routes" => RouteCall(k)
      BY DEF RouteCall
  <2>5. \A k \in 1..i : app[k].call = "static" => app[k].prefix # "invalid"
      BY ONLY <2>1, <2>2, <2>3
  <2>6. \A k, l \in 1..i : RouteCall(k) /\ RouteCall(l) => k = l
      BY ONLY <2>1, <2>2, <2>3
  <2>7. registered'[m] <=> \E k \in 1..i : RouteCall(k)
      BY ONLY <2>1, <2>2, <2>3
  <2>8. ~registered'[m] => router'[m] = "empty"
      BY ONLY <2>1, <2>2
  <2>9. ASSUME router'[m] = "serves", NEW k \in 1..i, app[k].call = "generate_routes"
        PROVE  app[k].valid
    <3>1. CASE RouteCall(i)
      <4>1. ~registered[m] /\ router[m] # "serves"
          BY ONLY <2>1, <2>2, <3>1
      <4>2. selection[m] = Unclaimed /\ k = i
          BY ONLY <2>1, <2>2, <2>3, <2>4, <2>9, <4>1
      <4> QED
          BY ONLY <2>2, <2>9, <4>2
    <3>2. CASE ~RouteCall(i)
      <4>1. router[m] = "serves" /\ k \in 1..i - 1
          BY ONLY <2>2, <2>3, <2>4, <2>9, <3>2
      <4> QED
          BY ONLY <2>1, <2>9, <4>1
    <3> QED
        BY <3>1, <3>2
  <2>10. ASSUME selection'[m] = Unclaimed, NEW k \in 1..i, RouteCall(k)
         PROVE  router'[m] = TableAt(k)
    <3>1. CASE RouteCall(i)
      <4>1. k = i
          BY ONLY <2>1, <2>2, <2>3, <2>10, <3>1
      <4> QED
          BY ONLY <2>2, <2>10, <3>1, <4>1
    <3>2. CASE ~RouteCall(i)
      <4>1. router'[m] = router[m] /\ k \in 1..i - 1
          BY ONLY <2>2, <2>3, <2>10, <3>2
      <4> QED
          BY ONLY <2>1, <2>2, <2>10, <4>1
    <3> QED
        BY <3>1, <3>2
  <2>11. \A k : RouteCall(k)' = RouteCall(k) /\ TableAt(k)' = TableAt(k)
      BY <1>2
  <2>12. app' = app /\ Before(m)' = 1..i
      BY <1>1
  <2> QED
      BY ONLY <2>5, <2>6, <2>7, <2>8, <2>9, <2>10, <2>11, <2>12 DEF Configured
<1>5. Ended(m)'
    BY DEF StepFits, Ended
<1> QED
    BY <1>1, <1>3, <1>4, <1>5 DEF MethodInv

\* The requests of the other methods are where they were.
LEMMA OthersStay ==
    ASSUME HandlerInv, NEW n \in Methods, UNCHANGED <<app, rejected>>,
           next'[n] = next[n], phase'[n] = phase[n], selection'[n] = selection[n],
           router'[n] = router[n], registered'[n] = registered[n], reply'[n] = reply[n]
    PROVE  MethodInv(n)'
<1>1. MethodInv(n)
    BY DEF HandlerInv
<1>2. \A k : RouteCall(k)' = RouteCall(k) /\ Claims(n, k)' = Claims(n, k)
             /\ TableAt(k)' = TableAt(k) /\ ChoiceAt(n, k)' = ChoiceAt(n, k)
             /\ FirstClaim(n, k)' = FirstClaim(n, k)
    BY DEF RouteCall, Claims, TableAt, ChoiceAt, FirstClaim
<1>3. Claimed(n)'
    BY <1>1, <1>2 DEF MethodInv, Claimed, Before
<1>4. Configured(n)'
    BY <1>1, <1>2 DEF MethodInv, Configured, Before
<1>5. Ended(n)'
    BY <1>1, <1>2 DEF MethodInv, Ended, Rendered
<1> QED
    BY <1>1, <1>3, <1>4, <1>5 DEF MethodInv

-----------------------------------------------------------------------------
(* The actions *)

\* Only the request of the acting method changes.
Only(m) ==
    \A n \in Methods \ {m} :
        /\ next'[n] = next[n] /\ phase'[n] = phase[n] /\ selection'[n] = selection[n]
        /\ router'[n] = router[n] /\ registered'[n] = registered[n]
        /\ reply'[n] = reply[n]

LEMMA CallKeeps ==
    ASSUME HandlerInv, NEW m \in Methods, StepFits(m), Shapes', Only(m),
           UNCHANGED <<app, rejected>>
    PROVE  HandlerInv'
BY CallAdvances, OthersStay DEF Only, HandlerInv

\* A call that goes on has these effects; the four kinds of calls differ in the rest.
LEMMA CallGoesOn ==
    ASSUME Shapes, NEW m \in Methods, phase[m] = "registering", Continue(m),
           UNCHANGED registered \/ registered' = [registered EXCEPT ![m] = TRUE],
           NEW choice, UNCHANGED selection \/ selection' = [selection EXCEPT ![m] = choice],
           NEW installed, UNCHANGED router \/ router' = [router EXCEPT ![m] = installed]
    PROVE  /\ Shapes' /\ Only(m) /\ UNCHANGED <<app, rejected>>
           /\ next'[m] = next[m] + 1 /\ phase'[m] = "registering"
<1> USE DEF Shapes, Continue
<1>1. /\ next' \in [Methods -> Nat] /\ registered' \in [Methods -> BOOLEAN]
      /\ next'[m] = next[m] + 1 /\ phase'[m] = "registering"
      /\ \A n \in Methods \ {m} : next'[n] = next[n] /\ registered'[n] = registered[n]
  <2>1. /\ next' \in [Methods -> Nat] /\ next'[m] = next[m] + 1
        /\ \A n \in Methods \ {m} : next'[n] = next[n]
      OBVIOUS
  <2>2. /\ registered' \in [Methods -> BOOLEAN]
        /\ \A n \in Methods \ {m} : registered'[n] = registered[n]
      BY Zenon
  <2> QED
      BY <2>1, <2>2
<1>2. /\ selection' = [n \in Methods |-> selection'[n]]
      /\ \A n \in Methods \ {m} : selection'[n] = selection[n]
    OBVIOUS
<1>3. /\ router' = [n \in Methods |-> router'[n]]
      /\ \A n \in Methods \ {m} : router'[n] = router[n]
    OBVIOUS
<1> QED
    BY <1>1, <1>2, <1>3 DEF Only

\* A refusal is for one of the three faults.
LEMMA RefuseKeeps ==
    ASSUME HandlerInv, NEW m \in Methods, Refuse(m),
           next[m] \in 1..Len(app),
           \/ app[next[m]].call = "static" /\ app[next[m]].prefix = "invalid"
           \/ RouteCall(next[m]) /\ registered[m]
           \/ app[next[m]].call = "generate_routes" /\ ~app[next[m]].valid
    PROVE  HandlerInv'
<1> USE DEF Refuse
<1>1. Shapes' /\ Only(m)
    BY DEF HandlerInv, Shapes, Only
<1>2. \A n \in Methods \ {m} : MethodInv(n)'
    BY <1>1, OthersStay DEF Only
<1>3. phase'[m] = "refused"
    BY DEF HandlerInv, Shapes
<1>4. Claimed(m)'
    BY DEF HandlerInv, MethodInv, Claimed, FirstClaim, Claims, ChoiceAt, Before
<1>5. Configured(m)'
    BY DEF HandlerInv, MethodInv, Configured, RouteCall, TableAt, Before
<1>6. Ended(m)'
    BY <1>3 DEF Ended, RouteCall
<1>7. MethodInv(m)'
    BY <1>4, <1>5, <1>6 DEF HandlerInv, MethodInv
<1> QED
    BY <1>1, <1>2, <1>7 DEF HandlerInv

LEMMA CallingIsThere ==
    ASSUME HandlerInv, NEW m \in Methods, NEW names, Calling(m, names)
    PROVE  /\ phase[m] = "registering" /\ next[m] \in 1..Len(app)
           /\ app[next[m]].call \in names
BY DEF Calling, Call, HandlerInv, Shapes, MethodInv

LEMMA WithServerFnKeeps ==
    ASSUME HandlerInv, NEW m \in Methods, WithServerFn(m)
    PROVE  HandlerInv'
<1> DEFINE choice == ServerFn(Response("server_fn", Call(m).body, {}))
<1>1. /\ phase[m] = "registering" /\ next[m] \in 1..Len(app)
      /\ app[next[m]].call = "server_fn" /\ Shapes /\ Continue(m)
      /\ UNCHANGED <<router, registered>>
    BY DEF WithServerFn, Calling, Call, Select, Pass, HandlerInv, MethodInv
<1>2. selection' = IF selection[m] = Unclaimed /\ Claims(m, next[m])
                   THEN [selection EXCEPT ![m] = choice] ELSE selection
    BY <1>1 DEF WithServerFn, Call, Select, Pass, Shortcut, Claims
<1>3. /\ Shapes' /\ Only(m) /\ UNCHANGED <<app, rejected>>
      /\ next'[m] = next[m] + 1 /\ phase'[m] = "registering"
  <2> HIDE DEF choice
  <2> QED
      BY <1>1, <1>2, CallGoesOn
<1>4. choice = ChoiceAt(m, next[m])
    BY <1>1 DEF ChoiceAt, Call
<1>5. StepFits(m)
    BY <1>1, <1>2, <1>3, <1>4 DEF StepFits, RouteCall, Shapes
<1> QED
    BY <1>3, <1>5, CallKeeps

LEMMA StaticFilesHandlerKeeps ==
    ASSUME HandlerInv, NEW m \in Methods, StaticFilesHandler(m)
    PROVE  HandlerInv'
<1>1. /\ phase[m] = "registering" /\ next[m] \in 1..Len(app)
      /\ app[next[m]].call = "static" /\ Shapes
  <2>1. Calling(m, {"static"})
      BY DEF StaticFilesHandler
  <2>2. /\ phase[m] = "registering" /\ next[m] \in 1..Len(app)
        /\ app[next[m]].call \in {"static"}
      BY <2>1, CallingIsThere
  <2>3. Shapes
      BY DEF HandlerInv
  <2> QED
      BY <2>2, <2>3
<1>2. CASE Call(m).prefix = "invalid"
    BY <1>1, <1>2, RefuseKeeps DEF StaticFilesHandler, Call
<1>3. CASE Call(m).prefix # "invalid"
  <2>1. Continue(m) /\ UNCHANGED <<router, registered>>
      BY <1>3 DEF StaticFilesHandler, Select, Pass
  <2>2. Call(m).prefix \in {"invalid", "other", "matches"}
      BY <1>1 DEF Call, Shapes, Calls, ServerFnCalls, StaticCalls, RouteCalls
  <2>3. selection' = IF selection[m] = Unclaimed /\ Claims(m, next[m])
                     THEN [selection EXCEPT ![m] = StaticChoice(m)] ELSE selection
      BY <1>1, <1>3, <2>2
         DEF StaticFilesHandler, Call, Select, Pass, Shortcut, Claims
  <2>4. /\ Shapes' /\ Only(m) /\ UNCHANGED <<app, rejected>>
        /\ next'[m] = next[m] + 1 /\ phase'[m] = "registering"
      BY <1>1, <2>1, <2>3, CallGoesOn
  <2>5. StaticChoice(m) = ChoiceAt(m, next[m])
      BY <1>1 DEF StaticChoice, ChoiceAt, Call
  <2>6. StepFits(m)
      BY <1>1, <1>3, <2>1, <2>3, <2>4, <2>5 DEF StepFits, RouteCall, Shapes, Call
  <2> QED
      BY <2>4, <2>6, CallKeeps
<1> QED
    BY <1>2, <1>3

\* A route call that is not refused installs a table, or the old one.
LEMMA InstallKeeps ==
    ASSUME HandlerInv, NEW m \in Methods,
           Calling(m, {"generate_routes", "generate_routes_from"}), ~registered[m],
           Install(m, IF Shortcut(m) THEN router[m] ELSE Table(m)),
           Call(m).call = "generate_routes" => Shortcut(m) \/ Call(m).valid
    PROVE  HandlerInv'
<1> DEFINE installed == IF Shortcut(m) THEN router[m] ELSE Table(m)
<1>1. /\ phase[m] = "registering" /\ next[m] \in 1..Len(app)
      /\ RouteCall(next[m])
    BY CallingIsThere DEF RouteCall
<1>2. /\ Shapes /\ Continue(m)
      /\ registered' = [registered EXCEPT ![m] = TRUE]
      /\ router' = [router EXCEPT ![m] = installed]
      /\ UNCHANGED selection
    BY DEF HandlerInv, Install
<1>3. /\ Shapes' /\ Only(m) /\ UNCHANGED <<app, rejected>>
      /\ next'[m] = next[m] + 1 /\ phase'[m] = "registering"
  <2> HIDE DEF installed
  <2> QED
      BY <1>1, <1>2, CallGoesOn
<1>4. router'[m] = IF selection[m] = Unclaimed THEN TableAt(next[m]) ELSE router[m]
    BY <1>1, <1>2 DEF Shapes, Shortcut, Table, TableAt, Call
<1>5. registered'[m] /\ ~Claims(m, next[m])
    BY <1>1, <1>2 DEF Shapes, RouteCall, Claims
<1>6. StepFits(m)
    BY <1>1, <1>2, <1>3, <1>4, <1>5 DEF StepFits, RouteCall, Shortcut, Call
<1> QED
    BY <1>3, <1>6, CallKeeps

LEMMA GenerateRoutesKeeps ==
    ASSUME HandlerInv, NEW m \in Methods, GenerateRoutes(m) \/ GenerateRoutesFrom(m)
    PROVE  HandlerInv'
<1>1. Calling(m, {"generate_routes", "generate_routes_from"})
    BY DEF GenerateRoutes, GenerateRoutesFrom, Calling
<1>2. next[m] \in 1..Len(app) /\ RouteCall(next[m])
      /\ Calling(m, {"generate_routes", "generate_routes_from"})
    BY <1>1, CallingIsThere DEF RouteCall
<1>3. CASE registered[m]
    BY <1>2, <1>3, RefuseKeeps DEF GenerateRoutes, GenerateRoutesFrom
<1>4. CASE GenerateRoutes(m) /\ ~registered[m] /\ ~Shortcut(m) /\ ~Call(m).valid
    BY <1>2, <1>4, RefuseKeeps DEF GenerateRoutes, Calling, Call
<1>5. CASE GenerateRoutes(m) /\ ~registered[m] /\ (Shortcut(m) \/ Call(m).valid)
    BY <1>2, <1>5, InstallKeeps DEF GenerateRoutes
<1>6. CASE GenerateRoutesFrom(m) /\ ~registered[m]
    BY <1>2, <1>6, InstallKeeps DEF GenerateRoutesFrom, Calling
<1> QED
    BY <1>3, <1>4, <1>5, <1>6

LEMMA RenderKeeps ==
    ASSUME HandlerInv, NEW m \in Methods, Render(m)
    PROVE  HandlerInv'
<1> USE DEF Render
<1>1. Shapes' /\ Only(m)
    BY DEF HandlerInv, Shapes, Only
<1>2. \A n \in Methods \ {m} : MethodInv(n)'
    BY <1>1, OthersStay DEF Only
<1>3. phase'[m] = "answered" /\ reply'[m] = Finished(m, Rendered(m))
    BY DEF HandlerInv, Shapes
<1>4. next[m] = Len(app) + 1
    BY DEF HandlerInv, MethodInv, Shapes
<1>5. Claimed(m)'
    BY DEF HandlerInv, MethodInv, Claimed, FirstClaim, Claims, ChoiceAt, Before
<1>6. Configured(m)'
    BY DEF HandlerInv, MethodInv, Configured, RouteCall, TableAt, Before
<1>7. Ended(m)'
    BY <1>3, <1>4 DEF Ended, Rendered
<1>8. MethodInv(m)'
    BY <1>5, <1>6, <1>7 DEF HandlerInv, MethodInv
<1> QED
    BY <1>1, <1>2, <1>8 DEF HandlerInv

LEMMA HandlerSteps == HandlerInv /\ [Next]_vars => HandlerInv'
<1> SUFFICES ASSUME HandlerInv, [Next]_vars PROVE HandlerInv'
    OBVIOUS
<1>1. CASE UNCHANGED vars
  <2>1. Shapes' /\ \A n \in Methods : MethodInv(n)'
      BY <1>1, OthersStay DEF vars, HandlerInv, Shapes
  <2> QED
      BY <1>1, <2>1 DEF vars, HandlerInv
<1> QED
    BY <1>1, WithServerFnKeeps, StaticFilesHandlerKeeps, GenerateRoutesKeeps,
       RenderKeeps DEF Next

\* The inductive invariant, for any application and any methods.
THEOREM HandlerInvariant == Spec => []HandlerInv
BY HandlerInitially, HandlerSteps, PTL DEF Spec

-----------------------------------------------------------------------------
(* What follows *)

LEMMA NoTakeover ==
    ASSUME HandlerInv, [Next]_vars, NEW m \in Methods, Shortcut(m)
    PROVE  selection'[m] = selection[m]
<1>1. selection = [n \in Methods |-> selection[n]]
    BY DEF HandlerInv, Shapes
<1>2. ASSUME NEW n \in Methods,
             \/ WithServerFn(n) \/ StaticFilesHandler(n) \/ GenerateRoutes(n)
             \/ GenerateRoutesFrom(n) \/ Render(n)
      PROVE  \/ selection' = selection
             \/ ~Shortcut(n) /\ \E choice : selection' = [selection EXCEPT ![n] = choice]
    BY <1>2 DEF WithServerFn, StaticFilesHandler, GenerateRoutes, GenerateRoutesFrom,
       Render, Select, Pass, Refuse, Install
<1>3. CASE UNCHANGED vars
    BY <1>3 DEF vars
<1> QED
    BY <1>1, <1>2, <1>3 DEF Next

\* No step takes a claimed request over.
THEOREM ClaimStands == Spec => FirstClaimStands
<1>1. HandlerInv /\ [Next]_vars
          => [\A m \in Methods : Shortcut(m) => selection'[m] = selection[m]]_vars
    BY NoTakeover
<1> QED
    BY <1>1, HandlerInvariant, PTL DEF Spec, FirstClaimStands

\* Where an answer comes from: the claim, the route table or the 404.
LEMMA AnswersHaveASource ==
    ASSUME HandlerInv, NEW m \in Methods, Answered(m), reply[m].by = "ssr"
    PROVE  selection[m] = Unclaimed /\ router[m] = "serves"
<1>1. reply[m].by = Rendered(m).by /\ Claimed(m)
  <2>1. reply[m] = Finished(m, Rendered(m)) /\ Claimed(m)
      BY DEF HandlerInv, MethodInv, Ended, Answered
  <2>2. \A r : Finished(m, r).by = r.by
      BY DEF Finished
  <2> QED
      BY <2>1, <2>2
<1>2. Plain("404").by = "404" /\ Plain("405").by = "405" /\ Plain("policy").by = "policy"
    BY DEF Plain, Response
<1>3. \A i : ChoiceAt(m, i).kind \in {"Preset", "ServerFn"} =>
              ChoiceAt(m, i).response.by # "ssr"
  <2>1. \A r : ServerFn(r).kind = "ServerFn" /\ ServerFn(r).response = r
               /\ Preset(r).kind = "Preset" /\ Preset(r).response = r
      BY DEF ServerFn, Preset
  <2>2. NotFound.kind = "NotFound"
      BY DEF NotFound
  <2>3. \A b : Response("server_fn", b, {}).by = "server_fn"
      BY DEF Response
  <2>4. \A asset : Asset(m, asset).by = "static"
      BY DEF Asset
  <2> QED
      BY <1>2, <2>1, <2>2, <2>3, <2>4 DEF ChoiceAt
<1>4. Preset(Plain("policy")).kind = "Preset"
      /\ Preset(Plain("policy")).response = Plain("policy")
    BY DEF Preset
<1>5. selection[m].kind \in {"Preset", "ServerFn"} => selection[m].response.by # "ssr"
  <2>1. Unclaimed.kind = "Unclaimed"
      BY DEF Unclaimed
  <2> QED
      BY <1>1, <1>2, <1>3, <1>4, <2>1 DEF Claimed
<1> QED
    BY <1>1, <1>2, <1>5 DEF Rendered

\* An answered request has been through every call, and none was refused.
LEMMA AnsweredSawAll ==
    ASSUME HandlerInv, NEW m \in Methods, Answered(m)
    PROVE  Configured(m) /\ Before(m) = 1..Len(app)
BY DEF HandlerInv, Shapes, MethodInv, Ended, Answered, Before

LEMMA ConfigurationShows == HandlerInv => AnsweredMeansConfigured
BY AnsweredSawAll, AnswersHaveASource
   DEF Configured, RouteCall, AnsweredMeansConfigured, Has

\* A request is answered only by an application that is configured.
THEOREM AnswersNeedConfiguration == Spec => []AnsweredMeansConfigured
BY HandlerInvariant, ConfigurationShows, PTL

LEMMA RefusalsShow == HandlerInv => SameForEveryMethod
<1> SUFFICES ASSUME HandlerInv, NEW m \in Methods, NEW n \in Methods,
                    phase[m] = "refused", Answered(n)
             PROVE  \E i \in Has({"generate_routes"}) : ~app[i].valid
    BY DEF SameForEveryMethod
<1>1. Configured(n) /\ Before(n) = 1..Len(app)
    BY AnsweredSawAll
<1> DEFINE i == next[m]
<1>2. /\ i \in 1..Len(app)
      /\ \/ app[i].call = "static" /\ app[i].prefix = "invalid"
         \/ RouteCall(i) /\ registered[m]
         \/ app[i].call = "generate_routes" /\ ~app[i].valid
    BY DEF HandlerInv, MethodInv, Ended
<1>3. CASE app[i].call = "static" /\ app[i].prefix = "invalid"
    BY <1>1, <1>2, <1>3 DEF Configured
<1>4. CASE RouteCall(i) /\ registered[m]
  <2>1. PICK j \in Before(m) : RouteCall(j)
      BY <1>4 DEF HandlerInv, MethodInv, Configured
  <2>2. j \in 1..Len(app) /\ j # i
      BY <1>2, <2>1 DEF Before, HandlerInv, Shapes
  <2> QED
      BY <1>1, <1>2, <1>4, <2>1, <2>2 DEF Configured
<1>5. CASE app[i].call = "generate_routes" /\ ~app[i].valid
    BY <1>2, <1>5 DEF Has
<1> QED
    BY <1>2, <1>3, <1>4, <1>5

\* One request is refused and another answered only over an invalid route table.
THEOREM RefusalsAgree == Spec => []SameForEveryMethod
BY HandlerInvariant, RefusalsShow, PTL

-----------------------------------------------------------------------------
(* HEAD and GET *)

\* A server function is registered for GET or POST, so HEAD has fewer claims.
LEMMA HeadClaims ==
    ASSUME app \in Seq(Calls), NEW i \in 1..Len(app)
    PROVE  /\ Claims("HEAD", i) => Claims("GET", i)
           /\ Claims("GET", i) /\ app[i].call # "server_fn" => Claims("HEAD", i)
           /\ Claims("HEAD", i) => app[i].call = "static"
<1>1. app[i] \in Calls
    OBVIOUS
<1>2. app[i].call = "server_fn" => app[i].method # "HEAD"
    BY <1>1 DEF Calls, ServerFnCalls, StaticCalls, RouteCalls
<1> QED
    BY <1>2 DEF Claims

\* What the selection and the route table of a request render to.
LEMMA RenderedOf ==
    ASSUME NEW m
    PROVE  /\ selection[m] = Preset(Plain("policy")) => Rendered(m) = Plain("policy")
           /\ selection[m] = NotFound => Rendered(m) = Plain("404")
           /\ selection[m] = Unclaimed /\ router[m] = "serves" =>
                  Rendered(m).body = "Async"
           /\ selection[m] = Unclaimed /\ router[m] # "serves" =>
                  Rendered(m) = Plain("404")
           /\ \A r : selection[m] \in {Preset(r), ServerFn(r)} => Rendered(m) = r
<1>1. Unclaimed.kind = "Unclaimed" /\ NotFound.kind = "NotFound"
    BY DEF Unclaimed, NotFound
<1>2. \A r : /\ Preset(r).kind = "Preset" /\ Preset(r).response = r
             /\ ServerFn(r).kind = "ServerFn" /\ ServerFn(r).response = r
    BY DEF Preset, ServerFn
<1>3. Response("ssr", "Async", {}).body = "Async"
    BY DEF Response
<1> QED
    BY <1>1, <1>2, <1>3 DEF Rendered

\* The selections of GET and HEAD that are both answered.
LEMMA HeadRendered ==
    ASSUME HandlerInv, "GET" \in Methods, "HEAD" \in Methods,
           Answered("GET"), Answered("HEAD"),
           Rendered("GET").by # "server_fn"
    PROVE  \/ Rendered("HEAD") = Rendered("GET")
           \/ \E asset : /\ Rendered("GET") = Asset("GET", asset)
                         /\ Rendered("HEAD") = Asset("HEAD", asset)
<1>1. /\ Claimed("GET") /\ Claimed("HEAD") /\ Configured("GET") /\ Configured("HEAD")
      /\ Before("GET") = 1..Len(app) /\ Before("HEAD") = 1..Len(app)
      /\ app \in Seq(Calls)
    BY AnsweredSawAll DEF HandlerInv, MethodInv, Shapes
<1>2. CASE rejected
    BY <1>1, <1>2, RenderedOf DEF Claimed
<1>3. CASE ~rejected /\ selection["GET"] = Unclaimed
                     /\ \A i \in Before("GET") : ~Claims("GET", i)
  <2>1. selection["HEAD"] = Unclaimed
      BY <1>1, <1>3, HeadClaims DEF Claimed, FirstClaim
  <2>2. router["HEAD"] = router["GET"]
    <3>1. CASE \E i \in 1..Len(app) : RouteCall(i)
        BY <1>1, <1>3, <2>1, <3>1 DEF Configured
    <3>2. CASE \A i \in 1..Len(app) : ~RouteCall(i)
        BY <1>1, <3>2 DEF Configured
    <3> QED
        BY <3>1, <3>2
  <2> QED
      BY <1>3, <2>1, <2>2 DEF Rendered
<1>4. CASE ~rejected /\ \E i \in Before("GET") :
                FirstClaim("GET", i) /\ selection["GET"] = ChoiceAt("GET", i)
  <2>1. PICK i \in 1..Len(app) :
                FirstClaim("GET", i) /\ selection["GET"] = ChoiceAt("GET", i)
      BY <1>1, <1>4
  <2>2. app[i].call # "server_fn"
    <3>1. Response("server_fn", app[i].body, {}).by = "server_fn"
        BY DEF Response
    <3> QED
        BY <2>1, <3>1, RenderedOf DEF ChoiceAt
  <2>3. FirstClaim("HEAD", i)
    <3>1. \A j \in 1..i - 1 : j \in 1..Len(app)
        BY <1>1
    <3> QED
        BY <1>1, <2>1, <2>2, <3>1, HeadClaims DEF FirstClaim
  <2>4. PICK k \in 1..Len(app) :
                FirstClaim("HEAD", k) /\ selection["HEAD"] = ChoiceAt("HEAD", k)
      BY <1>1, <1>4, <2>3 DEF Claimed, FirstClaim
  <2>5. k = i
    <3>1. ~(k < i)
        BY <2>3, <2>4 DEF FirstClaim
    <3>2. ~(i < k)
        BY <2>3, <2>4 DEF FirstClaim
    <3> QED
        BY <3>1, <3>2
  <2>6. CASE app[i].key \in {"invalid", "unknown"}
      BY <2>1, <2>2, <2>4, <2>5, <2>6, RenderedOf DEF ChoiceAt
  <2>7. CASE app[i].key \notin {"invalid", "unknown"}
    <3>1. selection["GET"] = Preset(Asset("GET", app[i]))
          /\ selection["HEAD"] = Preset(Asset("HEAD", app[i]))
        BY <2>1, <2>2, <2>4, <2>5, <2>7 DEF ChoiceAt
    <3> QED
        BY <3>1, RenderedOf
  <2> QED
      BY <2>6, <2>7
<1> QED
    BY <1>1, <1>2, <1>3, <1>4 DEF Claimed

LEMMA HeadShows == HandlerInv => HeadAgreesWithGet
<1> SUFFICES ASSUME HandlerInv, "GET" \in Methods, "HEAD" \in Methods,
                    Answered("GET"), Answered("HEAD"), reply["GET"].by # "server_fn"
             PROVE  /\ reply["HEAD"].by = reply["GET"].by
                    /\ reply["HEAD"].bytes = 0
                    /\ reply["GET"].body = "Sync" =>
                           reply["HEAD"].length = reply["GET"].length
    BY DEF HeadAgreesWithGet
<1>1. reply["GET"] = Finished("GET", Rendered("GET"))
      /\ reply["HEAD"] = Finished("HEAD", Rendered("HEAD"))
    BY DEF HandlerInv, MethodInv, Ended, Answered
<1>2. /\ \A r : Finished("GET", r).by = r.by /\ Finished("HEAD", r).by = r.by
      /\ \A r : Finished("GET", r).body = r.body /\ Finished("HEAD", r).bytes = 0
      /\ \A r : Finished("HEAD", r).length = Finished("GET", r).length
    BY DEF Finished
<1>3. /\ Rendered("GET").by # "server_fn"
      /\ reply["GET"].body = "Sync" => Rendered("GET").body = "Sync"
    BY <1>1, <1>2
<1>4. CASE Rendered("HEAD") = Rendered("GET")
    BY <1>1, <1>2, <1>4
<1>5. ASSUME NEW asset, Rendered("GET") = Asset("GET", asset),
             Rendered("HEAD") = Asset("HEAD", asset)
      PROVE  /\ reply["GET"].body = "Sync" =>
                    reply["HEAD"].length = reply["GET"].length
             /\ reply["HEAD"].by = reply["GET"].by
  <2>1. Asset("GET", asset).by = Asset("HEAD", asset).by
        /\ Asset("GET", asset).body = asset.body
        /\ Asset("GET", asset).length = Asset("HEAD", asset).length
        /\ Asset("GET", asset).length = AssetLength("GET", asset)
      BY DEF Asset, AssetLength
  <2>2. reply["GET"].body = "Sync" => AssetLength("GET", asset) # {}
      BY <1>3, <1>5, <2>1 DEF AssetLength
  <2>3. \A r : r.length # {} => Finished("GET", r).length = r.length
                                /\ Finished("HEAD", r).length = r.length
      BY DEF Finished
  <2> QED
      BY <1>1, <1>2, <1>5, <2>1, <2>2, <2>3
<1> QED
    BY <1>1, <1>2, <1>3, <1>4, <1>5, HeadRendered

\* HEAD is answered by what answers GET and has no body, unless that is a server
\* function; where GET has a synchronous body, HEAD has its Content-Length.
THEOREM HeadIsGet == Spec => []HeadAgreesWithGet
BY HandlerInvariant, HeadShows, PTL

-----------------------------------------------------------------------------
(* The four together *)

SetupInv == SpawnerInv /\ PathInv /\ RouteInv /\ HandlerInv

LEMMA NothingYet ==
    /\ NoPath => PathInv
    /\ NoRoutes => RouteInv
    /\ NoCalls => HandlerInv
<1>1. ASSUME NoRoutes PROVE RouteInv
    BY <1>1 DEF NoRoutes, RouteInv
<1>2. ASSUME NoCalls PROVE HandlerInv
  <2>1. app = <<>> /\ app \in Seq(Calls) /\ Len(app) = 0 /\ rejected = FALSE
      BY <1>2 DEF NoCalls
  <2>2. Shapes
    <3>1. /\ next \in [Methods -> Nat] /\ registered \in [Methods -> BOOLEAN]
          /\ selection = [m \in Methods |-> selection[m]]
          /\ phase = [m \in Methods |-> phase[m]]
          /\ router = [m \in Methods |-> router[m]]
          /\ reply = [m \in Methods |-> reply[m]]
        BY <1>2 DEF NoCalls
    <3> QED
        BY <2>1, <3>1 DEF Shapes
  <2>3. ASSUME NEW m \in Methods PROVE MethodInv(m)
    <3>1. /\ next[m] = 1 /\ phase[m] = "idle" /\ router[m] = "empty"
          /\ ~registered[m] /\ selection[m] = Unclaimed
        BY <1>2 DEF NoCalls
    <3>2. Before(m) = {}
        BY <3>1 DEF Before
    <3> QED
        BY <2>1, <3>1, <3>2 DEF MethodInv, Claimed, Configured, Ended
  <2> QED
      BY <2>2, <2>3 DEF HandlerInv
<1>3. ASSUME NoPath PROVE PathInv
    BY <1>3 DEF NoPath, PathInv, Verdicts
<1> QED
    BY <1>1, <1>2, <1>3

LEMMA SetupInitially == SetupInit => SetupInv
BY NothingYet, SpawnerInitially, PathInitInv, RouteInitially, HandlerInitially
   DEF SetupInit, SetupInv

LEMMA SetupSteps ==
    [SetupNext]_setupVars =>
        /\ [SpawnerNext]_spawnerVars /\ [PathNext]_pathVars
        /\ [RouteNext]_routeVars /\ [Next]_vars
<1> SUFFICES ASSUME [SetupNext]_setupVars
             PROVE  /\ [SpawnerNext]_spawnerVars /\ [PathNext]_pathVars
                    /\ [RouteNext]_routeVars /\ [Next]_vars
    OBVIOUS
<1>1. CASE UNCHANGED setupVars
    BY <1>1 DEF setupVars
<1>2. CASE SetupNext
    BY <1>2 DEF SetupNext, Others
<1> QED
    BY <1>1, <1>2

\* The inductive invariant of the four, each over its own variables.
THEOREM SetupInvariant == SetupSpec => []SetupInv
<1>1. SetupInv /\ [SetupNext]_setupVars => SetupInv'
    BY SetupSteps, SpawnerSteps, PathStep, RouteSteps, HandlerSteps DEF SetupInv
<1> QED
    BY <1>1, SetupInitially, PTL DEF SetupSpec

\* What each of the four promises holds in the specification that runs them
\* beside each other: none depends on the others being left out.
THEOREM SetupKeepsItsPromises ==
    SetupSpec => /\ [](OkMeansInstalled /\ AnswersAreConsistent)
                 /\ []AcceptsWhatStaysInside
                 /\ []TableIsTheApplication
                 /\ [](AnsweredMeansConfigured /\ SameForEveryMethod /\ HeadAgreesWithGet)
                 /\ FirstClaimStands
<1>1. /\ SetupInv => OkMeansInstalled /\ AnswersAreConsistent
      /\ SetupInv => AcceptsWhatStaysInside
      /\ SetupInv => TableIsTheApplication
      /\ SetupInv => AnsweredMeansConfigured /\ SameForEveryMethod /\ HeadAgreesWithGet
    BY OkShows, AnswersShow, PathInvStays, RouteShows, ConfigurationShows, RefusalsShow, HeadShows
       DEF SetupInv
<1>2. SetupInv /\ [SetupNext]_setupVars
          => [\A m \in Methods : Shortcut(m) => selection'[m] = selection[m]]_vars
  <2>1. SetupInv /\ [SetupNext]_setupVars => HandlerInv /\ [Next]_vars
      BY SetupSteps DEF SetupInv
  <2> QED
      BY <2>1, NoTakeover
<1> QED
    BY <1>1, <1>2, SetupInvariant, PTL DEF SetupSpec, FirstClaimStands
=============================================================================
