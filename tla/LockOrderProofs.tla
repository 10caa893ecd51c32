-------------------------- MODULE LockOrderProofs --------------------------
(***************************************************************************)
(* Proofs about the mutexes and waits, for any threads and calls.          *)
(*                                                                         *)
(* The programs are nests of sections.  A nest is described by a height:   *)
(* how many times each mutex is held before each of its steps.  What is    *)
(* left of the call of a thread always has a height that begins with what  *)
(* the thread holds and ends with nothing.                                 *)
(***************************************************************************)
EXTENDS LockOrder, SequenceTheorems, TLAPS

Level == [Mutexes -> Nat]

Free == [m \in Mutexes |-> 0]

\* What a thread holds at a wait.
AtWait == [m \in Mutexes |-> IF m = "participant" THEN 1 ELSE 0]

Raised(l, m) == [l EXCEPT ![m] = @ + 1]

Steps == ({"lock", "unlock"} \X Mutexes) \cup ({"wait", "reader", "notify"} \X Topics)
             \cup {<<"check", "-">>}

\* A step takes what is held from l to k.  The plain mutex is not taken by
\* a thread that holds it.
Moves(step, l, k) ==
    /\ step[1] = "lock" => /\ k = Raised(l, step[2])
                           /\ step[2] = "participant" => l["participant"] = 0
    /\ step[1] = "unlock" => l = Raised(k, step[2])
    /\ step[1] \notin {"lock", "unlock"} => k = l
    /\ step[1] = "wait" => l = AtWait

IsHeight(p, h) ==
    /\ h \in [1..(Len(p) + 1) -> Level]
    /\ \A i \in 1..Len(p) : Moves(p[i], h[i], h[i + 1])

Nested(p, l, k) ==
    /\ p \in Seq(Steps)
    /\ \E h : IsHeight(p, h) /\ h[1] = l /\ h[Len(p) + 1] = k

-----------------------------------------------------------------------------
(* Heights of the parts of a program.                                      *)

\* The empty program changes nothing.
LEMMA NestedNil == ASSUME NEW l \in Level PROVE Nested(<<>>, l, l)
<1> DEFINE h == [i \in 1..1 |-> l]
<1>1. IsHeight(<<>>, h) /\ h[1] = l
  BY DEF IsHeight
<1> QED
  BY <1>1 DEF Nested

\* A program of one step.
LEMMA NestedOne ==
    ASSUME NEW l \in Level, NEW k \in Level, NEW s \in Steps, Moves(s, l, k)
    PROVE  Nested(<<s>>, l, k)
<1> DEFINE h == [i \in 1..2 |-> IF i = 1 THEN l ELSE k]
<1>1. IsHeight(<<s>>, h) /\ h[1] = l /\ h[2] = k
  BY DEF IsHeight
<1>2. <<s>> \in Seq(Steps) /\ Len(<<s>>) + 1 = 2
  OBVIOUS
<1> QED
  BY <1>1, <1>2 DEF Nested

\* One program after the other.
LEMMA NestedConcat ==
    ASSUME NEW p, NEW q, NEW l, NEW k, NEW j, Nested(p, l, k), Nested(q, k, j)
    PROVE  Nested(p \o q, l, j)
<1>1. p \in Seq(Steps) /\ q \in Seq(Steps)
  BY DEF Nested
<1>2. PICK f : IsHeight(p, f) /\ f[1] = l /\ f[Len(p) + 1] = k
  BY DEF Nested
<1>3. PICK g : IsHeight(q, g) /\ g[1] = k /\ g[Len(q) + 1] = j
  BY DEF Nested
<1> DEFINE n == Len(p)
           h == [i \in 1..(Len(p \o q) + 1) |-> IF i <= n THEN f[i] ELSE g[i - n]]
<1>4. /\ n \in Nat /\ Len(q) \in Nat /\ Len(p \o q) = n + Len(q)
      /\ p \o q \in Seq(Steps)
      /\ \A i \in 1..n : (p \o q)[i] = p[i]
      /\ \A i \in 1..Len(q) : (p \o q)[n + i] = q[i]
  BY <1>1
<1>5. h \in [1..(Len(p \o q) + 1) -> Level]
  BY <1>2, <1>3, <1>4 DEF IsHeight
<1>6. ASSUME NEW i \in 1..Len(p \o q)
      PROVE  Moves((p \o q)[i], h[i], h[i + 1])
  <2>1. CASE i < n
    BY <1>2, <1>4, <2>1 DEF IsHeight
  <2>2. CASE i = n
    <3>1. h[i] = f[n] /\ h[i + 1] = f[n + 1]
      BY <1>2, <1>3, <1>4, <2>2
    <3> QED
      BY <1>2, <1>4, <2>2, <3>1 DEF IsHeight
  <2>3. CASE i > n
    <3>1. PICK e \in 1..Len(q) : i = n + e
      <4>1. i - n \in 1..Len(q) /\ i = n + (i - n)
        BY <1>4, <2>3
      <4> QED
        BY <4>1
    <3>2. h[i] = g[e] /\ h[i + 1] = g[e + 1]
      <4>1. /\ i - n = e /\ (i + 1) - n = e + 1 /\ ~(i <= n) /\ ~(i + 1 <= n)
            /\ i \in 1..(Len(p \o q) + 1) /\ i + 1 \in 1..(Len(p \o q) + 1)
        BY <1>4, <3>1, <2>3
      <4> QED
        BY <4>1
    <3>3. (p \o q)[i] = q[e]
      BY <1>4, <3>1
    <3>4. Moves(q[e], g[e], g[e + 1])
      BY <1>3 DEF IsHeight
    <3> HIDE DEF h
    <3> QED
      BY <3>2, <3>3, <3>4
  <2> QED
    BY <1>4, <2>1, <2>2, <2>3
<1>7. h[1] = l /\ h[Len(p \o q) + 1] = j
  BY <1>2, <1>3, <1>4
<1> HIDE DEF h
<1> QED
  BY <1>4, <1>5, <1>6, <1>7 DEF Nested, IsHeight

\* The first step, and what is left after it.
LEMMA NestedTail ==
    ASSUME NEW p, NEW l, NEW j, Nested(p, l, j), p # <<>>
    PROVE  /\ p \in Seq(Steps) /\ Head(p) \in Steps
           /\ l \in Level
           /\ \E k \in Level : Moves(Head(p), l, k) /\ Nested(Tail(p), k, j)
<1>1. p \in Seq(Steps)
  BY DEF Nested
<1>2. PICK f : IsHeight(p, f) /\ f[1] = l /\ f[Len(p) + 1] = j
  BY DEF Nested
<1> DEFINE n == Len(Tail(p))
           h == [i \in 1..(n + 1) |-> f[i + 1]]
<1>3. /\ n \in Nat /\ Len(p) = n + 1 /\ Tail(p) \in Seq(Steps)
      /\ \A i \in 1..n : Tail(p)[i] = p[i + 1]
      /\ Head(p) = p[1] /\ p[1] \in Steps
  BY <1>1
<1>4. f \in [1..(n + 2) -> Level] /\ \A i \in 1..(n + 1) : Moves(p[i], f[i], f[i + 1])
  BY <1>2, <1>3 DEF IsHeight
<1>5. h \in [1..(n + 1) -> Level]
  BY <1>3, <1>4
<1>6. \A i \in 1..n : Moves(Tail(p)[i], h[i], h[i + 1])
  BY <1>3, <1>4
<1>7. h[1] = f[2] /\ h[n + 1] = j
  BY <1>2, <1>3
<1>8. f[2] \in Level /\ l \in Level /\ Moves(Head(p), l, f[2])
  BY <1>2, <1>3, <1>4
<1> HIDE DEF h, n
<1>9. Nested(Tail(p), f[2], j)
  BY <1>3, <1>5, <1>6, <1>7 DEF Nested, IsHeight, n
<1> QED
  BY <1>1, <1>3, <1>8, <1>9

\* The guards that still hold a mutex release it as often as it is held.
LEMMA NestedRelease ==
    ASSUME NEW l \in Level, NEW m \in Mutexes
    PROVE  Nested([i \in 1..l[m] |-> <<"unlock", m>>], l, [l EXCEPT ![m] = 0])
<1> DEFINE n == l[m]
           p == [i \in 1..n |-> <<"unlock", m>>]
           h == [i \in 1..(n + 1) |-> [l EXCEPT ![m] = n + 1 - i]]
<1>1. n \in Nat
  BY DEF Level
<1>2. p \in Seq(Steps) /\ Len(p) = n
  BY <1>1 DEF Steps
<1>3. h \in [1..(n + 1) -> Level]
  BY <1>1 DEF Level
<1>4. ASSUME NEW i \in 1..n
      PROVE  Moves(p[i], h[i], h[i + 1])
  <2>1. h[i] = Raised(h[i + 1], m)
    <3>1. h[i] = [l EXCEPT ![m] = n + 1 - i] /\ h[i + 1] = [l EXCEPT ![m] = n - i]
      <4>1. i \in 1..(n + 1) /\ i + 1 \in 1..(n + 1) /\ n + 1 - (i + 1) = n - i
        BY <1>1
      <4> HIDE DEF n
      <4> QED
        BY <4>1
    <3>2. \A e \in Nat : Raised([l EXCEPT ![m] = e], m) = [l EXCEPT ![m] = e + 1]
      BY DEF Level, Raised
    <3>3. n - i \in Nat /\ (n - i) + 1 = n + 1 - i
      BY <1>1
    <3> HIDE DEF h, n
    <3> QED
      BY <3>1, <3>2, <3>3
  <2>2. p[i] = <<"unlock", m>> /\ p[i][1] = "unlock" /\ p[i][2] = m
    OBVIOUS
  <2> HIDE DEF h, p
  <2> QED
    BY <2>1, <2>2 DEF Moves
<1>5. h[1] = l /\ h[n + 1] = [l EXCEPT ![m] = 0]
  <2>1. l = [l EXCEPT ![m] = n]
    BY DEF Level
  <2>2. h[1] = [l EXCEPT ![m] = n] /\ h[n + 1] = [l EXCEPT ![m] = 0]
    <3>1. 1 \in 1..(n + 1) /\ n + 1 \in 1..(n + 1) /\ n + 1 - 1 = n /\ n + 1 - (n + 1) = 0
      BY <1>1
    <3> HIDE DEF n
    <3> QED
      BY <3>1
  <2> QED
    BY <2>1, <2>2
<1> HIDE DEF h, p
<1>6. IsHeight(p, h)
  BY <1>2, <1>3, <1>4 DEF IsHeight
<1>7. Nested(p, l, [l EXCEPT ![m] = 0])
  BY <1>2, <1>5, <1>6 DEF Nested
<1> QED
  BY <1>7 DEF p

-----------------------------------------------------------------------------
(* The programs of the calls.                                              *)

\* The steps of a call that makes no reader.
Quiet == ({"lock", "unlock"} \X Mutexes) \cup ({"wait"} \X Topics) \cup {<<"check", "-">>}

\* A program that leaves the mutexes as they were, if they are held as in l.
Good(p, l) == p \in Seq(Quiet) /\ Nested(p, l, l)

Anywhere(p) == \A l \in Level : Good(p, l)

\* A program that may take the plain mutex: good where it is not held.
Outside(p) == \A l \in Level : l["participant"] = 0 => Good(p, l)

\* What is held is counted: nothing, or the plain mutex at a wait.
LEMMA LevelFacts ==
    /\ Free \in Level /\ AtWait \in Level
    /\ AtWait = Raised(Free, "participant")
    /\ \A l \in Level, m \in Mutexes : Raised(l, m) \in Level
    /\ Quiet \subseteq Steps
<1>1. Free \in Level /\ AtWait \in Level
  BY DEF Free, AtWait, Level
<1>2. AtWait = Raised(Free, "participant")
  BY DEF Free, AtWait, Raised, Mutexes
<1>3. \A l \in Level, m \in Mutexes : Raised(l, m) \in Level
  BY DEF Level, Raised
<1>4. Quiet \subseteq Steps
  BY DEF Quiet, Steps
<1> QED
  BY <1>1, <1>2, <1>3, <1>4

\* A check changes nothing.
LEMMA CheckAnywhere == Anywhere(Check)
<1> SUFFICES ASSUME NEW l \in Level PROVE Good(Check, l)
  BY DEF Anywhere
<1>1. <<"check", "-">> \in Steps /\ Moves(<<"check", "-">>, l, l)
  BY DEF Steps, Moves
<1>2. Nested(Check, l, l)
  BY <1>1, NestedOne DEF Check
<1>3. Check \in Seq(Quiet)
  BY DEF Check, Quiet
<1> QED
  BY <1>2, <1>3 DEF Good

\* One good program after the other is good.
LEMMA GoodConcat ==
    ASSUME NEW p, NEW q, NEW l, Good(p, l), Good(q, l)
    PROVE  Good(p \o q, l)
<1>1. p \o q \in Seq(Quiet)
  BY DEF Good
<1>2. Nested(p \o q, l, l)
  BY NestedConcat DEF Good
<1> QED
  BY <1>1, <1>2 DEF Good

\* The same of programs that may be anywhere.
LEMMA AnywhereConcat == \A p, q : Anywhere(p) /\ Anywhere(q) => Anywhere(p \o q)
BY GoodConcat DEF Anywhere

\* What is done with a mutex held one more time, and given back.
LEMMA NestedHolding ==
    ASSUME NEW p, NEW l \in Level, NEW m \in Mutexes,
           m = "participant" => l["participant"] = 0,
           Nested(p, Raised(l, m), Raised(l, m))
    PROVE  Nested(Holding(m, p), l, l)
<1>1. Raised(l, m) \in Level
  BY LevelFacts
<1>2. /\ <<"lock", m>> \in Steps /\ Moves(<<"lock", m>>, l, Raised(l, m))
      /\ <<"unlock", m>> \in Steps /\ Moves(<<"unlock", m>>, Raised(l, m), l)
  BY DEF Steps, Moves
<1>3. /\ Nested(<<<<"lock", m>>>>, l, Raised(l, m))
      /\ Nested(<<<<"unlock", m>>>>, Raised(l, m), l)
  BY <1>1, <1>2, NestedOne
<1>4. Nested(<<<<"lock", m>>>> \o p, l, Raised(l, m))
  BY <1>3, NestedConcat
<1> QED
  BY <1>3, <1>4, NestedConcat DEF Holding

\* The same of good programs.
LEMMA GoodHolding ==
    ASSUME NEW p, NEW l \in Level, NEW m \in Mutexes, Good(p, Raised(l, m)),
           m = "participant" => l["participant"] = 0
    PROVE  Good(Holding(m, p), l)
<1>1. Nested(Holding(m, p), l, l)
  BY NestedHolding DEF Good
<1>2. <<<<"lock", m>>>> \in Seq(Quiet) /\ <<<<"unlock", m>>>> \in Seq(Quiet)
  BY DEF Quiet
<1>3. Holding(m, p) \in Seq(Quiet)
  BY <1>2 DEF Good, Holding
<1> QED
  BY <1>1, <1>3 DEF Good

\* Programs outside the plain mutex, one after the other.
LEMMA OutsideConcat == \A p, q : Outside(p) /\ Outside(q) => Outside(p \o q)
BY GoodConcat DEF Outside

\* A section of the recursive mutex may be where its body may be, and one of
\* the plain mutex outside it.
LEMMA SectionHolding ==
    /\ \A p : Anywhere(p) => Anywhere(Holding("handler", p))
    /\ \A p : Outside(p) => Outside(Holding("handler", p))
    /\ \A p : Anywhere(p) => Outside(Holding("participant", p))
<1>1. "handler" \in Mutexes /\ "participant" \in Mutexes /\ "handler" # "participant"
  BY DEF Mutexes
<1>2. \A l \in Level : Raised(l, "handler")["participant"] = l["participant"]
  BY <1>1 DEF Level, Raised
<1>3. \A p : Anywhere(p) => Anywhere(Holding("handler", p))
  BY <1>1, GoodHolding, LevelFacts DEF Anywhere
<1>4. \A p : Outside(p) => Outside(Holding("handler", p))
  BY <1>1, <1>2, GoodHolding, LevelFacts DEF Outside
<1>5. \A p : Anywhere(p) => Outside(Holding("participant", p))
  BY <1>1, GoodHolding, LevelFacts DEF Anywhere, Outside
<1> QED
  BY <1>3, <1>4, <1>5

\* The empty program, as the body of a section.
LEMMA NilAnywhere == Anywhere(<<>>)
BY NestedNil DEF Anywhere, Good

\* A wait is for a thread that holds the plain mutex once, and nothing else.
LEMMA WaitGood == \A topic \in Topics : Good(WaitFor(topic), AtWait)
<1> SUFFICES ASSUME NEW topic \in Topics PROVE Good(WaitFor(topic), AtWait)
  OBVIOUS
<1>1. <<"wait", topic>> \in Steps /\ Moves(<<"wait", topic>>, AtWait, AtWait)
  BY DEF Steps, Moves
<1>2. Nested(WaitFor(topic), AtWait, AtWait)
  BY <1>1, NestedOne, LevelFacts DEF WaitFor
<1>3. WaitFor(topic) \in Seq(Quiet)
  BY DEF WaitFor, Quiet
<1> QED
  BY <1>2, <1>3 DEF Good

\* The functions of Handler, anywhere.
LEMMA HandlerAnywhere == Anywhere(InHandler)
BY NilAnywhere, SectionHolding DEF InHandler

\* What may be anywhere may be outside the plain mutex.
LEMMA AnywhereOutside ==
    /\ \A p : Anywhere(p) => Outside(p)
    /\ Outside(Check) /\ Outside(InHandler) /\ Outside(<<>>)
<1>1. \A p : Anywhere(p) => Outside(p)
  BY DEF Anywhere, Outside
<1> QED
  BY <1>1, CheckAnywhere, HandlerAnywhere, NilAnywhere

\* Sections that wait for no reader.
LEMMA SectionsOutside ==
    /\ Outside(PublishRpc)
    /\ Outside(Revoke)
    /\ Outside(SendServiceRequest)
    /\ Outside(SendServiceReply)
<1>1. Anywhere(Check \o InHandler)
  BY CheckAnywhere, HandlerAnywhere, AnywhereConcat
<1>2. Outside(PublishRpc)
  BY <1>1, SectionHolding DEF PublishRpc
<1>3. Outside(Revoke)
  BY NilAnywhere, SectionHolding DEF Revoke
<1>4. Outside(SendServiceRequest)
  BY <1>1, <1>2, AnywhereOutside, OutsideConcat DEF SendServiceRequest
<1>5. Outside(Revoke \o Check)
  BY <1>3, AnywhereOutside, OutsideConcat
<1>6. Outside((Revoke \o Check) \o PublishRpc)
  BY <1>2, <1>5, OutsideConcat
<1>7. SendServiceReply = (Revoke \o Check) \o PublishRpc
  BY DEF SendServiceReply, Revoke
<1> QED
  BY <1>2, <1>3, <1>4, <1>6, <1>7

\* The calls about actions that wait for no reader.
LEMMA ActionsOutside ==
    /\ Outside(SendActionGoal)
    /\ Outside(CancelActionGoal)
    /\ Outside(ResultRequestSent)
    /\ \A p \in ResultRequestFailed : Outside(p)
    /\ Outside(SendActionCancelGoalReply)
    /\ Outside(SendActionGetResultReply)
    /\ Outside(SendActionResult)
<1> DEFINE C == Check
           H == InHandler
           Q == SendServiceRequest
           A == SendServiceReply
<1>1. Outside(C) /\ Outside(H) /\ Outside(Q) /\ Outside(A)
  BY AnywhereOutside, SectionsOutside
<1>2. Outside(SendActionGoal)
  <2>1. Outside(Q \o C)
    BY <1>1, OutsideConcat
  <2>2. Outside((Q \o C) \o H)
    BY <1>1, <2>1, OutsideConcat
  <2>3. Outside(((Q \o C) \o H) \o C)
    BY <1>1, <2>2, OutsideConcat
  <2>4. Outside((((Q \o C) \o H) \o C) \o H)
    BY <1>1, <2>3, OutsideConcat
  <2> QED
    BY <2>4 DEF SendActionGoal
<1>3. Outside(CancelActionGoal)
  <2>1. Outside(H \o C)
    BY <1>1, OutsideConcat
  <2>2. Outside((H \o C) \o H)
    BY <1>1, <2>1, OutsideConcat
  <2>3. Outside(((H \o C) \o H) \o Q)
    BY <1>1, <2>2, OutsideConcat
  <2> QED
    BY <2>3 DEF CancelActionGoal
<1>4. /\ Outside(Holding("participant", H))
      /\ Outside(Holding("participant", <<>>))
  BY HandlerAnywhere, NilAnywhere, SectionHolding
<1>5. Outside(ResultRequestSent)
  <2>1. Outside(H \o H)
    BY <1>1, OutsideConcat
  <2>2. Outside((H \o H) \o Holding("participant", H))
    BY <1>4, <2>1, OutsideConcat
  <2>3. Outside(((H \o H) \o Holding("participant", H)) \o H)
    BY <1>1, <2>2, OutsideConcat
  <2> QED
    BY <2>3 DEF ResultRequestSent
<1>6. \A p \in ResultRequestFailed : Outside(p)
  <2>1. Outside(H \o <<>>)
    BY <1>1, AnywhereOutside, OutsideConcat
  <2>2. Outside(H \o (H \o Holding("participant", <<>>)))
    BY <1>1, <1>4, OutsideConcat
  <2>3. Outside(H \o (H \o Holding("participant", H)))
    BY <1>1, <1>4, OutsideConcat
  <2> QED
    BY <2>1, <2>2, <2>3 DEF ResultRequestFailed
<1>7. Outside(SendActionCancelGoalReply)
  BY <1>1, OutsideConcat DEF SendActionCancelGoalReply
<1>8. Outside(SendActionGetResultReply)
  <2>1. Outside(A \o C)
    BY <1>1, OutsideConcat
  <2> QED
    BY <1>1, <2>1, OutsideConcat DEF SendActionGetResultReply
<1>9. Outside(SendActionResult)
  <2>1. Outside(C \o SendActionGetResultReply)
    BY <1>1, <1>8, OutsideConcat
  <2>2. Outside(HandleActionResult)
    BY <2>1, SectionHolding DEF HandleActionResult
  <2>3. Outside(H \o C)
    BY <1>1, OutsideConcat
  <2> QED
    BY <2>2, <2>3, OutsideConcat DEF SendActionResult
<1> QED
  BY <1>2, <1>3, <1>5, <1>6, <1>7, <1>8, <1>9

\* The deliveries.
LEMMA DeliveriesOutside ==
    /\ Outside(AddData)
    /\ \A p \in AddGoalReply : Outside(p)
    /\ Outside(AddGoalRequest)
    /\ Outside(AddResultRequest)
<1> DEFINE C == Check
           H == InHandler
<1>1. Outside(C) /\ Outside(H) /\ Outside(SendServiceReply)
  BY AnywhereOutside, SectionsOutside
<1>2. Outside(H \o C)
  BY <1>1, OutsideConcat
<1>3. Outside(AddData)
  <2>1. Outside(C \o H)
    BY <1>1, OutsideConcat
  <2> QED
    BY <2>1, SectionHolding DEF AddData
<1>4. \A p \in AddGoalReply : Outside(p)
  <2>1. \A q \in ResultRequestFailed : Outside(q \o CancelActionGoal)
    BY ActionsOutside, OutsideConcat
  <2>2. \A p \in {ResultRequestSent} \cup {q \o CancelActionGoal : q \in ResultRequestFailed} :
            Outside((H \o C) \o p)
    BY <1>2, <2>1, ActionsOutside, OutsideConcat
  <2> QED
    BY <2>2, SectionHolding DEF AddGoalReply
<1>5. Outside(AddGoalRequest)
  BY <1>1, <1>2, OutsideConcat, SectionHolding DEF AddGoalRequest
<1>6. Outside(AddResultRequest)
  <2>1. Outside((H \o C) \o H)
    BY <1>1, <1>2, OutsideConcat
  <2>2. Outside(((H \o C) \o H) \o C)
    BY <1>1, <2>1, OutsideConcat
  <2>3. Outside((((H \o C) \o H) \o C) \o SendActionGetResultReply)
    BY <2>2, ActionsOutside, OutsideConcat
  <2> QED
    BY <2>3, SectionHolding DEF AddResultRequest
<1> QED
  BY <1>3, <1>4, <1>5, <1>6

\* The calls that wait for readers do so in one section of the plain mutex.
LEMMA WaitsGood ==
    /\ \A topic \in Topics : Good(Publish(topic), Free)
    /\ \A topic \in Topics : Good(PublishOfGoal(topic), Free)
    /\ Good(AnnounceService, Free)
    /\ Good(AnnounceAction, Free)
<1> DEFINE C == Check
           H == InHandler
           W(topic) == WaitFor(topic)
           Inside(p) == Good(p, AtWait)
<1>1. Inside(C) /\ Inside(H) /\ \A topic \in Topics : Inside(W(topic))
  BY CheckAnywhere, HandlerAnywhere, WaitGood, LevelFacts DEF Anywhere
<1>2. \A p, q : Inside(p) /\ Inside(q) => Inside(p \o q)
  BY GoodConcat
<1>3. \A p : Inside(p) => Good(Holding("participant", p), Free)
  BY GoodHolding, LevelFacts DEF Mutexes, Free
<1> HIDE DEF Inside
<1>4. Inside((C \o H) \o C)
  BY <1>1, <1>2
<1>5. \A topic \in Topics : Good(Publish(topic), Free)
  <2> SUFFICES ASSUME NEW topic \in Topics PROVE Good(Publish(topic), Free)
    OBVIOUS
  <2>1. Inside(((C \o H) \o C) \o W(topic))
    BY <1>1, <1>2, <1>4
  <2>2. Inside((((C \o H) \o C) \o W(topic)) \o H)
    BY <1>1, <1>2, <2>1
  <2> QED
    BY <1>3, <2>2 DEF Publish
<1>6. \A topic \in Topics : Good(PublishOfGoal(topic), Free)
  <2> SUFFICES ASSUME NEW topic \in Topics PROVE Good(PublishOfGoal(topic), Free)
    OBVIOUS
  <2>1. Good(C, Free) /\ Good(H, Free)
    BY CheckAnywhere, HandlerAnywhere, LevelFacts DEF Anywhere
  <2>2. Good((H \o C) \o H, Free)
    BY <2>1, GoodConcat
  <2>3. Good(((H \o C) \o H) \o C, Free)
    BY <2>1, <2>2, GoodConcat
  <2> QED
    BY <1>5, <2>3, GoodConcat DEF PublishOfGoal
<1>7. Inside((((C \o H) \o C) \o H) \o C)
  <2>1. Inside(((C \o H) \o C) \o H)
    BY <1>1, <1>2, <1>4
  <2> QED
    BY <1>1, <1>2, <2>1
<1>8. "request" \in Topics /\ "goal" \in Topics /\ "cancel" \in Topics
      /\ "result" \in Topics /\ "feedback" \in Topics /\ "status" \in Topics
  BY DEF Topics
<1>9. Good(AnnounceService, Free)
  <2>1. Inside(((((C \o H) \o C) \o H) \o C) \o W("request"))
    BY <1>1, <1>2, <1>7, <1>8
  <2> QED
    BY <1>3, <2>1 DEF AnnounceService
<1>10. Good(AnnounceAction, Free)
  <2> DEFINE service(topic) == ((((C \o H) \o C) \o H) \o C) \o W(topic)
             publisher(topic) == ((C \o H) \o C) \o W(topic)
  <2>1. \A topic \in Topics : Inside(service(topic)) /\ Inside(publisher(topic))
    BY <1>1, <1>2, <1>4, <1>7
  <2> HIDE DEF service, publisher
  <2>2. Inside(service("goal") \o service("cancel"))
    BY <1>2, <1>8, <2>1
  <2>3. Inside((service("goal") \o service("cancel")) \o service("result"))
    BY <1>2, <1>8, <2>1, <2>2
  <2>4. Inside(((service("goal") \o service("cancel")) \o service("result"))
                   \o publisher("feedback"))
    BY <1>2, <1>8, <2>1, <2>3
  <2>5. Inside((((service("goal") \o service("cancel")) \o service("result"))
                    \o publisher("feedback")) \o publisher("status"))
    BY <1>2, <1>8, <2>1, <2>4
  <2> USE DEF service, publisher
  <2> QED
    BY <1>3, <2>5 DEF AnnounceAction
<1> QED
  BY <1>5, <1>6, <1>9, <1>10

-----------------------------------------------------------------------------
(* The program that makes a reader.                                        *)

\* A reader is added at the end of a section; what is left then is to release
\* the mutex and to notify.
Notifying(p) ==
    /\ Len(p) \in {1, 2}
    /\ p[Len(p)][1] = "notify"
    /\ Len(p) = 2 => p[1][1] = "unlock"

ReadersNotified(p) ==
    \A i \in 1..Len(p) :
        p[i][1] = "reader" =>
            Len(p) = i + 2 /\ p[i + 1][1] = "unlock" /\ p[i + 2][1] = "notify"

\* Most programs add no reader.
LEMMA QuietAddsNone ==
    ASSUME NEW p \in Seq(Quiet) PROVE ReadersNotified(p)
<1>1. \A s \in Quiet : s[1] # "reader"
  BY DEF Quiet
<1>2. \A i \in 1..Len(p) : p[i] \in Quiet
  OBVIOUS
<1> QED
  BY <1>1, <1>2 DEF ReadersNotified

\* create_reader adds its reader with the mutex held, and notifies after it.
LEMMA CreateReaderLemma ==
    ASSUME NEW topic \in Topics, NEW p \in CreateReader(topic)
    PROVE  Nested(p, Free, Free) /\ ReadersNotified(p)
<1>1. PICK q \in {Check, (Check \o InHandler) \o Check} :
            p = Holding("participant", q \o <<<<"reader", topic>>>>) \o <<<<"notify", topic>>>>
  BY DEF CreateReader
<1>2. Anywhere(q)
  BY CheckAnywhere, HandlerAnywhere, AnywhereConcat
<1>3. Good(q, AtWait)
  BY <1>2, LevelFacts DEF Anywhere
<1>4. /\ <<"reader", topic>> \in Steps /\ Moves(<<"reader", topic>>, AtWait, AtWait)
      /\ <<"notify", topic>> \in Steps /\ Moves(<<"notify", topic>>, Free, Free)
  BY DEF Steps, Moves
<1>5. /\ Nested(<<<<"reader", topic>>>>, AtWait, AtWait)
      /\ Nested(<<<<"notify", topic>>>>, Free, Free)
  BY <1>4, NestedOne, LevelFacts
<1>6. Nested(q \o <<<<"reader", topic>>>>, AtWait, AtWait)
  BY <1>3, <1>5, NestedConcat DEF Good
<1>7. Nested(Holding("participant", q \o <<<<"reader", topic>>>>), Free, Free)
  BY <1>6, NestedHolding, LevelFacts DEF Mutexes, Free
<1>8. Nested(p, Free, Free)
  BY <1>1, <1>5, <1>7, NestedConcat
<1>9. ReadersNotified(p)
  <2>1. q \in Seq(Quiet) /\ Len(q) \in Nat
    BY <1>3 DEF Good
  <2> DEFINE n == Len(q)
             a == <<<<"lock", "participant">>>>
             b == q \o <<<<"reader", topic>>>>
             c == <<<<"unlock", "participant">>>>
             d == <<<<"notify", topic>>>>
  <2>2. p = ((a \o b) \o c) \o d
    BY <1>1 DEF Holding
  <2>3. b \in Seq(Steps) /\ Len(b) = n + 1 /\ b[n + 1] = <<"reader", topic>>
        /\ \A i \in 1..n : b[i] \in Quiet
    BY <2>1, <1>4, LevelFacts
  <2>4. a \in Seq(Steps) /\ c \in Seq(Steps) /\ d \in Seq(Steps)
    BY <1>4 DEF Steps, Mutexes
  <2>5. /\ Len(p) = n + 4
        /\ p[1] = <<"lock", "participant">>
        /\ \A i \in 1..(n + 1) : p[i + 1] = b[i]
        /\ p[n + 3] = <<"unlock", "participant">>
        /\ p[n + 4] = <<"notify", topic>>
    <3> HIDE DEF b
    <3>1. a \o b \in Seq(Steps) /\ Len(a \o b) = n + 2 /\ (a \o b)[1] = <<"lock", "participant">>
          /\ \A i \in 1..(n + 1) : (a \o b)[i + 1] = b[i]
      BY <2>1, <2>3, <2>4
    <3> DEFINE e == a \o b
    <3> HIDE DEF e
    <3>2. e \o c \in Seq(Steps) /\ Len(e \o c) = n + 3
          /\ (e \o c)[n + 3] = <<"unlock", "participant">>
          /\ \A i \in 1..(n + 2) : (e \o c)[i] = e[i]
      BY <2>1, <2>4, <3>1 DEF e
    <3> DEFINE f == e \o c
    <3> HIDE DEF f
    <3>3. Len(f \o d) = n + 4 /\ (f \o d)[n + 4] = <<"notify", topic>>
          /\ \A i \in 1..(n + 3) : (f \o d)[i] = f[i]
      BY <2>1, <2>4, <3>2 DEF f
    <3>4. p = f \o d
      BY <2>2 DEF e, f
    <3>5. n \in Nat
      BY <2>1
    <3> HIDE DEF n, d
    <3>6. \A i \in 1..(n + 2) : p[i] = e[i]
      BY <3>2, <3>3, <3>4, <3>5 DEF f
    <3>7. p[1] = <<"lock", "participant">> /\ \A i \in 1..(n + 1) : p[i + 1] = b[i]
      <4>1. 1 \in 1..(n + 2) /\ \A i \in 1..(n + 1) : i + 1 \in 1..(n + 2)
        BY <3>5
      <4> QED
        BY <3>1, <3>6, <4>1 DEF e
    <3>8. p[n + 3] = <<"unlock", "participant">>
      BY <3>2, <3>3, <3>4, <3>5 DEF f
    <3> QED
      BY <3>3, <3>4, <3>7, <3>8
  <2> HIDE DEF b, n
  <2>6. \A s \in Quiet : s[1] # "reader"
    BY DEF Quiet
  <2>7. ASSUME NEW i \in 1..Len(p), p[i][1] = "reader"
        PROVE  i = n + 2
    <3>1. n \in Nat
      BY <2>1 DEF n
    <3>2. i # 1 /\ i # n + 3 /\ i # n + 4
      BY <2>5, <2>7
    <3>3. ASSUME i \in 2..(n + 1) PROVE FALSE
      <4>1. i - 1 \in 1..n /\ (i - 1) + 1 = i /\ i - 1 \in 1..(n + 1)
        BY <3>1, <3>3
      <4> QED
        BY <2>3, <2>5, <2>6, <2>7, <4>1
    <3> QED
      BY <2>5, <3>1, <3>2, <3>3
  <2>8. n \in Nat /\ (n + 2) + 1 = n + 3 /\ (n + 2) + 2 = n + 4
    BY <2>1 DEF n
  <2> QED
    BY <2>5, <2>7, <2>8 DEF ReadersNotified
<1> QED
  BY <1>8, <1>9

\* Whatever a thread calls begins and ends with nothing held, and notifies of
\* the readers it adds.
LEMMA ProgramsLemma ==
    ASSUME NEW name \in CallNames, NEW p \in Programs(name)
    PROVE  Nested(p, Free, Free) /\ ReadersNotified(p)
<1>1. CASE name = "create_reader"
  BY <1>1, CreateReaderLemma, ThreadsAssumption DEF Programs
<1>2. CASE name # "create_reader"
  <2>1. \A q : Outside(q) => Good(q, Free)
    BY LevelFacts DEF Outside, Free, Mutexes
  <2>2. "topic" \in Topics /\ "feedback" \in Topics /\ "status" \in Topics
    BY DEF Topics
  <2>3. CASE name \in {"publish", "announce_service", "announce_action",
                       "send_action_feedback", "update_action_status"}
    <3>1. Good(p, Free)
      BY <2>2, <2>3, WaitsGood DEF Programs
    <3> QED
      BY <3>1, QuietAddsNone DEF Good
  <2>4. CASE name \in {"send_service_request", "send_service_reply", "revoke"}
    <3>1. Good(p, Free)
      BY <2>1, <2>4, SectionsOutside DEF Programs
    <3> QED
      BY <3>1, QuietAddsNone DEF Good
  <2>5. CASE name \in {"send_action_goal", "cancel_action_goal",
                       "send_action_cancel_goal_reply", "send_action_result"}
    <3>1. Good(p, Free)
      BY <2>1, <2>5, ActionsOutside DEF Programs
    <3> QED
      BY <3>1, QuietAddsNone DEF Good
  <2>6. CASE name \in {"add_data", "add_goal_reply", "add_goal_request", "add_result_request"}
    <3>1. Good(p, Free)
      BY <2>1, <2>6, DeliveriesOutside DEF Programs
    <3> QED
      BY <3>1, QuietAddsNone DEF Good
  <2> QED
    BY <1>2, <2>3, <2>4, <2>5, <2>6 DEF CallNames
<1> QED
  BY <1>1, <1>2

-----------------------------------------------------------------------------
(* The invariant.                                                          *)

Held(t) == [m \in Mutexes |-> IF owner[m] = t THEN depth[m] ELSE 0]

\* What the rest of a call starts from: a thread that sleeps takes the plain
\* mutex again before it goes on.
Base(t) == IF sleep[t] = "awake" THEN Held(t) ELSE AtWait

TypeInv ==
    /\ todo \in [Threads -> Seq(Steps)]
    /\ calls \in [Threads -> 0..MaxCalls]
    /\ owner \in [Mutexes -> Threads \cup {"nobody"}]
    /\ depth \in [Mutexes -> Nat]
    /\ \A m \in Mutexes : depth[m] = 0 <=> owner[m] = "nobody"
    /\ readers \subseteq Topics
    /\ sleep \in [Threads -> {"awake", "asleep", "notified"}]

ThreadInv(t) ==
    /\ Nested(todo[t], Base(t), Free)
    /\ ReadersNotified(todo[t])
    /\ sleep[t] # "awake" => Held(t) = Free /\ Busy(t) /\ Head(todo[t])[1] = "wait"

WakeInv ==
    \A t \in Threads : sleep[t] = "asleep" /\ Argument(t) \in readers =>
        \E u \in Threads : Notifying(todo[u])

IInv == TypeInv /\ (\A t \in Threads : ThreadInv(t)) /\ WakeInv

\* The invariant gives the two invariants of the runs.
LEMMA InvariantImplies == IInv => TypeOK /\ NoLostNotification
<1> SUFFICES ASSUME IInv PROVE TypeOK /\ NoLostNotification
  OBVIOUS
<1>1. TypeOK
  <2>1. \A t \in Threads : \A i \in 1..Len(todo[t]) : todo[t][i] \in Steps
    BY DEF IInv, TypeInv
  <2> QED
    BY <2>1 DEF IInv, TypeInv, TypeOK, Steps
<1>2. NoLostNotification
  <2> SUFFICES ASSUME NEW t \in Threads, sleep[t] = "asleep", Argument(t) \in readers
               PROVE  \E u \in Threads : \E i \in 1..Len(todo[u]) : todo[u][i][1] = "notify"
    BY DEF NoLostNotification
  <2>1. PICK u \in Threads : Notifying(todo[u])
    BY DEF IInv, WakeInv
  <2> DEFINE n == Len(todo[u])
  <2>2. n \in {1, 2} /\ todo[u][n][1] = "notify"
    BY <2>1 DEF Notifying
  <2> HIDE DEF n
  <2>3. n \in 1..n
    BY <2>2
  <2> USE DEF n
  <2> QED
    BY <2>2, <2>3
<1> QED
  BY <1>1, <1>2

\* At first no thread runs and nothing is held.
LEMMA InitInvariant == Init => IInv
<1> SUFFICES ASSUME Init PROVE IInv
  OBVIOUS
<1>1. TypeInv
  BY ThreadsAssumption DEF Init, TypeInv
<1>2. ASSUME NEW t \in Threads PROVE ThreadInv(t)
  <2>1. Held(t) = Free /\ Base(t) = Free /\ sleep[t] = "awake" /\ todo[t] = <<>>
    BY <1>2, ThreadsAssumption DEF Init, Held, Free, Base
  <2>2. Nested(<<>>, Free, Free)
    BY NestedNil, LevelFacts
  <2>3. ReadersNotified(<<>>)
    BY DEF ReadersNotified
  <2> QED
    BY <2>1, <2>2, <2>3 DEF ThreadInv
<1>3. WakeInv
  BY DEF Init, WakeInv
<1> QED
  BY <1>1, <1>2, <1>3 DEF IInv

\* What a thread holds is a level.
LEMMA HeldLevel == ASSUME TypeInv, NEW t \in Threads PROVE Held(t) \in Level
BY DEF TypeInv, Held, Level

\* A step of a thread on a mutex that is free or its own takes nothing from others.
LEMMA HeldFrame ==
    ASSUME TypeInv, NEW t \in Threads, NEW m \in Mutexes,
           owner[m] \in {t, "nobody"}, owner'[m] \in {t, "nobody"},
           \A n \in Mutexes \ {m} : owner'[n] = owner[n] /\ depth'[n] = depth[n]
    PROVE  \A u \in Threads \ {t} : Held(u)' = Held(u)
<1> SUFFICES ASSUME NEW u \in Threads \ {t} PROVE Held(u)' = Held(u)
  OBVIOUS
<1>1. \A n \in Mutexes : (IF owner'[n] = u THEN depth'[n] ELSE 0)
                              = (IF owner[n] = u THEN depth[n] ELSE 0)
  BY ThreadsAssumption
<1> QED
  BY <1>1 DEF Held

\* A thread that is left alone keeps its part of the invariant.
LEMMA ThreadFrame ==
    ASSUME NEW u \in Threads, ThreadInv(u), Held(u)' = Held(u), todo'[u] = todo[u],
           sleep'[u] = "awake" <=> sleep[u] = "awake"
    PROVE  ThreadInv(u)'
<1>1. Base(u)' = Base(u)
  BY DEF Base
<1> QED
  BY <1>1 DEF ThreadInv, Busy

\* What is left of a program notifies of its readers as well.
LEMMA TailNotifies ==
    ASSUME NEW p \in Seq(Steps), p # <<>>, ReadersNotified(p)
    PROVE  ReadersNotified(Tail(p))
<1> SUFFICES ASSUME NEW i \in 1..Len(Tail(p)), Tail(p)[i][1] = "reader"
             PROVE  /\ Len(Tail(p)) = i + 2
                    /\ Tail(p)[i + 1][1] = "unlock" /\ Tail(p)[i + 2][1] = "notify"
  BY DEF ReadersNotified
<1>1. /\ Len(Tail(p)) \in Nat /\ Len(p) = Len(Tail(p)) + 1
      /\ \A j \in 1..Len(Tail(p)) : Tail(p)[j] = p[j + 1]
  OBVIOUS
<1>2. i + 1 \in 1..Len(p) /\ p[i + 1][1] = "reader"
  BY <1>1
<1>3. /\ Len(p) = (i + 1) + 2
      /\ p[(i + 1) + 1][1] = "unlock" /\ p[(i + 1) + 2][1] = "notify"
  BY <1>2 DEF ReadersNotified
<1>4. Len(Tail(p)) = i + 2
  BY <1>1, <1>3
<1>5. i + 1 \in 1..Len(Tail(p)) /\ i + 2 \in 1..Len(Tail(p))
  BY <1>4
<1> QED
  BY <1>1, <1>3, <1>4, <1>5

\* The thread that runs: what it holds, its step and what is left after it.
LEMMA NextStep ==
    ASSUME IInv, NEW t \in Threads, Busy(t), sleep[t] = "awake"
    PROVE  /\ Head(todo[t]) \in Steps /\ Tail(todo[t]) \in Seq(Steps)
           /\ ReadersNotified(Tail(todo[t]))
           /\ Held(t) \in Level
           /\ \E k \in Level : Moves(Head(todo[t]), Held(t), k) /\ Nested(Tail(todo[t]), k, Free)
<1>1. Nested(todo[t], Held(t), Free) /\ ReadersNotified(todo[t])
  BY DEF IInv, ThreadInv, Base
<1>2. todo[t] \in Seq(Steps) /\ todo[t] # <<>>
  BY DEF IInv, TypeInv, Busy
<1>3. Tail(todo[t]) \in Seq(Steps)
  BY <1>2
<1> QED
  BY <1>1, <1>2, <1>3, NestedTail, TailNotifies

-----------------------------------------------------------------------------
(* What each action does to what the threads hold.                         *)

\* Begin: a call starts from nothing.
LEMMA BeginKeeps ==
    ASSUME IInv, NEW t \in Threads, Begin(t)
    PROVE  TypeInv' /\ \A u \in Threads : ThreadInv(u)'
<1>1. PICK name \in CallsOf[t] : \E p \in Programs(name) : todo' = [todo EXCEPT ![t] = p]
  BY DEF Begin
<1>2. PICK p \in Programs(name) : todo' = [todo EXCEPT ![t] = p]
  BY <1>1
<1>3. Nested(p, Free, Free) /\ ReadersNotified(p) /\ p \in Seq(Steps)
  <2>1. name \in CallNames
    BY <1>1, ThreadsAssumption
  <2> QED
    BY <2>1, ProgramsLemma DEF Nested
<1>4. TypeInv'
  <2>1. calls' \in [Threads -> 0..MaxCalls]
    BY ThreadsAssumption DEF Begin, IInv, TypeInv
  <2> QED
    BY <1>2, <1>3, <2>1 DEF Begin, IInv, TypeInv
<1>5. ASSUME NEW u \in Threads \ {t} PROVE ThreadInv(u)'
  BY <1>2, ThreadFrame DEF Begin, IInv, TypeInv, Held
<1>6. ThreadInv(t)'
  <2>1. ThreadInv(t) /\ sleep[t] = "awake" /\ todo[t] = <<>>
    BY DEF Begin, IInv, TypeInv, ThreadInv, Busy
  <2>2. Held(t) = Free
    BY <2>1 DEF ThreadInv, Base, Nested
  <2>3. Held(t)' = Free /\ sleep'[t] = "awake" /\ todo'[t] = p
    BY <1>2, <2>1, <2>2 DEF Begin, Held, IInv, TypeInv
  <2> QED
    BY <1>3, <2>3 DEF ThreadInv, Base
<1> QED
  BY <1>4, <1>5, <1>6

\* Lock and Unlock: what the thread holds follows the height of its program.
LEMMA LockKeeps ==
    ASSUME IInv, NEW t \in Threads, Lock(t)
    PROVE  TypeInv' /\ \A u \in Threads : ThreadInv(u)'
<1> DEFINE m == Argument(t)
<1>1. Busy(t) /\ sleep[t] = "awake" /\ Head(todo[t])[1] = "lock"
  BY DEF Lock, Does
<1>2. PICK k \in Level : Moves(Head(todo[t]), Held(t), k) /\ Nested(Tail(todo[t]), k, Free)
  BY <1>1, NextStep
<1>3. m \in Mutexes
  BY <1>1, NextStep DEF Steps, Argument
<1>4. k = Raised(Held(t), m)
  BY <1>1, <1>2 DEF Moves, Argument
<1>5. /\ owner' = [owner EXCEPT ![m] = t] /\ depth' = [depth EXCEPT ![m] = @ + 1]
      /\ todo' = [todo EXCEPT ![t] = Tail(@)] /\ sleep' = sleep
      /\ calls' = calls /\ readers' = readers
      /\ owner[m] \in {t, "nobody"}
  BY DEF Lock, Advance, MayLock
<1> HIDE DEF m
<1>6. TypeInv'
  <2>1. todo' \in [Threads -> Seq(Steps)]
    BY <1>1, <1>5, NextStep DEF IInv, TypeInv
  <2> QED
    BY <1>3, <1>5, <2>1, ThreadsAssumption DEF IInv, TypeInv
<1>7. ASSUME NEW u \in Threads \ {t} PROVE ThreadInv(u)'
  <2>1. Held(u)' = Held(u)
    BY <1>3, <1>5, HeldFrame DEF IInv, TypeInv
  <2> QED
    BY <1>5, <2>1, ThreadFrame DEF IInv, TypeInv
<1>8. ThreadInv(t)'
  <2>1. Held(t)' = k
    <3>1. \A n \in Mutexes : (IF owner'[n] = t THEN depth'[n] ELSE 0)
                = (IF n = m THEN 1 ELSE 0) + (IF owner[n] = t THEN depth[n] ELSE 0)
      BY <1>3, <1>5, ThreadsAssumption DEF IInv, TypeInv
    <3>2. \A n \in Mutexes : k[n] = (IF n = m THEN 1 ELSE 0) + Held(t)[n]
      BY <1>3, <1>4 DEF Raised, Held, IInv, TypeInv
    <3>3. \A n \in Mutexes : Held(t)'[n] = k[n]
      BY <3>1, <3>2 DEF Held
    <3> QED
      BY <1>2, <3>3 DEF Held, Level
  <2>2. todo'[t] = Tail(todo[t]) /\ sleep'[t] = "awake"
    BY <1>1, <1>5 DEF IInv, TypeInv
  <2>3. ReadersNotified(Tail(todo[t]))
    BY <1>1, NextStep
  <2> QED
    BY <1>2, <2>1, <2>2, <2>3 DEF ThreadInv, Base
<1> QED
  BY <1>6, <1>7, <1>8

\* Only what is held is released.
LEMMA UnlockKeeps ==
    ASSUME IInv, NEW t \in Threads, Unlock(t)
    PROVE  TypeInv' /\ \A u \in Threads : ThreadInv(u)'
<1> DEFINE m == Argument(t)
<1>1. Busy(t) /\ sleep[t] = "awake" /\ Head(todo[t])[1] = "unlock"
  BY DEF Unlock, Does
<1>2. PICK k \in Level : Moves(Head(todo[t]), Held(t), k) /\ Nested(Tail(todo[t]), k, Free)
  BY <1>1, NextStep
<1>3. m \in Mutexes
  BY <1>1, NextStep DEF Steps, Argument
<1>4. Held(t) = Raised(k, m)
  BY <1>1, <1>2 DEF Moves, Argument
<1>5. /\ depth' = [depth EXCEPT ![m] = @ - 1]
      /\ owner' = [owner EXCEPT ![m] = IF depth[m] = 1 THEN "nobody" ELSE @]
      /\ todo' = [todo EXCEPT ![t] = Tail(@)] /\ sleep' = sleep
      /\ calls' = calls /\ readers' = readers
  BY DEF Unlock, Advance
<1> HIDE DEF m
<1>6. \A n \in Mutexes : Held(t)[n] = (IF n = m THEN 1 ELSE 0) + k[n] /\ k[n] \in Nat
  BY <1>3, <1>4 DEF Raised, Level
<1>7. owner[m] = t /\ depth[m] \in Nat \ {0}
  <2>1. Held(t)[m] = 1 + k[m] /\ k[m] \in Nat
    BY <1>3, <1>6
  <2>2. Held(t)[m] = IF owner[m] = t THEN depth[m] ELSE 0
    BY <1>3 DEF Held
  <2> HIDE DEF Held
  <2>3. owner[m] = t
    BY <2>1, <2>2
  <2> QED
    BY <2>1, <2>2, <2>3
<1>8. TypeInv'
  <2>1. todo' \in [Threads -> Seq(Steps)]
    BY <1>1, <1>5, NextStep DEF IInv, TypeInv
  <2>2. depth' \in [Mutexes -> Nat] /\ owner' \in [Mutexes -> Threads \cup {"nobody"}]
    BY <1>3, <1>5, <1>7 DEF IInv, TypeInv
  <2>3. \A n \in Mutexes : depth'[n] = 0 <=> owner'[n] = "nobody"
    BY <1>3, <1>5, <1>7, ThreadsAssumption DEF IInv, TypeInv
  <2> QED
    BY <1>5, <2>1, <2>2, <2>3 DEF IInv, TypeInv
<1>9. ASSUME NEW u \in Threads \ {t} PROVE ThreadInv(u)'
  <2>1. Held(u)' = Held(u)
    BY <1>3, <1>5, <1>7, HeldFrame DEF IInv, TypeInv
  <2> QED
    BY <1>5, <2>1, ThreadFrame DEF IInv, TypeInv
<1>10. ThreadInv(t)'
  <2>1. Held(t)' = k
    <3>1. \A n \in Mutexes : (IF owner'[n] = t THEN depth'[n] ELSE 0) = k[n]
      BY <1>3, <1>5, <1>6, <1>7, ThreadsAssumption DEF IInv, TypeInv, Held
    <3>2. \A n \in Mutexes : Held(t)'[n] = k[n]
      BY <3>1 DEF Held
    <3> QED
      BY <1>2, <3>2 DEF Held, Level
  <2>2. todo'[t] = Tail(todo[t]) /\ sleep'[t] = "awake"
    BY <1>1, <1>5 DEF IInv, TypeInv
  <2>3. ReadersNotified(Tail(todo[t]))
    BY <1>1, NextStep
  <2> QED
    BY <1>2, <2>1, <2>2, <2>3 DEF ThreadInv, Base
<1> QED
  BY <1>8, <1>9, <1>10

\* A step that takes no mutex: a check that passes, a reader, a notification.
LEMMA AdvanceKeeps ==
    ASSUME IInv, NEW t \in Threads, Busy(t), sleep[t] = "awake",
           Head(todo[t])[1] \notin {"lock", "unlock"},
           Advance(t), UNCHANGED <<calls, owner, depth>>,
           readers' \subseteq Topics,
           sleep' \in [Threads -> {"awake", "asleep", "notified"}],
           \A u \in Threads : sleep'[u] = "awake" <=> sleep[u] = "awake"
    PROVE  TypeInv' /\ \A u \in Threads : ThreadInv(u)'
<1>1. PICK k \in Level : Moves(Head(todo[t]), Held(t), k) /\ Nested(Tail(todo[t]), k, Free)
  BY NextStep
<1>2. k = Held(t)
  BY <1>1 DEF Moves
<1>3. TypeInv'
  <2>1. todo' \in [Threads -> Seq(Steps)]
    BY NextStep DEF IInv, TypeInv, Advance
  <2> QED
    BY <2>1 DEF IInv, TypeInv
<1>4. \A u \in Threads : Held(u)' = Held(u)
  BY DEF Held
<1>5. ASSUME NEW u \in Threads \ {t} PROVE ThreadInv(u)'
  BY <1>4, ThreadFrame DEF IInv, TypeInv, Advance
<1>6. ThreadInv(t)'
  <2>1. todo'[t] = Tail(todo[t]) /\ sleep'[t] = "awake"
    BY DEF IInv, TypeInv, Advance
  <2>2. ReadersNotified(Tail(todo[t]))
    BY NextStep
  <2> QED
    BY <1>1, <1>2, <1>4, <2>1, <2>2 DEF ThreadInv, Base
<1> QED
  BY <1>3, <1>5, <1>6

\* A call that returns early releases what it holds, each mutex as often as
\* it holds it.
LEMMA ReturnKeeps ==
    ASSUME IInv, NEW t \in Threads, Return(t)
    PROVE  TypeInv' /\ \A u \in Threads : ThreadInv(u)'
<1> DEFINE l == Held(t)
           P == [i \in 1..l["participant"] |-> <<"unlock", "participant">>]
           H == [i \in 1..l["handler"] |-> <<"unlock", "handler">>]
           k == [l EXCEPT !["participant"] = 0]
<1>1. Busy(t) /\ sleep[t] = "awake"
  BY DEF Return, Does
<1>2. l \in Level /\ "participant" \in Mutexes /\ "handler" \in Mutexes
  BY HeldLevel DEF IInv, Mutexes
<1>3. Unwinding(t) = P \o H
  <2>1. /\ l["participant"] = (IF owner["participant"] = t THEN depth["participant"] ELSE 0)
        /\ l["handler"] = (IF owner["handler"] = t THEN depth["handler"] ELSE 0)
    BY <1>2 DEF Held
  <2> QED
    BY <2>1 DEF Unwinding
<1> HIDE DEF l
<1>4. Nested(P, l, k)
  BY <1>2, NestedRelease
<1>5. k \in Level /\ k["handler"] = l["handler"] /\ [k EXCEPT !["handler"] = 0] = Free
  BY <1>2 DEF Level, Mutexes, Free
<1>6. Nested(H, k, Free)
  BY <1>2, <1>5, NestedRelease
<1>7. Nested(P \o H, l, Free)
  BY <1>4, <1>6, NestedConcat
<1>8. ReadersNotified(P \o H)
  <2>1. P \in Seq(Quiet) /\ H \in Seq(Quiet)
    <3>1. l["participant"] \in Nat /\ l["handler"] \in Nat
      BY <1>2 DEF Level
    <3> QED
      BY <3>1 DEF Quiet, Mutexes
  <2> HIDE DEF P, H
  <2>2. P \o H \in Seq(Quiet)
    BY <2>1
  <2> QED
    BY <2>2, QuietAddsNone
<1>9. /\ todo' = [todo EXCEPT ![t] = P \o H] /\ sleep' = sleep
      /\ calls' = calls /\ readers' = readers /\ owner' = owner /\ depth' = depth
  BY <1>3 DEF Return
<1> HIDE DEF P, H, k
<1>10. TypeInv'
  BY <1>7, <1>9 DEF IInv, TypeInv, Nested
<1>11. \A u \in Threads : Held(u)' = Held(u)
  BY <1>9 DEF Held
<1>12. ASSUME NEW u \in Threads \ {t} PROVE ThreadInv(u)'
  BY <1>9, <1>11, ThreadFrame DEF IInv, TypeInv
<1>13. ThreadInv(t)'
  <2>1. todo'[t] = P \o H /\ sleep'[t] = "awake" /\ Held(t)' = l
    BY <1>1, <1>9, <1>11 DEF IInv, TypeInv, l
  <2> QED
    BY <1>7, <1>8, <2>1 DEF ThreadInv, Base
<1> QED
  BY <1>10, <1>12, <1>13

\* A thread that falls asleep gives up the plain mutex, all that it holds.
LEMMA WaitKeeps ==
    ASSUME IInv, NEW t \in Threads, Wait(t)
    PROVE  TypeInv' /\ \A u \in Threads : ThreadInv(u)'
<1>1. Busy(t) /\ sleep[t] = "awake" /\ Head(todo[t])[1] = "wait"
  BY DEF Wait, Does
<1>2. CASE Argument(t) \in readers
  <2>1. Advance(t) /\ UNCHANGED <<calls, owner, depth, readers, sleep>>
    BY <1>2 DEF Wait
  <2> QED
    BY <1>1, <2>1, AdvanceKeeps DEF IInv, TypeInv
<1>3. CASE Argument(t) \notin readers
  <2>1. /\ owner' = [owner EXCEPT !["participant"] = "nobody"]
        /\ depth' = [depth EXCEPT !["participant"] = 0]
        /\ sleep' = [sleep EXCEPT ![t] = "asleep"]
        /\ todo' = todo /\ calls' = calls /\ readers' = readers
    BY <1>3 DEF Wait
  <2>2. Held(t) = AtWait
    BY <1>1, NextStep DEF Moves
  <2>3. owner["participant"] = t /\ owner["handler"] # t
    <3>1. Held(t)["participant"] = 1 /\ Held(t)["handler"] = 0
      BY <2>2 DEF AtWait, Mutexes
    <3>2. /\ Held(t)["participant"] = IF owner["participant"] = t THEN depth["participant"] ELSE 0
          /\ Held(t)["handler"] = IF owner["handler"] = t THEN depth["handler"] ELSE 0
      BY DEF Held, Mutexes
    <3>3. depth["handler"] = 0 => owner["handler"] = "nobody"
      BY DEF IInv, TypeInv, Mutexes
    <3> HIDE DEF Held
    <3> QED
      BY <3>1, <3>2, <3>3, ThreadsAssumption
  <2>4. TypeInv'
    BY <2>1 DEF IInv, TypeInv, Mutexes
  <2>5. ASSUME NEW u \in Threads \ {t} PROVE ThreadInv(u)'
    <3>1. Held(u)' = Held(u)
      BY <2>1, <2>3, HeldFrame DEF IInv, TypeInv, Mutexes
    <3> QED
      BY <2>1, <3>1, ThreadFrame DEF IInv, TypeInv
  <2>6. ThreadInv(t)'
    <3>1. Held(t)' = Free
      BY <2>1, <2>3, ThreadsAssumption DEF Held, Free, IInv, TypeInv, Mutexes
    <3>2. todo'[t] = todo[t] /\ sleep'[t] = "asleep" /\ Base(t) = AtWait
      BY <1>1, <2>1, <2>2 DEF IInv, TypeInv, Base
    <3>3. Nested(todo[t], AtWait, Free) /\ ReadersNotified(todo[t])
      BY <3>2 DEF IInv, ThreadInv
    <3>4. Base(t)' = AtWait
      BY <3>2 DEF Base
    <3> QED
      BY <1>1, <3>1, <3>2, <3>3, <3>4 DEF ThreadInv, Busy
  <2> QED
    BY <2>4, <2>5, <2>6
<1> QED
  BY <1>2, <1>3

\* A thread that wakes takes the plain mutex again, and holds nothing else.
LEMMA ReacquireLemma ==
    ASSUME IInv, NEW t \in Threads, sleep[t] # "awake", Reacquire(t)
    PROVE  /\ Held(t)' = AtWait /\ sleep'[t] = "awake"
           /\ \A u \in Threads \ {t} : Held(u)' = Held(u) /\ sleep'[u] = sleep[u]
           /\ owner' \in [Mutexes -> Threads \cup {"nobody"}]
           /\ depth' \in [Mutexes -> Nat]
           /\ \A m \in Mutexes : depth'[m] = 0 <=> owner'[m] = "nobody"
           /\ sleep' \in [Threads -> {"awake", "asleep", "notified"}]
<1>1. /\ owner' = [owner EXCEPT !["participant"] = t]
      /\ depth' = [depth EXCEPT !["participant"] = 1]
      /\ sleep' = [sleep EXCEPT ![t] = "awake"]
      /\ owner["participant"] = "nobody"
  BY DEF Reacquire
<1>2. Held(t) = Free
  BY DEF IInv, ThreadInv
<1>3. Held(t)' = AtWait
  <2>1. (IF owner["handler"] = t THEN depth["handler"] ELSE 0) = 0
    BY <1>2 DEF Held, Free, Mutexes
  <2>2. \A m \in Mutexes : (IF owner'[m] = t THEN depth'[m] ELSE 0)
                                = IF m = "participant" THEN 1 ELSE 0
    BY <1>1, <2>1 DEF IInv, TypeInv, Mutexes
  <2> QED
    BY <2>2 DEF Held, AtWait
<1>4. \A u \in Threads \ {t} : Held(u)' = Held(u)
  BY <1>1, HeldFrame DEF IInv, TypeInv, Mutexes
<1> QED
  BY <1>1, <1>3, <1>4, ThreadsAssumption DEF IInv, TypeInv, Mutexes

\* WakeUp: the wait is evaluated again.
LEMMA WakeUpKeeps ==
    ASSUME IInv, NEW t \in Threads, WakeUp(t)
    PROVE  TypeInv' /\ \A u \in Threads : ThreadInv(u)'
<1>1. sleep[t] # "awake" /\ Reacquire(t) /\ UNCHANGED <<todo, calls, readers>>
  BY DEF WakeUp
<1>2. TypeInv'
  BY <1>1, ReacquireLemma DEF IInv, TypeInv
<1>3. ASSUME NEW u \in Threads \ {t} PROVE ThreadInv(u)'
  BY <1>1, ReacquireLemma, ThreadFrame DEF IInv
<1>4. ThreadInv(t)'
  <2>1. Nested(todo[t], AtWait, Free) /\ ReadersNotified(todo[t])
    BY <1>1 DEF IInv, ThreadInv, Base
  <2>2. todo' = todo /\ sleep'[t] = "awake" /\ Base(t)' = AtWait
    BY <1>1, ReacquireLemma DEF Base
  <2> QED
    BY <2>1, <2>2 DEF ThreadInv
<1> QED
  BY <1>2, <1>3, <1>4

\* TimeOut: the call goes on or gives the mutex back.
LEMMA TimeOutKeeps ==
    ASSUME IInv, NEW t \in Threads, TimeOut(t)
    PROVE  TypeInv' /\ \A u \in Threads : ThreadInv(u)'
<1> DEFINE p == IF Argument(t) \in readers THEN Tail(todo[t])
                ELSE <<<<"unlock", "participant">>>>
<1>1. /\ sleep[t] # "awake" /\ Reacquire(t) /\ UNCHANGED <<calls, readers>>
      /\ todo' = [todo EXCEPT ![t] = p]
  BY DEF TimeOut
<1>2. /\ Nested(todo[t], AtWait, Free) /\ ReadersNotified(todo[t])
      /\ todo[t] # <<>> /\ Head(todo[t])[1] = "wait"
  BY <1>1 DEF IInv, ThreadInv, Base, Busy
<1>3. Nested(Tail(todo[t]), AtWait, Free) /\ ReadersNotified(Tail(todo[t]))
  <2>1. PICK k \in Level : Moves(Head(todo[t]), AtWait, k) /\ Nested(Tail(todo[t]), k, Free)
    BY <1>2, NestedTail
  <2>2. k = AtWait
    BY <1>2, <2>1 DEF Moves
  <2>3. todo[t] \in Seq(Steps)
    BY <1>2 DEF Nested
  <2> QED
    BY <1>2, <2>1, <2>2, <2>3, TailNotifies
<1>4. LET q == <<<<"unlock", "participant">>>> IN Nested(q, AtWait, Free) /\ ReadersNotified(q)
  <2> DEFINE s == <<"unlock", "participant">>
  <2>1. s \in Steps /\ s \in Quiet /\ Moves(s, AtWait, Free)
    BY LevelFacts DEF Steps, Quiet, Moves, Mutexes
  <2> HIDE DEF s
  <2>2. Nested(<<s>>, AtWait, Free)
    BY <2>1, NestedOne, LevelFacts
  <2>3. ReadersNotified(<<s>>)
    <3>1. <<s>> \in Seq(Quiet)
      BY <2>1
    <3> QED
      BY <3>1, QuietAddsNone
  <2> QED
    BY <2>2, <2>3 DEF s
<1>5. Nested(p, AtWait, Free) /\ ReadersNotified(p)
  BY <1>3, <1>4
<1> HIDE DEF p
<1>6. TypeInv'
  BY <1>1, <1>5, ReacquireLemma DEF IInv, TypeInv, Nested
<1>7. ASSUME NEW u \in Threads \ {t} PROVE ThreadInv(u)'
  BY <1>1, ReacquireLemma, ThreadFrame DEF IInv, TypeInv
<1>8. ThreadInv(t)'
  <2>1. todo'[t] = p /\ sleep'[t] = "awake" /\ Base(t)' = AtWait
    BY <1>1, ReacquireLemma DEF IInv, TypeInv, Base
  <2> QED
    BY <1>5, <2>1 DEF ThreadInv
<1> QED
  BY <1>6, <1>7, <1>8

\* Notify and AddReader leave the mutexes alone.
LEMMA PlainStepsKeep ==
    ASSUME IInv, NEW t \in Threads, Pass(t) \/ AddReader(t) \/ Notify(t)
    PROVE  TypeInv' /\ \A u \in Threads : ThreadInv(u)'
<1>1. Busy(t) /\ sleep[t] = "awake"
  BY DEF Pass, AddReader, Notify, Does
<1>2. sleep \in [Threads -> {"awake", "asleep", "notified"}] /\ readers \subseteq Topics
  BY DEF IInv, TypeInv
<1>3. CASE Pass(t)
  BY <1>1, <1>2, <1>3, AdvanceKeeps DEF Pass, Does
<1>4. CASE AddReader(t)
  <2>1. Argument(t) \in Topics
    BY <1>1, <1>4, NextStep DEF AddReader, Does, Steps, Argument
  <2> QED
    BY <1>1, <1>2, <1>4, <2>1, AdvanceKeeps DEF AddReader, Does
<1>5. CASE Notify(t)
  <2>1. /\ sleep' \in [Threads -> {"awake", "asleep", "notified"}]
        /\ \A u \in Threads : sleep'[u] = "awake" <=> sleep[u] = "awake"
    BY <1>2, <1>5 DEF Notify
  <2> QED
    BY <1>1, <1>2, <1>5, <2>1, AdvanceKeeps DEF Notify, Does
<1> QED
  BY <1>3, <1>4, <1>5

-----------------------------------------------------------------------------
(* What a thread that sleeps can count on.                                 *)

\* A thread that is about to notify has at most a mutex to release before.
LEMMA NotifyingSteps ==
    ASSUME NEW p \in Seq(Steps), Notifying(p)
    PROVE  /\ p # <<>>
           /\ Head(p)[1] \in {"unlock", "notify"}
           /\ Head(p)[1] = "unlock" => Notifying(Tail(p))
<1>1. CASE Len(p) = 1
  BY <1>1 DEF Notifying
<1>2. CASE Len(p) = 2
  <2>1. p # <<>> /\ Head(p) = p[1] /\ Len(Tail(p)) = 1 /\ Tail(p)[1] = p[2]
    BY <1>2
  <2> QED
    BY <1>2, <2>1 DEF Notifying
<1> QED
  BY <1>1, <1>2 DEF Notifying

\* What follows the step that adds a reader.
LEMMA ReaderThenNotify ==
    ASSUME NEW p \in Seq(Steps), p # <<>>, ReadersNotified(p), Head(p)[1] = "reader"
    PROVE  Notifying(Tail(p))
<1>1. 1 \in 1..Len(p) /\ p[1][1] = "reader"
  OBVIOUS
<1>2. Len(p) = 1 + 2 /\ p[1 + 1][1] = "unlock" /\ p[1 + 2][1] = "notify"
  BY <1>1 DEF ReadersNotified
<1> DEFINE q == Tail(p)
<1>3. Len(q) = 2 /\ \A i \in 1..Len(q) : q[i] = p[i + 1]
  BY <1>2
<1> HIDE DEF q
<1>4. q[1] = p[1 + 1] /\ q[2] = p[1 + 2]
  <2>1. 1 \in 1..Len(q) /\ 2 \in 1..Len(q) /\ 2 + 1 = 1 + 2
    BY <1>3
  <2> QED
    BY <1>3, <2>1
<1>5. Notifying(q)
  BY <1>2, <1>3, <1>4 DEF Notifying
<1> QED
  BY <1>5 DEF q

\* A thread that is about to notify stays so until it does.
LEMMA NotifyingKept ==
    ASSUME IInv, NEW t \in Threads, Begin(t) \/ Step(t),
           NEW u \in Threads, Notifying(todo[u])
    PROVE  Notifying(todo'[u]) \/ (u = t /\ Notify(t))
<1>1. todo[u] \in Seq(Steps) /\ todo \in [Threads -> Seq(Steps)]
  BY DEF IInv, TypeInv
<1>2. /\ Busy(u) /\ Head(todo[u])[1] \in {"unlock", "notify"}
      /\ Head(todo[u])[1] = "unlock" => Notifying(Tail(todo[u]))
  BY <1>1, NotifyingSteps DEF Busy
<1>3. sleep[u] = "awake"
  BY <1>2 DEF IInv, ThreadInv
<1>4. CASE u # t
  <2>1. todo'[u] = todo[u]
    BY <1>1, <1>4 DEF Begin, Step, Lock, Unlock, Pass, Return, AddReader, Notify, Wait,
                      WakeUp, TimeOut, Advance
  <2> QED
    BY <2>1
<1>5. CASE u = t
  <2>1. Unlock(t) \/ Notify(t)
    BY <1>2, <1>3, <1>5 DEF Begin, Step, Lock, Pass, Return, AddReader, Wait, WakeUp,
                            TimeOut, Does
  <2>2. CASE Unlock(t)
    BY <1>1, <1>2, <1>5, <2>2 DEF Unlock, Does, Advance
  <2> QED
    BY <1>5, <2>1, <2>2
<1> QED
  BY <1>4, <1>5

\* No step leaves a thread asleep for a reader that is there, unless another
\* is about to notify.
LEMMA WakeKept ==
    ASSUME IInv, NEW t \in Threads, Begin(t) \/ Step(t)
    PROVE  WakeInv'
<1> SUFFICES ASSUME NEW u \in Threads, sleep'[u] = "asleep", Argument(u)' \in readers'
             PROVE  \E v \in Threads : Notifying(todo'[v])
  BY DEF WakeInv
<1>1. /\ todo \in [Threads -> Seq(Steps)]
      /\ sleep \in [Threads -> {"awake", "asleep", "notified"}]
  BY DEF IInv, TypeInv
<1>2. ~Notify(t)
  BY <1>1 DEF Notify
<1>3. CASE sleep[u] = "asleep"
  <2>1. u # t
    <3>1. u = t => ~Does(t, "lock") /\ ~Does(t, "unlock") /\ ~Does(t, "check")
                     /\ ~Does(t, "reader") /\ ~Does(t, "notify") /\ ~Does(t, "wait")
      BY <1>3 DEF Does
    <3>2. u = t => ~Begin(t)
      BY <1>3 DEF Begin, IInv, ThreadInv
    <3>3. u = t => ~Reacquire(t)
      BY <1>1 DEF Reacquire
    <3> QED
      BY <3>1, <3>2, <3>3 DEF Step, Lock, Unlock, Pass, Return, AddReader, Notify, Wait,
                              WakeUp, TimeOut
  <2>2. todo'[u] = todo[u]
    BY <1>1, <2>1 DEF Begin, Step, Lock, Unlock, Pass, Return, AddReader, Notify, Wait,
                      WakeUp, TimeOut, Advance
  <2>3. Argument(u)' = Argument(u)
    BY <2>2 DEF Argument
  <2>4. CASE Argument(u) \in readers
    <3>1. PICK v \in Threads : Notifying(todo[v])
      BY <1>3, <2>4 DEF IInv, WakeInv
    <3> QED
      BY <1>2, <3>1, NotifyingKept
  <2>5. CASE Argument(u) \notin readers
    <3>1. AddReader(t)
      BY <2>3, <2>5 DEF Begin, Step, Lock, Unlock, Pass, Return, Notify, Wait, WakeUp, TimeOut
    <3>2. todo[t] \in Seq(Steps) /\ todo[t] # <<>> /\ Head(todo[t])[1] = "reader"
          /\ todo'[t] = Tail(todo[t])
      BY <1>1, <3>1 DEF AddReader, Does, Busy, Advance
    <3>3. ReadersNotified(todo[t])
      BY DEF IInv, ThreadInv
    <3> QED
      BY <3>2, <3>3, ReaderThenNotify
  <2> QED
    BY <2>4, <2>5
<1>4. CASE sleep[u] # "asleep"
  <2>1. Wait(t) /\ u = t
    BY <1>1, <1>2, <1>4 DEF Begin, Step, Lock, Unlock, Pass, Return, AddReader, Wait,
                            WakeUp, TimeOut, Reacquire
  <2>2. Argument(t) \notin readers /\ readers' = readers /\ todo' = todo
    BY <1>4, <2>1 DEF Wait
  <2> QED
    BY <2>1, <2>2 DEF Argument
<1> QED
  BY <1>3, <1>4

-----------------------------------------------------------------------------
(* The theorems.                                                           *)

\* Every step of a thread keeps the invariant.
LEMMA NextInvariant == IInv /\ [Next]_vars => IInv'
<1> SUFFICES ASSUME IInv, [Next]_vars PROVE IInv'
  OBVIOUS
<1>1. CASE UNCHANGED vars
  <2>1. TypeInv' /\ WakeInv'
    BY <1>1 DEF vars, IInv, TypeInv, WakeInv, Argument
  <2>2. \A u \in Threads : Held(u)' = Held(u) /\ todo'[u] = todo[u] /\ sleep'[u] = sleep[u]
    BY <1>1 DEF vars, Held
  <2>3. \A u \in Threads : ThreadInv(u)'
    BY <2>2, ThreadFrame DEF IInv
  <2> QED
    BY <2>1, <2>3 DEF IInv
<1>2. ASSUME NEW t \in Threads, Begin(t) \/ Step(t) PROVE IInv'
  <2>1. TypeInv' /\ \A u \in Threads : ThreadInv(u)'
    BY <1>2, BeginKeeps, LockKeeps, UnlockKeeps, PlainStepsKeep, ReturnKeeps, WaitKeeps,
       WakeUpKeeps, TimeOutKeeps DEF Step
  <2>2. WakeInv'
    BY <1>2, WakeKept
  <2> QED
    BY <2>1, <2>2 DEF IInv
<1> QED
  BY <1>1, <1>2 DEF Next

-----------------------------------------------------------------------------
(* What can stop a call.                                                   *)

\* A thread has a step to take: its step is not to take a mutex that is
\* refused to it, or the mutex of its wait is free again.
MayStep(t) ==
    /\ Busy(t)
    /\ IF sleep[t] = "awake"
       THEN Head(todo[t])[1] = "lock" => MayLock(t, Argument(t))
       ELSE owner["participant"] = "nobody"

OnlyInversionBlocks ==
    (\E t \in Threads : Busy(t)) => Inverted \/ \E t \in Threads : MayStep(t)

SleepersHoldNothing ==
    \A t \in Threads : sleep[t] # "awake" => \A m \in Mutexes : owner[m] # t

PlainMutexNotRetaken ==
    \A t \in Threads : Blocked(t, "participant") => owner["participant"] # t

InversionIsForEver == Inverted => Inverted'

\* A thread that does not run holds nothing.
LEMMA HolderRuns ==
    ASSUME IInv, NEW m \in Mutexes, NEW t \in Threads, owner[m] = t
    PROVE  Busy(t) /\ sleep[t] = "awake" /\ Held(t)[m] # 0
<1>1. Held(t)[m] = depth[m] /\ depth[m] # 0
  BY ThreadsAssumption DEF Held, IInv, TypeInv
<1>2. Held(t) # Free
  BY <1>1 DEF Free
<1>3. sleep[t] = "awake"
  BY <1>2 DEF IInv, ThreadInv
<1>4. Busy(t)
  <2>1. Nested(todo[t], Held(t), Free)
    BY <1>3 DEF IInv, ThreadInv, Base
  <2>2. todo[t] = <<>> => Held(t) = Free
    BY <2>1 DEF Nested
  <2> QED
    BY <1>2, <2>2 DEF Busy
<1> QED
  BY <1>1, <1>3, <1>4

\* The thread that is refused the plain mutex does not hold it.
LEMMA NotRetaken == IInv => PlainMutexNotRetaken
<1> SUFFICES ASSUME IInv, NEW t \in Threads, Blocked(t, "participant"),
                    owner["participant"] = t
             PROVE  FALSE
  BY DEF PlainMutexNotRetaken
<1>1. Busy(t) /\ sleep[t] = "awake" /\ Head(todo[t])[1] = "lock"
      /\ Head(todo[t])[2] = "participant"
  BY DEF Blocked, Does, Argument
<1>2. PICK k \in Level : Moves(Head(todo[t]), Held(t), k)
  BY <1>1, NextStep
<1>3. Held(t)["participant"] = 0
  BY <1>1, <1>2 DEF Moves
<1> QED
  BY <1>3, HolderRuns DEF Mutexes

\* The thread that holds the mutex another one is refused runs, and if it
\* cannot go on it is because the other mutex is refused to it.
LEMMA HolderBlocked ==
    ASSUME IInv, NEW t \in Threads, NEW m \in Mutexes, owner[m] = t, ~MayStep(t)
    PROVE  \E n \in Mutexes \ {m} : Blocked(t, n) /\ owner[n] \in Threads
<1>1. Busy(t) /\ sleep[t] = "awake"
  BY HolderRuns
<1>2. Head(todo[t])[1] = "lock" /\ ~MayLock(t, Argument(t))
  BY <1>1 DEF MayStep
<1> DEFINE n == Argument(t)
<1>3. n \in Mutexes
  BY <1>1, <1>2, NextStep DEF Steps, Argument
<1>4. Blocked(t, n)
  BY <1>1, <1>2 DEF Blocked, Does
<1>5. owner[n] \in Threads
  BY <1>2, <1>3 DEF MayLock, IInv, TypeInv
<1>6. n # m
  <2>1. CASE m = "participant"
    BY <1>4, <2>1, NotRetaken DEF PlainMutexNotRetaken
  <2>2. CASE m = "handler"
    BY <1>2, <2>2 DEF MayLock
  <2> QED
    BY <2>1, <2>2 DEF Mutexes
<1> QED
  BY <1>3, <1>4, <1>5, <1>6

\* If no thread has a step to take, the holder of one mutex wants the other,
\* whose holder wants the first.
LEMMA OnlyInversion == IInv => OnlyInversionBlocks
<1> SUFFICES ASSUME IInv, NEW t \in Threads, Busy(t), \A u \in Threads : ~MayStep(u)
             PROVE  Inverted
  BY DEF OnlyInversionBlocks
<1>1. \E m \in Mutexes : owner[m] \in Threads
  <2>1. CASE sleep[t] = "awake"
    <3>1. Head(todo[t])[1] = "lock" /\ ~MayLock(t, Argument(t))
      BY <2>1 DEF MayStep
    <3>2. Argument(t) \in Mutexes
      BY <2>1, <3>1, NextStep DEF Steps, Argument
    <3> QED
      BY <3>1, <3>2 DEF MayLock, IInv, TypeInv
  <2>2. CASE sleep[t] # "awake"
    <3>1. owner["participant"] # "nobody"
      BY <2>2 DEF MayStep
    <3> QED
      BY <3>1 DEF IInv, TypeInv, Mutexes
  <2> QED
    BY <2>1, <2>2
<1>2. PICK m \in Mutexes : owner[m] \in Threads
  BY <1>1
<1>3. PICK n \in Mutexes \ {m} : Blocked(owner[m], n) /\ owner[n] \in Threads
  BY <1>2, HolderBlocked
<1>4. PICK i \in Mutexes \ {n} : Blocked(owner[n], i)
  BY <1>3, HolderBlocked
<1>5. i = m
  BY <1>3, <1>4 DEF Mutexes
<1>6. CASE m = "handler"
  BY <1>2, <1>3, <1>4, <1>5, <1>6 DEF Inverted, Mutexes
<1>7. CASE m = "participant"
  BY <1>2, <1>3, <1>4, <1>5, <1>7 DEF Inverted, Mutexes
<1> QED
  BY <1>6, <1>7 DEF Mutexes

\* Of two threads in an inversion neither has a step to take, and nobody else
\* touches what they hold.
LEMMA InversionStays == IInv /\ [Next]_vars => InversionIsForEver
<1> SUFFICES ASSUME IInv, [Next]_vars, Inverted PROVE Inverted'
  BY DEF InversionIsForEver
<1>1. PICK t \in Threads, u \in Threads :
            /\ owner["handler"] = t /\ Blocked(t, "participant")
            /\ owner["participant"] = u /\ Blocked(u, "handler")
  BY DEF Inverted
<1>2. /\ Busy(t) /\ sleep[t] = "awake" /\ Head(todo[t])[1] = "lock"
      /\ Argument(t) = "participant"
      /\ Busy(u) /\ sleep[u] = "awake" /\ Head(todo[u])[1] = "lock"
      /\ Argument(u) = "handler" /\ t # u
  BY <1>1 DEF Blocked, Does, MayLock
<1> SUFFICES /\ owner' = owner
             /\ \A v \in {t, u} : todo'[v] = todo[v] /\ sleep'[v] = sleep[v]
  BY <1>1, <1>2, ThreadsAssumption DEF Inverted, Blocked, Does, MayLock, Busy, Argument
<1>3. CASE UNCHANGED vars
  BY <1>3 DEF vars
<1>4. ASSUME NEW v \in Threads, Begin(v) \/ Step(v)
      PROVE  /\ owner' = owner
             /\ \A w \in {t, u} : todo'[w] = todo[w] /\ sleep'[w] = sleep[w]
  <2>1. todo \in [Threads -> Seq(Steps)]
        /\ sleep \in [Threads -> {"awake", "asleep", "notified"}]
        /\ \A m \in Mutexes : owner[m] # "nobody"
    BY <1>1, ThreadsAssumption DEF IInv, TypeInv, Mutexes
  <2>2. CASE Begin(v)
    BY <1>2, <2>1, <2>2 DEF Begin
  <2>3. ~Lock(v)
    <3> SUFFICES ASSUME Lock(v) PROVE FALSE
      OBVIOUS
    <3>1. Does(v, "lock") /\ MayLock(v, Argument(v))
      BY DEF Lock
    <3>2. Argument(v) \in Mutexes
      BY <3>1, NextStep DEF Does, Steps, Argument
    <3> QED
      BY <1>1, <1>2, <2>1, <3>1, <3>2 DEF MayLock, Mutexes
  <2>4. ~Unlock(v)
    <3> SUFFICES ASSUME Unlock(v) PROVE FALSE
      OBVIOUS
    <3> DEFINE m == Argument(v)
    <3>1. Busy(v) /\ sleep[v] = "awake" /\ Head(todo[v])[1] = "unlock"
      BY DEF Unlock, Does
    <3>2. m \in Mutexes
      BY <3>1, NextStep DEF Steps, Argument
    <3>3. PICK k \in Level : Moves(Head(todo[v]), Held(v), k)
      BY <3>1, NextStep
    <3>4. Held(v) = Raised(k, m)
      BY <3>1, <3>3 DEF Moves, Argument
    <3>5. Held(v)[m] # 0
      BY <3>2, <3>3, <3>4 DEF Raised, Level
    <3>6. owner[m] = v
      BY <3>2, <3>5 DEF Held
    <3>7. v \in {t, u}
      BY <1>1, <3>2, <3>6 DEF Mutexes
    <3> QED
      BY <1>2, <3>1, <3>7
  <2>5. CASE Wait(v)
    <3>1. Busy(v) /\ sleep[v] = "awake" /\ Head(todo[v])[1] = "wait" /\ v \notin {t, u}
      BY <1>2, <2>5 DEF Wait, Does
    <3>2. Held(v) = AtWait
      BY <3>1, NextStep DEF Moves
    <3>3. owner["participant"] = v
      <4>1. Held(v)["participant"] = 1
        BY <3>2 DEF AtWait, Mutexes
      <4> QED
        BY <4>1 DEF Held, Mutexes
    <3> QED
      BY <1>1, <3>1, <3>3
  <2>6. ~WakeUp(v) /\ ~TimeOut(v)
    BY <2>1 DEF WakeUp, TimeOut, Reacquire, Mutexes
  <2>7. CASE Pass(v) \/ Return(v) \/ AddReader(v)
    <3>1. v \notin {t, u}
      BY <1>2, <2>7 DEF Pass, Return, AddReader, Does
    <3> QED
      BY <2>1, <2>7, <3>1 DEF Pass, Return, AddReader, Advance
  <2>8. CASE Notify(v)
    <3>1. v \notin {t, u}
      BY <1>2, <2>8 DEF Notify, Does
    <3> QED
      BY <1>2, <2>1, <2>8, <3>1 DEF Notify, Advance
  <2> QED
    BY <1>4, <2>2, <2>3, <2>4, <2>5, <2>6, <2>7, <2>8 DEF Step
<1> QED
  BY <1>3, <1>4 DEF Next

-----------------------------------------------------------------------------
(* The theorems.                                                           *)

\* What is left of every call is a nest of sections that begins with what its
\* thread holds, and readers that are added are notified of.
THEOREM InvariantHolds == Spec => []IInv
<1> QED
  BY InitInvariant, NextInvariant, PTL DEF Spec

\* The mutexes are held and released as they should be, early returns and
\* waits included: a mutex is free exactly when it is held no more times.
THEOREM TypeCorrect == Spec => []TypeOK
<1>1. IInv => TypeOK
  BY InvariantImplies
<1> QED
  BY <1>1, InvariantHolds, PTL

\* No thread sleeps until the timeout for a reader that has been created.
THEOREM NotificationsArrive == Spec => []NoLostNotification
<1>1. IInv => NoLostNotification
  BY InvariantImplies
<1> QED
  BY <1>1, InvariantHolds, PTL

\* A thread that sleeps on cv_ until its reader is there holds no mutex: no
\* wait is entered from a function of Handler, whose mutex it would keep.
THEOREM WaitsHoldNothing == Spec => []SleepersHoldNothing
<1>1. IInv => SleepersHoldNothing
  BY HolderRuns DEF SleepersHoldNothing
<1> QED
  BY <1>1, InvariantHolds, PTL

\* No call stops by itself: EnablerParticipant::mtx_, which is not recursive,
\* is never taken by a thread that holds it.
THEOREM NoSelfDeadlock == Spec => []PlainMutexNotRetaken
<1> QED
  BY NotRetaken, InvariantHolds, PTL

\* While a call is running some thread has a step to take, unless two threads
\* hold one mutex each and want the other: whatever the threads, their calls
\* and the readers, nothing else can stop the enabler for good.
THEOREM InversionIsTheOnlyDeadlock == Spec => []OnlyInversionBlocks
<1> QED
  BY OnlyInversion, InvariantHolds, PTL

\* And that is for good: no step of another thread, no notification and no
\* timeout ends an inversion.
THEOREM InversionLasts == Spec => [][InversionIsForEver]_vars
<1>1. IInv /\ [Next]_vars => [InversionIsForEver]_vars
  BY InversionStays
<1> QED
  BY <1>1, InvariantHolds, PTL DEF Spec

=============================================================================
