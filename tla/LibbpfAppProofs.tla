--------------------------- MODULE LibbpfAppProofs ---------------------------
(***************************************************************************)
(* The safety invariants of LibbpfApp hold for any threads, any size of     *)
(* execs and any number of calls.                                           *)
(***************************************************************************)
EXTENDS LibbpfApp, FiniteSetTheorems, TLAPS

(* A thread in the program has made a call after my_pid_map was written.    *)
Called ==
  \A id \in Ids :
    at[id] \in {"insert"} \cup Inside => mine[id] = MainPid /\ call[id] # 0

AppInv ==
  /\ TypeOK
  /\ TidsUnique
  /\ ElementsInUse
  /\ PrintsOwnEvent
  /\ Called
  /\ "link" \in held => my_pid = MainPid
  /\ pc = "load" => held = {}
  /\ pc # "done" => status = -1
  /\ pc = "attach" => my_pid = MainPid
  /\ err \in {0} \cup {-e : e \in ErrNos}
  /\ ReleasedAndReported

(* The tid of a thread is a key of execs.                                   *)
LEMMA TidKey == \A id \in Ids : Tid(id) \in Tids
BY DEF Tids

(* No error number of a library call vanishes in eight bits.                *)
LEMMA ErrorsShow == \A e \in ErrNos : e \in Int /\ ExitStatus(-e) \in 1..255
BY AppAssumption, SMT DEF ExitStatus

(* Nothing is inserted, attached or failed when main starts.                *)
LEMMA AppInit == Init => AppInv
<1> SUFFICES ASSUME Init PROVE AppInv
  OBVIOUS
<1>1. TypeOK
  BY DEF Init, TypeOK, Places, Absent
<1>2. ElementsInUse
  BY DEF Init, ElementsInUse, Keys
<1>3. \A id \in Ids : at[id] \notin Inside /\ at[id] # "insert"
  BY DEF Init, Inside
<1> QED
  BY <1>1, <1>2, <1>3 DEF Init, AppInv, PrintsOwnEvent, Called, ReleasedAndReported

(* A step of main leaves threads and execs alone.                           *)
LEMMA AppMain ==
  ASSUME AppInv, OpenAndLoad \/ UpdateMyPid \/ Attach \/ System \/ Destroy \/ Killed
  PROVE  AppInv'
<1>1. UNCHANGED progVars
  BY DEF OpenAndLoad, UpdateMyPid, Attach, System, Destroy, Killed
<1>2. /\ at' = at /\ call' = call /\ calls' = calls
      /\ mine' = mine /\ execs' = execs
  BY <1>1 DEF progVars
<1>3. TidsUnique' /\ ElementsInUse' /\ PrintsOwnEvent' /\ Called'
  BY <1>2 DEF AppInv, TidsUnique, Live, ElementsInUse, PrintsOwnEvent, Called, Keys
<1>4. err' \in {0} \cup {-e : e \in ErrNos} /\ err' \in Int
  <2>1. err' \in {0} \cup {-e : e \in ErrNos}
    BY DEF AppInv, OpenAndLoad, UpdateMyPid, Attach, System, Destroy, Killed
  <2> QED
    BY <2>1, ErrorsShow
<1>5. status' \in -2..255 /\ (err < 0 /\ pc = "cleanup" => ExitStatus(err) # 0)
  <2>1. ExitStatus(err) \in 0..255 /\ (err < 0 => ExitStatus(err) # 0)
    BY ErrorsShow, SMTT(30) DEF AppInv, ExitStatus
  <2> QED
    BY <2>1 DEF AppInv, TypeOK, OpenAndLoad, UpdateMyPid, Attach, System, Destroy, Killed
<1>6. /\ my_pid' \in {0, MainPid} /\ held' \subseteq {"skel", "link"}
      /\ pc' \in {"load", "my_pid", "attach", "system", "cleanup", "done"}
  BY DEF AppInv, TypeOK, OpenAndLoad, UpdateMyPid, Attach, System, Destroy, Killed
<1>7. TypeOK'
  BY <1>2, <1>4, <1>5, <1>6 DEF AppInv, TypeOK
<1>8. /\ "link" \in held' => my_pid' = MainPid
      /\ pc' = "load" => held' = {}
      /\ pc' # "done" => status' = -1
      /\ pc' = "attach" => my_pid' = MainPid
  BY DEF AppInv, OpenAndLoad, UpdateMyPid, Attach, System, Destroy, Killed
<1>9. ReleasedAndReported'
  BY <1>5 DEF AppInv, ReleasedAndReported, OpenAndLoad, UpdateMyPid, Attach, System, Destroy, Killed
<1> QED
  BY <1>3, <1>4, <1>7, <1>8, <1>9 DEF AppInv

(* A thread step that leaves execs alone and enters the program only by     *)
(* calling execve.                                                          *)
LEMMA AppThread ==
  ASSUME AppInv, NEW id \in Ids,
         Execve(id) \/ ThreadEnd(id) \/ ThreadStart(id)
  PROVE  AppInv'
<1>1. /\ execs' = execs /\ UNCHANGED mainVars
      /\ \E p \in {"insert", "dead", "user"} : at' = [at EXCEPT ![id] = p]
      /\ at[id] \notin Inside
  BY DEF Execve, ThreadEnd, ThreadStart, Goto, Inside
<1>2. /\ my_pid' = my_pid /\ pc' = pc /\ err' = err /\ held' = held /\ status' = status
  BY <1>1 DEF mainVars
<1>3. at \in [Ids -> Places] /\ call \in [Ids -> Nat] /\ mine \in [Ids -> {0, MainPid}]
  BY DEF AppInv, TypeOK
<1>4. /\ \A i \in Ids : i # id => at'[i] = at[i]
      /\ at'[id] \notin Inside
      /\ at' \in [Ids -> Places]
  BY <1>1, <1>3 DEF Inside, Places
<1>5. /\ call' \in [Ids -> Nat] /\ calls' \in Nat /\ mine' \in [Ids -> {0, MainPid}]
      /\ \A i \in Ids : i # id => call'[i] = call[i] /\ mine'[i] = mine[i]
  BY <1>3 DEF AppInv, TypeOK, Execve, ThreadEnd, ThreadStart
<1>6. TypeOK'
  BY <1>1, <1>2, <1>4, <1>5 DEF AppInv, TypeOK
<1>7. TidsUnique'
  <2>1. CASE ThreadStart(id)
    <3>1. \A i \in Live' : i = id \/ i \in Live
      BY <1>4 DEF Live
    <3>2. /\ \A j \in Live : Tid(id) # Tid(j) /\ Tid(id) # Tgid(j)
          /\ Tid(id) = Tgid(id) \/ \E j \in Live : Tgid(j) = Tgid(id)
      BY <2>1 DEF ThreadStart
    <3>3. \A j \in Live : Tgid(j) # Tgid(id) => Tid(j) # Tgid(id)
      BY <3>2 DEF AppInv, TidsUnique
    <3> QED
      BY <3>1, <3>2, <3>3 DEF AppInv, TidsUnique
  <2>2. CASE Execve(id) \/ ThreadEnd(id)
    <3>1. Live' \subseteq Live
      BY <1>4, <2>2 DEF Live, Execve, ThreadEnd
    <3> QED
      BY <3>1 DEF AppInv, TidsUnique
  <2> QED
    BY <2>1, <2>2
<1>8. ElementsInUse'
  <2>1. Keys(execs)' = Keys(execs)
    BY <1>1 DEF Keys
  <2>2. \A i \in Ids : at[i] \in Inside => at'[i] \in Inside
    BY <1>1, <1>4
  <2> QED
    BY <2>1, <2>2 DEF AppInv, ElementsInUse
<1>9. PrintsOwnEvent'
  <2>1. "delete" \in Inside
    BY DEF Inside
  <2> QED
    BY <1>1, <1>4, <1>5, <2>1 DEF AppInv, PrintsOwnEvent
<1>10. Called'
  <2>1. CASE Execve(id)
    BY <1>3, <1>4, <1>5, <2>1 DEF AppInv, TypeOK, Called, Execve
  <2>2. CASE ThreadEnd(id) \/ ThreadStart(id)
    BY <1>3, <1>4, <1>5, <2>2 DEF AppInv, Called, ThreadEnd, ThreadStart, Goto
  <2> QED
    BY <2>1, <2>2
<1> QED
  BY <1>2, <1>6, <1>7, <1>8, <1>9, <1>10 DEF AppInv, ReleasedAndReported

(* BPF_NOEXIST never meets an element of an earlier call.                   *)
NoStaleElement ==
  \A id \in Ids : at[id] = "insert" => execs[Tid(id)] = Absent

(* The owner of an element is inside the program, and tids are unique.      *)
LEMMA AppNoStale == AppInv => NoStaleElement
<1> SUFFICES ASSUME AppInv, NEW id \in Ids, at[id] = "insert", execs[Tid(id)] # Absent
             PROVE  FALSE
  BY DEF NoStaleElement
<1>1. Tid(id) \in Keys(execs)
  BY TidKey DEF AppInv, TypeOK, Keys
<1>2. PICK i \in Ids : Tid(i) = Tid(id) /\ at[i] \in Inside
  BY <1>1 DEF AppInv, ElementsInUse
<1> QED
  BY <1>2 DEF AppInv, TidsUnique, Live, Inside

(* A step of the program changes the element of its own tid only.           *)
LEMMA AppProgram ==
  ASSUME AppInv, NEW id \in Ids, Program(id)
  PROVE  AppInv'
<1>1. /\ call' = call /\ calls' = calls /\ mine' = mine /\ UNCHANGED mainVars
      /\ at[id] \in {"insert"} \cup Inside
      /\ \E p \in {"user"} \cup Inside : at' = [at EXCEPT ![id] = p]
  BY DEF Program, Insert, Lookup, Fill, Delete, Goto, Inside
<1>2. /\ my_pid' = my_pid /\ pc' = pc /\ err' = err /\ held' = held /\ status' = status
  BY <1>1 DEF mainVars
<1>3. /\ at \in [Ids -> Places] /\ call \in [Ids -> Nat]
      /\ execs \in [Tids -> Int] /\ Tid(id) \in Tids
      /\ call[id] # 0 /\ (at[id] = "insert" => execs[Tid(id)] = Absent)
  BY <1>1, TidKey, AppNoStale DEF AppInv, TypeOK, Called, NoStaleElement
<1>4. /\ \A i \in Ids : i # id => at'[i] = at[i]
      /\ at'[id] \in {"user"} \cup Inside
      /\ at' \in [Ids -> Places]
  BY <1>1, <1>3 DEF Inside, Places
<1>5. Live' = Live /\ id \in Live
  BY <1>1, <1>4 DEF Live, Inside
<1>6. \A i \in Ids : i # id /\ at[i] \in Inside => Tid(i) # Tid(id)
  <2>1. \A i \in Ids : at[i] \in Inside => i \in Live
    BY DEF Live, Inside
  <2> QED
    BY <1>5, <2>1 DEF AppInv, TidsUnique
<1>7. /\ execs' \in [Tids -> Int]
      /\ \A k \in Tids : k # Tid(id) => execs'[k] = execs[k]
      /\ at'[id] \in Inside => execs'[Tid(id)] # Absent
      /\ at'[id] = "delete" => execs'[Tid(id)] = call[id]
      /\ execs'[Tid(id)] # Absent => at'[id] \in Inside
  <2>1. CASE Insert(id)
    <3>1. CASE execs' = [execs EXCEPT ![Tid(id)] = Zeroed] /\ Goto(id, "lookup")
      BY <1>3, <3>1 DEF Goto, Zeroed, Absent, Inside
    <3>2. CASE ~CanInsert(execs, Tid(id), ExecsMax) /\ Goto(id, "user") /\ execs' = execs
      BY <1>3, <2>1, <3>2 DEF Insert, Goto, Inside
    <3> QED
      BY <2>1, <3>1, <3>2 DEF Insert, Key
  <2>2. CASE Lookup(id)
    BY <1>3, <2>2 DEF Lookup, Key, Goto, Inside
  <2>3. CASE Fill(id)
    BY <1>3, <2>3 DEF Fill, Key, Goto, Inside, Absent
  <2>4. CASE Delete(id)
    BY <1>3, <2>4 DEF Delete, DeleteElem, Key, Goto, Absent, Inside
  <2> QED
    BY <2>1, <2>2, <2>3, <2>4 DEF Program
<1>8. TypeOK'
  BY <1>1, <1>2, <1>4, <1>7 DEF AppInv, TypeOK
<1>9. TidsUnique'
  BY <1>5 DEF AppInv, TidsUnique
<1>10. ElementsInUse'
  <2> SUFFICES ASSUME NEW k \in Tids, execs'[k] # Absent
               PROVE  \E i \in Ids : Tid(i) = k /\ at'[i] \in Inside
    BY <1>7 DEF ElementsInUse, Keys
  <2>1. CASE k = Tid(id)
    BY <1>7, <2>1
  <2>2. CASE k # Tid(id)
    <3>1. PICK i \in Ids : Tid(i) = k /\ at[i] \in Inside
      BY <1>3, <1>7, <2>2 DEF AppInv, ElementsInUse, Keys
    <3> QED
      BY <1>4, <2>2, <3>1
  <2> QED
    BY <2>1, <2>2
<1>11. PrintsOwnEvent'
  <2>1. "delete" \in Inside
    BY DEF Inside
  <2> QED
    BY <1>1, <1>4, <1>6, <1>7, <2>1, TidKey DEF AppInv, PrintsOwnEvent
<1>12. Called'
  BY <1>1, <1>4 DEF AppInv, Called, Inside
<1> QED
  BY <1>2, <1>8, <1>9, <1>10, <1>11, <1>12 DEF AppInv, ReleasedAndReported

(* Every step of the threads and of main keeps the inductive invariant.     *)
LEMMA AppStep == AppInv /\ [Next]_vars => AppInv'
<1> SUFFICES ASSUME AppInv, [Next]_vars PROVE AppInv'
  OBVIOUS
<1>1. ASSUME NEW id \in Ids, Execve(id) \/ ThreadEnd(id) \/ ThreadStart(id)
      PROVE  AppInv'
  BY <1>1, AppThread
<1>2. ASSUME NEW id \in Ids, Program(id)
      PROVE  AppInv'
  BY <1>2, AppProgram
<1>3. CASE OpenAndLoad \/ UpdateMyPid \/ Attach \/ System \/ Destroy \/ Killed
  BY <1>3, AppMain
<1>4. CASE UNCHANGED vars
  BY <1>4 DEF vars, progVars, mainVars, AppInv, TypeOK, TidsUnique, Live, ElementsInUse,
     Keys, PrintsOwnEvent, Called, ReleasedAndReported
<1> QED
  BY <1>1, <1>2, <1>3, <1>4 DEF Next

(* All reachable states satisfy the inductive invariant.                    *)
LEMMA AppInvariant == Spec => []AppInv
BY AppInit, AppStep, PTL DEF Spec

(* A scratch element exists only while the program that made it runs.       *)
THEOREM ElementsHeld == Spec => []ElementsInUse
<1>1. AppInv => ElementsInUse
  BY DEF AppInv
<1> QED
  BY <1>1, AppInvariant, PTL

(* The keys of execs are the tids of the threads inside the program.        *)
LEMMA KeysInside ==
  ASSUME AppInv
  PROVE  /\ Keys(execs) = {Tid(j) : j \in {i \in Ids : at[i] \in Inside}}
         /\ Cardinality(Keys(execs)) \in Nat
<1> DEFINE In == {i \in Ids : at[i] \in Inside}
           T == {Tid(j) : j \in In}
<1>1. Keys(execs) \subseteq T
  BY DEF AppInv, ElementsInUse
<1>2. T \subseteq Keys(execs)
  BY TidKey DEF AppInv, TypeOK, PrintsOwnEvent, Keys
<1>3. IsFiniteSet(In)
  BY AppAssumption, FS_Subset
<1>4. IsFiniteSet(T)
  <2> DEFINE f == [i \in In |-> Tid(i)]
  <2>1. f \in Surjection(In, T)
    BY DEF Surjection
  <2> QED
    BY <1>3, <2>1, FS_Surjection
<1> QED
  BY <1>1, <1>2, <1>4, FS_CardinalityType

(* A call is refused only while execs is full of the events of ExecsMax     *)
(* other threads that are inside the program.                               *)
THEOREM RefusedWhenFull == Spec => RefusedOnlyWhenFull
<1> DEFINE Tds == {Tid(j) : j \in {i \in Ids : at[i] \in Inside}}
           A == \A id \in Ids : at[id] = "insert" /\ at'[id] = "user" =>
                  Cardinality(Tds) >= ExecsMax
<1>1. AppInv /\ [Next]_vars => [A]_vars
  <2> SUFFICES ASSUME AppInv, Next, NEW id \in Ids, at[id] = "insert", at'[id] = "user"
               PROVE  Cardinality(Tds) >= ExecsMax
    OBVIOUS
  <2>1. at \in [Ids -> Places]
    BY DEF AppInv, TypeOK
  <2>2. ~CanInsert(execs, Tid(id), ExecsMax)
    <3>1. ASSUME NEW i \in Ids, Execve(i) \/ Program(i) \/ ThreadEnd(i) \/ ThreadStart(i)
          PROVE  i = id /\ Insert(id)
      <4>1. i = id
        BY <2>1, <3>1 DEF Execve, Program, Insert, Lookup, Fill, Delete, ThreadEnd, ThreadStart, Goto
      <4> QED
        BY <3>1, <4>1 DEF Execve, Program, Insert, Lookup, Fill, Delete, ThreadEnd, ThreadStart
    <3>2. Insert(id)
      BY <3>1 DEF Next, OpenAndLoad, UpdateMyPid, Attach, System, Destroy, Killed, progVars
    <3> QED
      BY <2>1, <3>2 DEF Insert, Goto, Key
  <2>3. execs[Tid(id)] = Absent
    BY AppNoStale DEF NoStaleElement
  <2>4. ~(Cardinality(Keys(execs)) < ExecsMax)
    BY <2>2, <2>3 DEF CanInsert
  <2>5. Keys(execs) = Tds /\ Cardinality(Keys(execs)) \in Nat
    BY KeysInside
  <2> QED
    BY <2>4, <2>5, AppAssumption
<1>2. [][A]_vars => RefusedOnlyWhenFull
  BY DEF RefusedOnlyWhenFull
<1> QED
  BY <1>1, <1>2, AppInvariant, PTL DEF Spec

(* What the program prints through its pointer is the event of its own      *)
(* call, with any number of threads over a map of any size.                 *)
THEOREM ScratchElements == Spec => []PrintsOwnEvent
<1>1. AppInv => PrintsOwnEvent
  BY DEF AppInv
<1> QED
  BY <1>1, AppInvariant, PTL

(* The program never runs before it knows the pid of main.                  *)
THEOREM PidFirst == Spec => []MyPidKnown
<1>1. AppInv => MyPidKnown
  BY DEF AppInv, Called, MyPidKnown
<1> QED
  BY <1>1, AppInvariant, PTL

(* main releases everything and reports every failure, whatever error       *)
(* number the library returns.                                              *)
THEOREM MainOrder == Spec => [](TypeOK /\ ReleasedAndReported)
<1>1. AppInv => TypeOK /\ ReleasedAndReported
  BY DEF AppInv
<1> QED
  BY <1>1, AppInvariant, PTL
=============================================================================
