--------------------------- MODULE RegistryProofs ---------------------------
(***************************************************************************)
(* Proofs about Registry, for any set of goroutines and any bounds.        *)
(*                                                                         *)
(* That no request escapes PreWalk rests on the lock (LockInv), on what    *)
(* the goroutines see of configureStarted (StartedInv) and on the prefix   *)
(* of the slice that the loop has walked (WalkInv).  What the OnStart      *)
(* callbacks see rests on the prefix that the other loop has filled        *)
(* (FillInv).                                                              *)
(***************************************************************************)
EXTENDS Registry, TLAPS

(* Whoever is between append and unlock holds the lock; while Main waits   *)
(* for it, Configure stays where it is.                                    *)
LockInv ==
  /\ \A g \in Goroutines : call[g] = "appended" <=> lock = g
  /\ lock # NoOne => Len(requests) > 0
  /\ call[Main] # "idle" => conf \in Outside \cup Callback \cup {"subRequest"}

(* From its first use of the lock on, Configure has published started. *)
StartedInv ==
  /\ published => started
  /\ conf \notin Outside => started
  /\ conf \notin Outside \cup {"begin"} => published

(* The walk has been through a prefix of the requests. *)
WalkInv ==
  /\ conf \in Walking => \A r \in 1..(i - 1) : Examined(r)
  /\ conf = "walk" => i <= Len(requests)

(* The fill has been through a prefix of the requests. *)
FillInv ==
  /\ conf \in {"begin"} \cup Walking \cup Parsing => filled = {}
  /\ conf \in Filling => filled = 1..(i - 1)
  /\ conf \in {"fillStart", "filling", "validate"} => i <= Len(requests) /\ Examined(i)

IInv ==
  /\ TypeOK
  /\ LockInv
  /\ StartedInv
  /\ WalkInv
  /\ NoneEscapesPreWalk
  /\ FillInv
  /\ StartSeesAllFilled
-----------------------------------------------------------------------------
LEMMA InitIInv == Init => IInv
<1> SUFFICES ASSUME Init PROVE IInv
  OBVIOUS
<1> USE DEF Init
<1>1. Len(requests) = 0 /\ DOMAIN requests = {}
  OBVIOUS
<1>2. TypeOK
  <2>1. requests \in Seq(Models)
    OBVIOUS
  <2>2. call \in [Goroutines -> {"idle", "waiting", "appended"}]
    OBVIOUS
  <2>3. i \in 1..(Len(requests) + 1)
    BY <1>1
  <2> QED
    BY <1>1, <2>1, <2>2, <2>3 DEF TypeOK, Locations, Outside
<1>3. LockInv
  BY GoroutineAssumption DEF LockInv, Goroutines
<1>4. StartedInv /\ WalkInv /\ FillInv
  BY DEF StartedInv, WalkInv, FillInv, Outside, Walking, Filling, Parsing
<1>5. NoneEscapesPreWalk /\ StartSeesAllFilled
  BY <1>1 DEF NoneEscapesPreWalk, StartSeesAllFilled
<1> QED
  BY <1>2, <1>3, <1>4, <1>5 DEF IInv

(* The state is well typed after every step. *)
LEMMA TypeStep == IInv /\ [Next]_vars => TypeOK'
<1> USE DEF IInv, TypeOK, Locations, Outside, Walking, Filling, AfterWalk, Parsing,
            Callback, Models, requestVars, loopVars
<1> SUFFICES ASSUME IInv, [Next]_vars PROVE TypeOK'
  OBVIOUS
<1>0. CASE \E g \in Goroutines : RequestCall(g)
  BY <1>0 DEF RequestCall
<1>1. CASE \E g \in Goroutines, model \in Models : RequestAppend(g, model)
  BY <1>1 DEF RequestAppend
<1>2. CASE \E g \in Goroutines : RequestFinish(g)
  <2> PICK g \in Goroutines : RequestFinish(g)
    BY <1>2
  <2> USE DEF RequestFinish
  <2>1. lock # NoOne
    BY GoroutineAssumption DEF LockInv, Goroutines
  <2>2. Len(requests) \in DOMAIN requests
    BY <2>1 DEF LockInv
  <2>3. PICK s \in Sees(g) : IF s THEN PreWalk(Len(requests)) ELSE UNCHANGED <<walked, broken>>
    OBVIOUS
  <2>4. walked' \subseteq DOMAIN requests /\ broken' \subseteq DOMAIN requests
    BY <2>2, <2>3 DEF PreWalk
  <2>5. conf' \in Locations /\ result' \in {"none", "ok", "error", "internal"}
    OBVIOUS
  <2> QED
    BY <2>4, <2>5
<1>3. CASE ConfigureBegin
  BY <1>3 DEF ConfigureBegin
<1>4. CASE ConfigureLock
  BY <1>4 DEF ConfigureLock
<1>5. CASE WalkCheck
  BY <1>5 DEF WalkCheck
<1>6. CASE Walk
  BY <1>6 DEF Walk, PreWalk, WalkInv
<1>7. CASE ActivateReturns
  BY <1>7 DEF ActivateReturns, Fail
<1>8. CASE SelectSubcommand
  BY <1>8 DEF SelectSubcommand
<1>9. CASE ParseEnds
  BY <1>9 DEF ParseEnds, Fail
<1>10. CASE FillCheck
  BY <1>10 DEF FillCheck
<1>11. CASE FillStart
  BY <1>11 DEF FillStart
<1>12. CASE FillEnd \/ GetValidator
  BY <1>12 DEF FillEnd, GetValidator, FillDone, Fail, FillInv
<1>13. CASE StartReturns
  BY <1>13 DEF StartReturns, Fail
<1>14. CASE UNCHANGED vars
  BY <1>14 DEF vars
<1> QED
  BY <1>0, <1>1, <1>2, <1>3, <1>4, <1>5, <1>6, <1>7, <1>8, <1>9, <1>10, <1>11, <1>12, <1>13,
     <1>14 DEF Next, ConfigureStep

(* Requests are only added: what has been examined stays examined. *)
LEMMA StepGrows ==
  ASSUME IInv, [Next]_vars
  PROVE  /\ Len(requests') >= Len(requests)
         /\ walked \subseteq walked' /\ broken \subseteq broken'
<1> USE DEF IInv, TypeOK, requestVars, PreWalk
<1>0. CASE \E g \in Goroutines : RequestCall(g)
  BY <1>0 DEF RequestCall
<1>1. CASE \E g \in Goroutines, model \in Models : RequestAppend(g, model)
  BY <1>1 DEF RequestAppend
<1>2. CASE \E g \in Goroutines : RequestFinish(g)
  BY <1>2 DEF RequestFinish
<1>3. CASE ConfigureBegin \/ ConfigureLock \/ WalkCheck \/ Walk
  BY <1>3 DEF ConfigureBegin, ConfigureLock, WalkCheck, Walk
<1>4. CASE ActivateReturns \/ SelectSubcommand \/ ParseEnds
  BY <1>4 DEF ActivateReturns, SelectSubcommand, ParseEnds, Fail
<1>5. CASE FillCheck \/ FillStart \/ FillEnd \/ GetValidator \/ StartReturns
  BY <1>5 DEF FillCheck, FillStart, FillEnd, GetValidator, FillDone, StartReturns, Fail
<1>6. CASE UNCHANGED vars
  BY <1>6 DEF vars
<1> QED
  BY <1>0, <1>1, <1>2, <1>3, <1>4, <1>5, <1>6 DEF Next, ConfigureStep

(* The lock is taken by RequestAppend and released by RequestFinish only;  *)
(* Main stays where it is while its own Request runs.                      *)
LEMMA LockStep ==
  ASSUME IInv, [Next]_vars
  PROVE  LockInv'
<1> USE GoroutineAssumption
    DEF IInv, LockInv, Goroutines, Outside, Callback, requestVars, loopVars
<1>0. CASE \E g \in Goroutines : RequestCall(g)
  BY <1>0 DEF RequestCall, ForSubcommand, TypeOK
<1>1. CASE \E g \in Goroutines, model \in Models : RequestAppend(g, model)
  <2> PICK g \in Goroutines, model \in Models : RequestAppend(g, model)
    BY <1>1
  <2> USE DEF RequestAppend
  <2>1. \A h \in Goroutines : call'[h] = "appended" <=> lock' = h
    BY DEF TypeOK
  <2>2. Len(requests') > 0
    BY DEF TypeOK
  <2>3. call'[Main] = "appended" => conf' \in Outside \cup Callback \cup {"subRequest"}
    BY DEF TypeOK
  <2> QED
    BY <2>1, <2>2, <2>3
<1>2. CASE \E g \in Goroutines : RequestFinish(g)
  <2> PICK g \in Goroutines : RequestFinish(g)
    BY <1>2
  <2>1. \A h \in Goroutines : call'[h] # "appended"
    BY DEF RequestFinish, TypeOK
  <2> QED
    BY <2>1 DEF RequestFinish
<1>3. CASE ConfigureBegin \/ ConfigureLock \/ WalkCheck \/ Walk
  BY <1>3 DEF ConfigureBegin, ConfigureLock, WalkCheck, Walk, MainRuns
<1>4. CASE ActivateReturns \/ SelectSubcommand \/ ParseEnds
  BY <1>4 DEF ActivateReturns, SelectSubcommand, ParseEnds, Fail, MainRuns
<1>5. CASE FillCheck \/ FillStart \/ FillEnd \/ GetValidator \/ StartReturns
  BY <1>5 DEF FillCheck, FillStart, FillEnd, GetValidator, FillDone, StartReturns, Fail, MainRuns
<1>6. CASE UNCHANGED vars
  BY <1>6 DEF vars
<1> QED
  BY <1>0, <1>1, <1>2, <1>3, <1>4, <1>5, <1>6 DEF Next, ConfigureStep

(* configureStarted is never reset. *)
LEMMA StartedStep ==
  ASSUME IInv, [Next]_vars
  PROVE  StartedInv'
<1> USE DEF IInv, StartedInv, Outside, requestVars, loopVars
<1>0. CASE \E g \in Goroutines : RequestCall(g)
  BY <1>0 DEF RequestCall
<1>1. CASE \E g \in Goroutines, model \in Models : RequestAppend(g, model)
  BY <1>1 DEF RequestAppend
<1>2. CASE \E g \in Goroutines : RequestFinish(g)
  BY <1>2 DEF RequestFinish, ForSubcommand
<1>3. CASE ConfigureBegin \/ ConfigureLock \/ WalkCheck \/ Walk
  BY <1>3 DEF ConfigureBegin, ConfigureLock, WalkCheck, Walk
<1>4. CASE ActivateReturns \/ SelectSubcommand \/ ParseEnds
  BY <1>4 DEF ActivateReturns, SelectSubcommand, ParseEnds, Fail
<1>5. CASE FillCheck \/ FillStart \/ FillEnd \/ GetValidator \/ StartReturns
  BY <1>5 DEF FillCheck, FillStart, FillEnd, GetValidator, FillDone, StartReturns, Fail
<1>6. CASE UNCHANGED vars
  BY <1>6 DEF vars
<1> QED
  BY <1>0, <1>1, <1>2, <1>3, <1>4, <1>5, <1>6 DEF Next, ConfigureStep

(* The walk leaves no hole behind its index. *)
LEMMA WalkStep ==
  ASSUME IInv, [Next]_vars
  PROVE  WalkInv'
<1> USE DEF IInv, TypeOK, WalkInv, Walking, Examined, Outside, requestVars, loopVars
<1>0. CASE \E g \in Goroutines : RequestCall(g)
  BY <1>0 DEF RequestCall
<1>1. CASE \E g \in Goroutines, model \in Models : RequestAppend(g, model)
  BY <1>1 DEF RequestAppend
<1>2. CASE \E g \in Goroutines : RequestFinish(g)
  <2>1. walked \subseteq walked' /\ broken \subseteq broken'
    BY StepGrows
  <2> QED
    BY <1>2, <2>1 DEF RequestFinish, ForSubcommand
<1>3. CASE ConfigureBegin \/ ConfigureLock \/ WalkCheck
  BY <1>3 DEF ConfigureBegin, ConfigureLock, WalkCheck
<1>4. CASE Walk
  <2>1. walked \subseteq walked' /\ broken \subseteq broken'
    BY StepGrows
  <2>2. conf' # "walk"
    BY <1>4 DEF Walk
  <2>3. CASE conf' = "walkCheck"
    <3>1. i' - 1 = i
      BY <1>4, <2>3 DEF Walk
    <3>2. \A r \in 1..i : r = i \/ r \in 1..(i - 1)
      OBVIOUS
    <3>3. \A r \in 1..i : r \in walked' \cup broken'
      BY <1>4, <2>1, <3>2 DEF Walk, PreWalk
    <3> QED
      BY <2>2, <3>1, <3>3
  <2>4. CASE conf' # "walkCheck"
    BY <2>2, <2>4
  <2> QED
    BY <2>3, <2>4
<1>5. CASE ActivateReturns \/ SelectSubcommand \/ ParseEnds
  BY <1>5 DEF ActivateReturns, SelectSubcommand, ParseEnds, Fail
<1>6. CASE FillCheck \/ FillStart \/ FillEnd \/ GetValidator \/ StartReturns
  BY <1>6 DEF FillCheck, FillStart, FillEnd, GetValidator, FillDone, StartReturns, Fail
<1>7. CASE UNCHANGED vars
  BY <1>7 DEF vars
<1> QED
  BY <1>0, <1>1, <1>2, <1>3, <1>4, <1>5, <1>6, <1>7 DEF Next, ConfigureStep

(* The heart of it.  When the walk ends, the lock is free and the index is *)
(* past the last request.  From then on a goroutine that registers one     *)
(* sees configureStarted, and it walks its request before it unlocks.      *)
LEMMA EscapeStep ==
  ASSUME IInv, [Next]_vars
  PROVE  NoneEscapesPreWalk'
<1> USE DEF IInv, TypeOK, NoneEscapesPreWalk, Examined, InProgress, AfterWalk, Parsing,
            Filling, requestVars, loopVars
<1>0. CASE \E g \in Goroutines : RequestCall(g)
  BY <1>0 DEF RequestCall
<1>1. CASE \E g \in Goroutines, model \in Models : RequestAppend(g, model)
  <2> SUFFICES ASSUME conf' \in AfterWalk, NEW r \in DOMAIN requests'
               PROVE  Examined(r)' \/ InProgress(r)'
    OBVIOUS
  <2> PICK g \in Goroutines, model \in Models : RequestAppend(g, model)
    BY <1>1
  <2>1. lock = NoOne /\ lock' # NoOne /\ Len(requests') = Len(requests) + 1
    BY GoroutineAssumption DEF RequestAppend, Goroutines
  <2>2. CASE r = Len(requests')
    BY <2>1, <2>2
  <2>3. CASE r # Len(requests')
    <3>1. r \in DOMAIN requests
      BY <2>1, <2>3 DEF RequestAppend
    <3> QED
      BY <2>1, <3>1 DEF RequestAppend
  <2> QED
    BY <2>2, <2>3
<1>2. CASE \E g \in Goroutines : RequestFinish(g)
  <2> SUFFICES ASSUME conf' \in AfterWalk, NEW r \in DOMAIN requests'
               PROVE  Examined(r)'
    OBVIOUS
  <2> PICK g \in Goroutines : RequestFinish(g)
    BY <1>2
  <2>1. conf \in AfterWalk /\ r \in DOMAIN requests
    BY DEF RequestFinish, ForSubcommand
  <2>2. PreWalk(Len(requests))
    <3>1. started /\ published
      BY <2>1 DEF StartedInv, Outside
    <3>2. Sees(g) = {TRUE}
      BY <3>1 DEF Sees
    <3> QED
      BY <3>2 DEF RequestFinish
  <2>3. CASE r = Len(requests)
    BY <2>2, <2>3 DEF PreWalk
  <2>4. CASE r # Len(requests)
    BY <2>1, <2>4, StepGrows
  <2> QED
    BY <2>3, <2>4
<1>3. CASE ConfigureBegin \/ ConfigureLock \/ Walk
  BY <1>3 DEF ConfigureBegin, ConfigureLock, Walk
<1>4. CASE WalkCheck
  BY <1>4 DEF WalkCheck, WalkInv, Walking
<1>5. CASE ActivateReturns \/ SelectSubcommand \/ ParseEnds
  BY <1>5 DEF ActivateReturns, SelectSubcommand, ParseEnds, Fail
<1>6. CASE FillCheck \/ FillStart \/ FillEnd \/ GetValidator \/ StartReturns
  BY <1>6 DEF FillCheck, FillStart, FillEnd, GetValidator, FillDone, StartReturns, Fail
<1>7. CASE UNCHANGED vars
  BY <1>7 DEF vars
<1> QED
  BY <1>0, <1>1, <1>2, <1>3, <1>4, <1>5, <1>6, <1>7 DEF Next, ConfigureStep

(* The fill leaves no hole behind its index, and what it begins has been   *)
(* examined: no request is in progress when FillCheck has the lock.        *)
LEMMA FillStep ==
  ASSUME IInv, [Next]_vars
  PROVE  FillInv'
<1> USE DEF IInv, TypeOK, FillInv, Filling, Walking, Parsing, Examined, Outside, requestVars, loopVars
<1>0. CASE \E g \in Goroutines : RequestCall(g)
  BY <1>0 DEF RequestCall
<1>1. CASE \E g \in Goroutines, model \in Models : RequestAppend(g, model)
  BY <1>1 DEF RequestAppend
<1>2. CASE \E g \in Goroutines : RequestFinish(g)
  <2>1. walked \subseteq walked' /\ broken \subseteq broken'
    BY StepGrows
  <2> QED
    BY <1>2, <2>1 DEF RequestFinish, ForSubcommand
<1>3. CASE ConfigureBegin \/ ConfigureLock \/ WalkCheck \/ Walk
  BY <1>3 DEF ConfigureBegin, ConfigureLock, WalkCheck, Walk
<1>4. CASE ActivateReturns \/ SelectSubcommand
  BY <1>4 DEF ActivateReturns, SelectSubcommand, Fail
<1>5. CASE ParseEnds
  <2>1. CASE conf' = "fillCheck"
    <3>1. filled' = {} /\ i' = 1
      BY <1>5, <2>1 DEF ParseEnds, Fail
    <3>2. 1..(1 - 1) = {}
      OBVIOUS
    <3> QED
      BY <2>1, <3>1, <3>2
  <2>2. CASE conf' # "fillCheck"
    BY <1>5, <2>2 DEF ParseEnds, Fail
  <2> QED
    BY <2>1, <2>2
<1>6. CASE FillCheck
  <2>1. \A r \in DOMAIN requests : Examined(r)
    BY <1>6 DEF FillCheck, NoneEscapesPreWalk, InProgress, AfterWalk
  <2>2. conf' = "fillStart" => i <= Len(requests)
    BY <1>6 DEF FillCheck
  <2>3. conf' \in {"fillStart", "start"} /\ filled = 1..(i - 1)
    BY <1>6 DEF FillCheck
  <2>4. UNCHANGED <<requests, filled, i, walked, broken>>
    BY <1>6 DEF FillCheck
  <2> QED
    BY <2>1, <2>2, <2>3, <2>4
<1>7. CASE FillStart \/ StartReturns
  BY <1>7 DEF FillStart, StartReturns, Fail
<1>8. CASE FillEnd \/ GetValidator
  <2>1. CASE conf' = "fillCheck"
    <3>1. filled' = filled \cup {i} /\ i' = i + 1 /\ filled = 1..(i - 1)
      BY <1>8, <2>1 DEF FillEnd, GetValidator, FillDone, Fail
    <3>2. (1..(i - 1)) \cup {i} = 1..i
      OBVIOUS
    <3> QED
      BY <2>1, <3>1, <3>2
  <2>2. CASE conf' # "fillCheck"
    BY <1>8, <2>2 DEF FillEnd, GetValidator, FillDone, Fail
  <2> QED
    BY <2>1, <2>2
<1>9. CASE UNCHANGED vars
  BY <1>9 DEF vars
<1> QED
  BY <1>0, <1>1, <1>2, <1>3, <1>4, <1>5, <1>6, <1>7, <1>8, <1>9 DEF Next, ConfigureStep

(* The callbacks begin when the index is past the last request; what is    *)
(* registered while they run is late.                                      *)
LEMMA StartStep ==
  ASSUME IInv, [Next]_vars
  PROVE  StartSeesAllFilled'
<1> USE DEF IInv, TypeOK, StartSeesAllFilled, Outside, requestVars, loopVars
<1>0. CASE \E g \in Goroutines : RequestCall(g)
  BY <1>0 DEF RequestCall
<1>1. CASE \E g \in Goroutines, model \in Models : RequestAppend(g, model)
  BY <1>1 DEF RequestAppend
<1>2. CASE \E g \in Goroutines : RequestFinish(g)
  BY <1>2 DEF RequestFinish, ForSubcommand
<1>3. CASE ConfigureBegin \/ ConfigureLock \/ WalkCheck \/ Walk
  BY <1>3 DEF ConfigureBegin, ConfigureLock, WalkCheck, Walk
<1>4. CASE ActivateReturns \/ SelectSubcommand \/ ParseEnds
  BY <1>4 DEF ActivateReturns, SelectSubcommand, ParseEnds, Fail
<1>5. CASE FillCheck
  BY <1>5 DEF FillCheck, FillInv, Filling
<1>6. CASE FillStart \/ FillEnd \/ GetValidator \/ StartReturns
  BY <1>6 DEF FillStart, FillEnd, GetValidator, FillDone, StartReturns, Fail
<1>7. CASE UNCHANGED vars
  BY <1>7 DEF vars
<1> QED
  BY <1>0, <1>1, <1>2, <1>3, <1>4, <1>5, <1>6, <1>7 DEF Next, ConfigureStep
-----------------------------------------------------------------------------
THEOREM Inductive == Spec => []IInv
<1>1. Init => IInv
  BY InitIInv
<1>2. IInv /\ [Next]_vars => IInv'
  BY TypeStep, LockStep, StartedStep, WalkStep, EscapeStep, FillStep, StartStep DEF IInv
<1> QED
  BY <1>1, <1>2, PTL DEF Spec

(* The state of the registry and of Configure's loops stays well typed;    *)
(* the loops never index past the end of the slice (registry.go:199, 217). *)
THEOREM TypeCorrect == Spec => []TypeOK
<1>1. IInv => TypeOK
  BY DEF IInv
<1> QED
  BY <1>1, Inductive, PTL

(* Whatever the goroutines do, once the walk is over every request has     *)
(* been through PreWalk or is in the hands of the goroutine that holds the *)
(* lock to register it (registry.go:197-205, request.go:53-66).            *)
THEOREM PreWalkComplete == Spec => []NoneEscapesPreWalk
<1>1. IInv => NoneEscapesPreWalk
  BY DEF IInv
<1> QED
  BY <1>1, Inductive, PTL

(* The fill works only on requests that have been through PreWalk          *)
(* (registry.go:217-223).                                                  *)
THEOREM FillAfterPreWalk == Spec => []WalkedBeforeFill
<1>1. IInv => WalkedBeforeFill
  BY DEF IInv, TypeOK, FillInv, WalkedBeforeFill
<1> QED
  BY <1>1, Inductive, PTL

(* The OnStart callbacks find every request filled that was not registered *)
(* while they run (registry.go:217-234).                                   *)
THEOREM StartAfterFill == Spec => []StartSeesAllFilled
<1>1. IInv => StartSeesAllFilled
  BY DEF IInv
<1> QED
  BY <1>1, Inductive, PTL
-----------------------------------------------------------------------------
(* RegistryContract.  Each conjunct says what Phase is where an action is, *)
(* and what the index has come to at the end of a loop.                    *)
LEMMA PhaseOf ==
  /\ \A c \in Outside : Phase(c) = "rest"
  /\ \A c \in {"begin"} \cup Walking : Phase(c) = "collecting"
  /\ \A c \in Parsing : Phase(c) = "parsing"
  /\ \A c \in Filling : Phase(c) = "filling"
  /\ Phase("start") = "started"
BY DEF Phase, Outside, Walking, Parsing, Filling

LEMMA PhaseDistinguishes ==
  ASSUME NEW c \in Locations
  PROVE  /\ Phase(c) = "rest" <=> c \in Outside
         /\ Phase(c) = "collecting" <=> c \in {"begin"} \cup Walking
         /\ Phase(c) = "parsing" <=> c \in Parsing
BY PhaseOf DEF Locations, AfterWalk, Outside, Walking, Parsing, Filling

LEMMA LoopEnds ==
  ASSUME IInv, i > Len(requests)
  PROVE  i = Len(requests) + 1 /\ 1..(i - 1) = 1..Len(requests)
BY DEF IInv, TypeOK

LEMMA AppendRefines ==
  ASSUME IInv, NEW g \in Goroutines, NEW model \in Models, RequestAppend(g, model)
  PROVE  Contract!Register
<1>1. lock = NoOne /\ lock' = g /\ g # NoOne
  BY GoroutineAssumption DEF RequestAppend, Goroutines
<1>2. Len(requests') = Len(requests) + 1
  BY DEF RequestAppend, IInv, TypeOK
<1>3. Phase(conf') = Phase(conf) /\ UNCHANGED <<walked, broken, filled>>
  BY PhaseOf DEF RequestAppend
<1> QED
  BY <1>1, <1>2, <1>3 DEF Contract!Register

LEMMA FinishRefines ==
  ASSUME IInv, NEW g \in Goroutines, RequestFinish(g)
  PROVE  Contract!Registered
<1> DEFINE last == Len(requests)
<1>1. lock # NoOne /\ lock' = NoOne /\ UNCHANGED <<requests, filled>>
  BY GoroutineAssumption DEF IInv, LockInv, RequestFinish, Goroutines
<1>2. PICK s \in Sees(g) : IF s THEN PreWalk(last) ELSE UNCHANGED <<walked, broken>>
  BY DEF RequestFinish
<1>3. (walked \cup broken)' \in {walked \cup broken, (walked \cup broken) \cup {last}}
  BY <1>2 DEF PreWalk
<1>4. conf \notin Outside \cup {"begin"} \cup Walking
        => (walked \cup broken)' = (walked \cup broken) \cup {last}
  BY <1>2 DEF IInv, StartedInv, Sees, PreWalk
<1>5. conf' = conf \/ (conf = "subRequest" /\ conf' \in {"returned", "activate"})
  BY DEF RequestFinish, ForSubcommand
<1>6. Phase(conf') \in IF Phase(conf) = "parsing" THEN {"parsing", "rest"} ELSE {Phase(conf)}
  BY <1>5, PhaseOf DEF Parsing, Outside, Walking, IInv, TypeOK, Locations, AfterWalk, Filling
<1>7. conf \in Outside \cup {"begin"} \cup Walking <=> Phase(conf) \in {"rest", "collecting"}
  BY PhaseDistinguishes DEF IInv, TypeOK
<1> QED
  BY <1>1, <1>3, <1>4, <1>6, <1>7 DEF Contract!Registered

(* A step of Main outside Request. *)
LEMMA FailRefines ==
  ASSUME IInv, Fail, conf \notin Outside
  PROVE  Contract!Return
BY PhaseOf, PhaseDistinguishes
   DEF Fail, IInv, TypeOK, Contract!Return, Contract!Enter, requestVars, Outside

LEMMA WalkRefines ==
  ASSUME IInv, Walk
  PROVE  \E r \in Contract!Known : Contract!Examine(r)
<1>1. i \in 1..Len(requests)
  BY DEF Walk, IInv, WalkInv, TypeOK
<1>2. (walked \cup broken)' = (walked \cup broken) \cup {i}
  BY DEF Walk, PreWalk
<1>3. Phase(conf) = "collecting" /\ Phase(conf') \in {"collecting", "rest"}
  BY PhaseOf DEF Walk, Outside, Walking
<1>4. UNCHANGED <<requests, lock, filled>>
  BY DEF Walk
<1>5. Contract!Examine(i)
  BY <1>2, <1>3, <1>4 DEF Contract!Examine
<1> QED
  BY <1>1, <1>5 DEF Contract!Known

LEMMA FillRefines ==
  ASSUME IInv, FillDone, conf \in {"filling", "validate"}
  PROVE  Contract!Return \/ \E r \in Contract!Known : Contract!FillOne(r)
<1>1. conf \in {"filling", "validate"} /\ Phase(conf) = "filling"
  BY PhaseOf DEF Filling, Outside, Walking, Parsing
<1>2. CASE Fail
  BY <1>1, <1>2, FailRefines DEF Outside
<1>3. CASE conf' = "returned" /\ UNCHANGED <<requestVars, lock>>
  BY <1>1, <1>3, PhaseOf DEF requestVars, Outside, Contract!Return, Contract!Enter
<1>4. CASE conf' = "fillCheck" /\ filled' = filled \cup {i}
           /\ UNCHANGED <<requests, walked, broken, lock>>
  <2>1. i \in 1..Len(requests) /\ i \in (walked \cup broken) \ filled
    BY <1>1 DEF IInv, TypeOK, FillInv, Filling, Examined
  <2>2. Phase(conf') = "filling"
    BY <1>4, PhaseOf DEF Outside, Walking, Parsing, Filling
  <2>3. Contract!FillOne(i)
    BY <1>1, <1>4, <2>1, <2>2 DEF Contract!FillOne
  <2> QED
    BY <2>1, <2>3 DEF Contract!Known
<1> QED
  BY <1>2, <1>3, <1>4 DEF FillDone

(* Every step of the registry is a step of the contract, or none. *)
LEMMA ContractStep ==
  ASSUME IInv, [Next]_vars
  PROVE  [Contract!Next]_(Contract!vars)
<1> USE DEF Contract!Next
<1>0. CASE \E g \in Goroutines : RequestCall(g)
  BY <1>0 DEF RequestCall, requestVars, loopVars, Contract!vars
<1>1. CASE \E g \in Goroutines, model \in Models : RequestAppend(g, model)
  BY <1>1, AppendRefines
<1>2. CASE \E g \in Goroutines : RequestFinish(g)
  BY <1>2, FinishRefines
<1>3. CASE ConfigureBegin
  BY <1>3, PhaseOf DEF ConfigureBegin, Outside, Walking, Contract!Begin
<1>4. CASE ConfigureLock \/ FillStart
  BY <1>4, PhaseOf DEF ConfigureLock, FillStart, Outside, Walking, Parsing, Filling,
              requestVars, loopVars, Contract!vars
<1>5. CASE WalkCheck
  <2>1. UNCHANGED <<requestVars, lock>> /\ conf = "walkCheck" /\ lock = NoOne
    BY <1>5 DEF WalkCheck
  <2>2. CASE i <= Len(requests)
    BY <1>5, <2>1, <2>2, PhaseOf DEF WalkCheck, requestVars, Outside, Walking, Contract!vars
  <2>3. CASE ~(i <= Len(requests))
    <3>1. i > Len(requests)
      BY <2>3 DEF IInv, TypeOK
    <3>2. Contract!Known \subseteq walked \cup broken
      BY <2>1, <3>1, LoopEnds DEF IInv, WalkInv, Walking, Examined, Contract!Known
    <3>3. Phase(conf) = "collecting" /\ Phase(conf') = "parsing"
      BY <1>5, <2>3, PhaseOf DEF WalkCheck, Outside, Walking, Parsing
    <3> QED
      BY <2>1, <3>2, <3>3 DEF requestVars, Contract!BeginParse, Contract!Enter
  <2> QED
    BY <2>2, <2>3
<1>6. CASE Walk
  BY <1>6, WalkRefines
<1>7. CASE ActivateReturns
  BY <1>7, FailRefines, PhaseOf DEF ActivateReturns, Outside, Walking, Parsing, requestVars,
                           loopVars, Contract!vars
<1>8. CASE SelectSubcommand
  BY <1>8, PhaseOf DEF SelectSubcommand, Outside, Walking, Parsing, requestVars, Contract!vars
<1>9. CASE ParseEnds
  <2>1. CASE Fail
    BY <1>9, <2>1, FailRefines DEF ParseEnds, Outside
  <2>2. CASE conf' = "fillCheck" /\ UNCHANGED <<requestVars, lock>>
    <3>1. Contract!Known \ (IF lock = NoOne THEN {} ELSE {Len(requests)})
            \subseteq walked \cup broken
      BY <1>9 DEF ParseEnds, IInv, TypeOK, NoneEscapesPreWalk, AfterWalk, Parsing, Examined,
                  InProgress, Contract!Known
    <3>2. Phase(conf) = "parsing" /\ Phase(conf') = "filling"
      BY <1>9, <2>2, PhaseOf DEF ParseEnds, Outside, Walking, Parsing, Filling
    <3> QED
      BY <2>2, <3>1, <3>2 DEF requestVars, Contract!BeginFill, Contract!Enter
  <2> QED
    BY <1>9, <2>1, <2>2 DEF ParseEnds
<1>10. CASE FillCheck
  <2>1. UNCHANGED <<requestVars, lock>> /\ conf = "fillCheck" /\ lock = NoOne
    BY <1>10 DEF FillCheck
  <2>2. CASE i <= Len(requests)
    BY <1>10, <2>1, <2>2, PhaseOf DEF FillCheck, requestVars, Outside, Walking, Parsing, Filling,
                             Contract!vars
  <2>3. CASE ~(i <= Len(requests))
    <3>1. i > Len(requests)
      BY <2>3 DEF IInv, TypeOK
    <3>2. filled = Contract!Known
      BY <2>1, <3>1, LoopEnds DEF IInv, FillInv, Filling, Contract!Known
    <3>3. Phase(conf) = "filling" /\ Phase(conf') = "started"
      BY <1>10, <2>3, PhaseOf DEF FillCheck, Outside, Walking, Parsing, Filling
    <3> QED
      BY <2>1, <3>2, <3>3 DEF requestVars, Contract!Start, Contract!Enter
  <2> QED
    BY <2>2, <2>3
<1>11. CASE FillEnd \/ GetValidator
  <2>1. CASE FillDone
    BY <1>11, <2>1, FillRefines DEF FillEnd, GetValidator
  <2>2. CASE conf = "filling" /\ conf' = "validate" /\ UNCHANGED <<requestVars, lock>>
    BY <2>2, PhaseOf DEF requestVars, Filling, Outside, Walking, Parsing, Contract!vars
  <2> QED
    BY <1>11, <2>1, <2>2 DEF FillEnd, GetValidator
<1>12. CASE StartReturns
  BY <1>12, FailRefines, PhaseOf DEF StartReturns, Outside, Walking, Parsing, Filling, requestVars,
                            Contract!vars, Contract!Return, Contract!Enter
<1>13. CASE UNCHANGED vars
  BY <1>13 DEF vars, Contract!vars
<1> QED
  BY <1>0, <1>1, <1>2, <1>3, <1>4, <1>5, <1>6, <1>7, <1>8, <1>9, <1>10, <1>11, <1>12, <1>13
     DEF Next, ConfigureStep

(* The registry keeps its promise, for any number of goroutines, requests, *)
(* passes and nested subcommands (registry.go:191-253, request.go:41-68).  *)
THEOREM Implements == Spec => ImplementsContract
<1>1. Init => Contract!Init
  BY PhaseOf DEF Init, Contract!Init, Outside
<1>2. IInv /\ [Next]_vars => [Contract!Next]_(Contract!vars)
  BY ContractStep
<1> QED
  BY <1>1, <1>2, Inductive, PTL DEF Spec, ImplementsContract, Contract!Spec
=============================================================================
