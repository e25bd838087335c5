------------------------------ MODULE Registry ------------------------------
(***************************************************************************)
(* The life of the requests of a Registry (registry.go, request.go), with  *)
(* the steps of its flag handler that register requests or call back       *)
(* (flags_command.go, flags_parse.go).                                     *)
(*                                                                         *)
(* One goroutine, Main, calls Configure, any number of times.  It and the  *)
(* other goroutines (Clients) call Request: Main before and after a        *)
(* Configure and from the callbacks that Configure makes, the clients at   *)
(* any time.  Configure goes through its four loops one critical section   *)
(* at a time; between two of them anything may happen.                     *)
(***************************************************************************)
EXTENDS Naturals, Sequences

CONSTANTS
  Clients,       \* the goroutines that only call Request
  Main,          \* the goroutine that calls Configure
  NoOne,         \* the holder of a free lock
  MaxRequests,   \* bound: Request is called with fewer requests registered,
                 \* except for a subcommand's model
  MaxPasses,     \* bound: calls of Configure
  MaxDepth       \* bound: subcommands nested in the arguments

ASSUME GoroutineAssumption == Main \notin Clients /\ NoOne \notin Clients \cup {Main}

ASSUME BoundAssumption ==
  MaxRequests \in Nat /\ MaxPasses \in Nat /\ MaxDepth \in Nat

Goroutines == Clients \cup {Main}

(* What Request is given: a model whose PreWalk succeeds, or one whose     *)
(* PreWalk fails (a malformed tag, a flag that contradicts another one).   *)
(* What is no pointer to a struct is refused before anything happens.      *)
Models == {"good", "bad"}

VARIABLES
  requests,   \* the slice of registered requests
  lock,       \* the holder of the registry's lock
  started,    \* configureStarted, as Main has written it
  published,  \* Main has used the lock since: now everyone sees started
  call,       \* where each goroutine is in Request
  conf,       \* where Main is in Configure
  i,          \* the index of Configure's loop over the requests
  depth,      \* how many nested subcommands this pass has selected
  passes,     \* how many times Configure has been called
  result,     \* what the last Configure returned
  walked,     \* the requests for which PreWalk has succeeded
  broken,     \* the requests for which PreWalk has failed
  filled,     \* the requests filled in this pass
  late        \* the requests registered after the last loop over them

vars == <<requests, lock, started, published, call, conf, i, depth, passes,
          result, walked, broken, filled, late>>

loopVars    == <<i, depth, passes, result>>
requestVars == <<requests, walked, broken, filled, late>>

(* The locations of Configure. *)
Walking  == {"walkCheck", "walk"}
Parsing  == {"activate", "parse", "subRequest"}
Filling  == {"fillCheck", "fillStart", "filling", "validate"}
Outside  == {"idle", "returned"}
Callback == {"activate", "start"}

AfterWalk == Parsing \cup Filling \cup {"start"}
Locations == Outside \cup {"begin"} \cup Walking \cup AfterWalk

Init ==
  /\ requests = <<>>
  /\ lock = NoOne
  /\ started = FALSE /\ published = FALSE
  /\ call = [g \in Goroutines |-> "idle"]
  /\ conf = "idle"
  /\ i = 1 /\ depth = 0 /\ passes = 0 /\ result = "none"
  /\ walked = {} /\ broken = {} /\ filled = {} /\ late = {}
-----------------------------------------------------------------------------
(* Request.                                                                *)

(* Selecting a subcommand with a model makes Main request that model. *)
ForSubcommand(g) == g = Main /\ conf = "subRequest"

(* Call Request and wait for the lock. *)
RequestCall(g) ==
  /\ call[g] = "idle"
  /\ \/ ForSubcommand(g)
     \/ /\ g = Main => conf \in Outside \cup Callback
        /\ Len(requests) < MaxRequests
  /\ call' = [call EXCEPT ![g] = "waiting"]
  /\ UNCHANGED <<requestVars, lock, started, published, conf, loopVars>>

(* Take the lock and append. *)
RequestAppend(g, model) ==
  /\ call[g] = "waiting"
  /\ lock = NoOne
  /\ lock' = g
  /\ requests' = Append(requests, model)
  /\ call' = [call EXCEPT ![g] = "appended"]
  /\ late' = IF conf = "start" THEN late \cup {Len(requests) + 1} ELSE late
  /\ UNCHANGED <<started, published, conf, loopVars, walked, broken, filled>>

(* MUTANT: Request reads configureStarted before it takes the lock. *)
SeesUnlocked(g) == IF g = Main THEN {started} ELSE {FALSE, started}

(* The values that goroutine g may read in configureStarted.  Main writes  *)
(* it without the lock, so until Main has used the lock another goroutine  *)
(* may still see the old value.                                            *)
Sees(g) == IF g = Main \/ published THEN {started} ELSE {FALSE, started}

(* MUTANT: PreWalk takes the lock once more. *)
PreWalkRelocks(r) ==
  /\ lock = NoOne
  /\ IF requests[r] = "bad"
     THEN broken' = broken \cup {r} /\ UNCHANGED walked
     ELSE walked' = walked \cup {r} /\ UNCHANGED broken

PreWalk(r) ==
  IF requests[r] = "bad"
  THEN broken' = broken \cup {r} /\ UNCHANGED walked
  ELSE walked' = walked \cup {r} /\ UNCHANGED broken

(* PreWalk the appended request if Configure has started, and unlock.  A   *)
(* request whose PreWalk fails stays registered.  When it is the one for a *)
(* subcommand, Configure goes on or fails with it.                         *)
RequestFinish(g) ==
  /\ call[g] = "appended"
  /\ call' = [call EXCEPT ![g] = "idle"]
  /\ lock' = NoOne
  /\ \E s \in Sees(g) :
       IF s THEN PreWalk(Len(requests)) ELSE UNCHANGED <<walked, broken>>
  /\ IF ForSubcommand(g)
     THEN IF requests[Len(requests)] = "bad"
          THEN conf' = "returned" /\ result' = "error"
          ELSE conf' = "activate" /\ UNCHANGED result
     ELSE UNCHANGED <<conf, result>>
  /\ UNCHANGED <<requests, started, published, i, depth, passes, filled, late>>
-----------------------------------------------------------------------------
(* Configure.                                                              *)

MainRuns == call[Main] = "idle"

ConfigureBegin ==
  /\ MainRuns
  /\ conf \in Outside
  /\ passes < MaxPasses
  /\ started' = TRUE
  /\ conf' = "begin"
  /\ passes' = passes + 1
  /\ depth' = 0
  /\ result' = "none"
  /\ filled' = {} /\ late' = {}
  /\ UNCHANGED <<requests, lock, published, call, i, walked, broken>>

(* The first use of the lock is the length for a debug message. *)
ConfigureLock ==
  /\ conf = "begin"
  /\ lock = NoOne
  /\ published' = TRUE
  /\ conf' = "walkCheck"
  /\ i' = 1
  /\ UNCHANGED <<requestVars, lock, started, call, depth, passes, result>>

(* MUTANT: the walk stops before the last request. *)
WalkCheckShort ==
  /\ conf = "walkCheck"
  /\ lock = NoOne
  /\ conf' = IF i < Len(requests) THEN "walk" ELSE "activate"
  /\ UNCHANGED <<requestVars, lock, started, published, call, loopVars>>

WalkCheck ==
  /\ conf = "walkCheck"
  /\ lock = NoOne
  /\ conf' = IF i <= Len(requests) THEN "walk" ELSE "activate"
  /\ UNCHANGED <<requestVars, lock, started, published, call, loopVars>>

(* MUTANT: after each request the walk begins anew. *)
WalkRestarts ==
  /\ conf = "walk"
  /\ lock = NoOne
  /\ PreWalk(i)
  /\ IF requests[i] = "bad"
     THEN conf' = "returned" /\ result' = "error" /\ UNCHANGED i
     ELSE conf' = "walkCheck" /\ i' = 1 /\ UNCHANGED result
  /\ UNCHANGED <<requests, filled, late, lock, started, published, call, depth, passes>>

(* getRequest and preWalk: requests already walked are walked once more. *)
Walk ==
  /\ conf = "walk"
  /\ lock = NoOne
  /\ PreWalk(i)
  /\ IF requests[i] = "bad"
     THEN conf' = "returned" /\ result' = "error" /\ UNCHANGED i
     ELSE conf' = "walkCheck" /\ i' = i + 1 /\ UNCHANGED result
  /\ UNCHANGED <<requests, filled, late, lock, started, published, call, depth, passes>>

Fail ==
  /\ conf' = "returned"
  /\ result' = "error"
  /\ UNCHANGED <<requestVars, lock, started, published, call, i, depth, passes>>

(* The callback of OnActivate returns.  PreConfigure also stands here with *)
(* its errors, and a handler that has no callback returns at once.         *)
ActivateReturns ==
  /\ conf = "activate" /\ MainRuns
  /\ \/ Fail
     \/ /\ conf' = "parse"
        /\ UNCHANGED <<requestVars, lock, started, published, call, loopVars>>

(* parseFlags comes to a subcommand, with or without a model to fill. *)
SelectSubcommand ==
  /\ conf = "parse"
  /\ depth < MaxDepth
  /\ depth' = depth + 1
  /\ conf' \in {"subRequest", "activate"}
  /\ UNCHANGED <<requestVars, lock, started, published, call, i, passes, result>>

(* parseFlags and importFlags end, with or without an error. *)
ParseEnds ==
  /\ conf = "parse"
  /\ \/ Fail
     \/ /\ conf' = "fillCheck"
        /\ i' = 1
        /\ UNCHANGED <<requestVars, lock, started, published, call, depth, passes, result>>

(* MUTANT: the fill goes one past the last request. *)
FillCheckLong ==
  /\ conf = "fillCheck"
  /\ lock = NoOne
  /\ conf' = IF i <= Len(requests) + 1 THEN "fillStart" ELSE "start"
  /\ UNCHANGED <<requestVars, lock, started, published, call, loopVars>>

(* MUTANT: the fill stops before the last request. *)
FillCheckShort ==
  /\ conf = "fillCheck"
  /\ lock = NoOne
  /\ conf' = IF i < Len(requests) THEN "fillStart" ELSE "start"
  /\ UNCHANGED <<requestVars, lock, started, published, call, loopVars>>

FillCheck ==
  /\ conf = "fillCheck"
  /\ lock = NoOne
  /\ conf' = IF i <= Len(requests) THEN "fillStart" ELSE "start"
  /\ UNCHANGED <<requestVars, lock, started, published, call, loopVars>>

(* getRequest and getFillers. *)
FillStart ==
  /\ conf = "fillStart"
  /\ lock = NoOne
  /\ conf' = "filling"
  /\ UNCHANGED <<requestVars, lock, started, published, call, loopVars>>

(* MUTANT: the error of one fill does not end Configure. *)
FillDoneGoesOn ==
  /\ conf' = "fillCheck"
  /\ i' = i + 1
  /\ \/ UNCHANGED filled
     \/ filled' = filled \cup {i}
  /\ UNCHANGED <<requests, walked, broken, late, lock, started, published, call,
                 depth, passes, result>>

(* How a fill ends.  The flags of a request whose PreWalk failed may be    *)
(* unknown to the flag handler, which reports that as an internal error.   *)
FillDone ==
  \/ Fail
  \/ /\ i \notin walked
     /\ conf' = "returned"
     /\ result' = "internal"
     /\ UNCHANGED <<requestVars, lock, started, published, call, i, depth, passes>>
  \/ /\ conf' = "fillCheck"
     /\ filled' = filled \cup {i}
     /\ i' = i + 1
     /\ UNCHANGED <<requests, walked, broken, late, lock, started, published, call,
                    depth, passes, result>>

(* The object is filled.  A request with a validator of its own is done    *)
(* with it at once; any other has to ask the registry for one.             *)
FillEnd ==
  /\ conf = "filling"
  /\ \/ FillDone
     \/ /\ conf' = "validate"
        /\ UNCHANGED <<requestVars, lock, started, published, call, loopVars>>

(* getValidator. *)
GetValidator ==
  /\ conf = "validate"
  /\ lock = NoOne
  /\ FillDone

(* A callback of OnStart returns: the innermost subcommand's is called     *)
(* first, the one of the registered handler last.                          *)
StartReturns ==
  /\ conf = "start" /\ MainRuns
  /\ \/ Fail
     \/ /\ depth > 0
        /\ depth' = depth - 1
        /\ UNCHANGED <<requestVars, lock, started, published, call, conf, i, passes, result>>
     \/ /\ depth = 0
        /\ conf' = "returned"
        /\ result' = "ok"
        /\ UNCHANGED <<requestVars, lock, started, published, call, i, depth, passes>>

ConfigureStep ==
  \/ ConfigureLock
  \/ WalkCheck
  \/ Walk
  \/ ActivateReturns
  \/ SelectSubcommand
  \/ ParseEnds
  \/ FillCheck
  \/ FillStart
  \/ FillEnd
  \/ GetValidator

Next ==
  \/ \E g \in Goroutines : RequestCall(g)
  \/ \E g \in Goroutines, model \in Models : RequestAppend(g, model)
  \/ \E g \in Goroutines : RequestFinish(g)
  \/ ConfigureBegin
  \/ ConfigureStep
  \/ StartReturns

Spec == Init /\ [][Next]_vars

(* Callbacks of OnActivate return, those of OnStart need not               *)
(* (flags_command.go:351-353).  A Go mutex is fair to those who wait.      *)
Fairness ==
  /\ SF_vars(ConfigureStep)
  /\ WF_vars(RequestCall(Main) /\ ForSubcommand(Main))
  /\ \A g \in Goroutines :
       /\ SF_vars(\E model \in Models : RequestAppend(g, model))
       /\ WF_vars(RequestFinish(g))

FairSpec == Spec /\ Fairness
-----------------------------------------------------------------------------
(* The types of the state, and the range of the loop index                 *)
(* (registry.go:199, 217): no loop reads past the end of the slice.        *)
TypeOK ==
  /\ requests \in Seq(Models)
  /\ lock \in Goroutines \cup {NoOne}
  /\ started \in BOOLEAN /\ published \in BOOLEAN
  /\ call \in [Goroutines -> {"idle", "waiting", "appended"}]
  /\ conf \in Locations
  /\ i \in 1..(Len(requests) + 1)
  /\ depth \in Nat /\ passes \in Nat
  /\ result \in {"none", "ok", "error", "internal"}
  /\ walked \subseteq DOMAIN requests
  /\ broken \subseteq DOMAIN requests
  /\ filled \subseteq DOMAIN requests
  /\ late \subseteq DOMAIN requests

Examined(r) == r \in walked \cup broken

(* Still in the hands of the goroutine that is registering it. *)
InProgress(r) == lock # NoOne /\ r = Len(requests)

(* Once the walk is over, no request escapes PreWalk: neither one that was *)
(* registered while the loop ran, nor one registered later, whatever the   *)
(* goroutine that registers it sees of configureStarted, which is written  *)
(* outside the lock (registry.go:197-205, request.go:53-66).               *)
NoneEscapesPreWalk ==
  conf \in AfterWalk =>
    \A r \in DOMAIN requests : Examined(r) \/ InProgress(r)

(* A request is filled only after its own PreWalk, as the flag handler     *)
(* needs (registry.go:217-223, flags_parse.go:318-321, 420).               *)
WalkedBeforeFill == conf = "filling" => i \in DOMAIN requests /\ Examined(i)

(* OnStart callbacks run when every request registered so far has been     *)
(* filled in this pass; only those that arrive later may not be            *)
(* (registry.go:217-234).                                                  *)
StartSeesAllFilled ==
  conf = "start" => \A r \in DOMAIN requests : r \in filled \/ r \in late

(* Configure, once called, comes to its OnStart callbacks or returns: no   *)
(* deadlock with the goroutines that register requests, no endless loop    *)
(* (registry.go:196-236).                                                  *)
ConfigureProgresses == (conf = "begin") ~> (conf \in {"start", "returned"})

(* Every call of Request returns, however long the others keep coming and  *)
(* whether its PreWalk succeeds or fails: nobody keeps the lock, and       *)
(* nobody takes it twice (request.go:53-66, registry.go:238-271).          *)
RequestReturns == \A g \in Goroutines : (call[g] = "waiting") ~> (call[g] = "idle")

(* "Configure evaluates all configuration requests.  New configuration     *)
(* requests can be added while configure is running" (registry.go:191).    *)
RunningRequestsFilled == conf = "returned" /\ result = "ok" => late \subseteq filled

(* The phase of Configure at one of its locations. *)
Phase(c) ==
  CASE c \in Outside              -> "rest"
    [] c \in {"begin"} \cup Walking -> "collecting"
    [] c \in Parsing              -> "parsing"
    [] c \in Filling              -> "filling"
    [] c = "start"                -> "started"

Contract == INSTANCE RegistryContract WITH
  known    <- Len(requests),
  open     <- IF lock = NoOne THEN {} ELSE {Len(requests)},
  examined <- walked \cup broken,
  done     <- filled,
  phase    <- Phase(conf)

(* The critical sections of Request and the four loops of Configure keep   *)
(* the promise of RegistryContract, in whatever order they interleave      *)
(* (registry.go:191-253, request.go:41-68).                                *)
ImplementsContract == Contract!Spec
=============================================================================
