------------------------- MODULE ConfigFilesProofs -------------------------
(***************************************************************************)
(* Proofs that no configuration file is lost, for any number of            *)
(* goroutines, files, fillers, requests and fields.                        *)
(*                                                                         *)
(* Two facts carry the argument.  The goroutine in ConfigFile holds the    *)
(* lock, so what it read of a filler is still what that filler reads when  *)
(* it stores the successor, and what fillers read only grows.  And what a  *)
(* request is filled from lies between the copy made when its fill began   *)
(* and the registry's fillers.                                             *)
(***************************************************************************)
EXTENDS ConfigFiles, SequenceTheorems, TLAPS

LockInv == \A c \in Clients : adding[c] # Idle <=> lock = c

(* A file that has been taken by a filler that gave way is read. *)
Read(f) == \E t \in Fillers : f \in sources[t]

AddingInv ==
  \A c \in Clients :
    adding[c] # Idle =>
      /\ adding[c].asked => adding[c].next \in Fillers /\ adding[c].base = sources[adding[c].next]
      /\ adding[c].okay => Read(adding[c].file)

OutcomeInv == \A f \in Files : outcome[f] = "added" => Read(f)

SeenType == seen \in [Requests -> Seq(Sources)]

(* How far the fill has come. *)
ProgressInv ==
  /\ \A r \in Requests : r > request \/ (r = request /\ conf = "fillStart") => seen[r] = <<>>
  /\ conf # "fillStart" => request \in Requests /\ Len(seen[request]) = field - 1
  /\ conf = "prefix" => seen[request] = <<>> /\ field = 1

(* The fields filled so far of the request that is being filled. *)
CopyInv ==
  conf # "fillStart" =>
    /\ \A t \in Fillers : copy[t] \subseteq sources[t]
    /\ \A f \in promised[request] : \E t \in Fillers : f \in copy[t]

CurrentInv ==
  conf = "field" =>
    \A k \in DOMAIN seen[request] : \A t \in Fillers :
      /\ seen[request][k][t] \subseteq Current[t]
      /\ request \in Copied /\ t \notin InPlace => seen[request][k][t] = copy[t]

IInv ==
  /\ TypeOK /\ LockInv /\ AddingInv /\ OutcomeInv
  /\ SeenType /\ ProgressInv /\ CopyInv /\ CurrentInv
  /\ AddedFilesAreRead /\ FilesAreNotLost /\ CopiesAreConsistent
-----------------------------------------------------------------------------
LEMMA InitIInv == Init => IInv
<1> SUFFICES ASSUME Init PROVE IInv
  OBVIOUS
<1> USE FilesAssumption DEF Init, Fillers, Requests, Fields
<1>1. TypeOK
  BY DEF TypeOK, Sources
<1>2. LockInv /\ AddingInv /\ OutcomeInv
  BY DEF LockInv, AddingInv, OutcomeInv
<1>3. SeenType /\ ProgressInv /\ CopyInv /\ CurrentInv
  BY DEF SeenType, ProgressInv, CopyInv, CurrentInv
<1>4. AddedFilesAreRead /\ FilesAreNotLost /\ CopiesAreConsistent
  <2>1. \A r \in Requests : DOMAIN seen[r] = {}
    OBVIOUS
  <2>2. Copied \subseteq Requests
    OBVIOUS
  <2> QED
    BY <2>1, <2>2 DEF AddedFilesAreRead, FilesAreNotLost, CopiesAreConsistent
<1> QED
  BY <1>1, <1>2, <1>3, <1>4 DEF IInv

(* The calls of ConfigFile stay well typed, and stay calls until they       *)
(* return.                                                                 *)
LEMMA CallStep ==
  ASSUME IInv, NEW c \in Clients, AddConfigFile(c) \/ Accepted(c) \/ Rejected(c)
  PROVE  /\ adding' \in [Clients -> Call \cup {Idle}]
         /\ adding'[c] # Idle /\ adding'[c].file = adding[c].file
<1> USE FilesAssumption, IdleAssumption DEF IInv, TypeOK, Sources, Fillers
<1>1. adding[c] \in Call
  BY DEF AddConfigFile, Accepted, Rejected
<1>2. adding[c].next <= Len(Tags)
  BY <1>1 DEF AddConfigFile, Accepted, Rejected, AddingInv, Call
<1>3. sources[adding[c].next] \in SUBSET Files
  BY <1>1, <1>2 DEF Call
<1>4. adding'[c] \in Call /\ adding'[c].file = adding[c].file
  <2>1. CASE AddConfigFile(c)
    BY <1>1, <1>3, <2>1 DEF AddConfigFile, Call
  <2>2. CASE Accepted(c)
    BY <1>1, <1>2, <2>2 DEF Accepted, Call
  <2>3. CASE Rejected(c)
    <3>1. adding'[c] = [adding[c] EXCEPT !.asked = FALSE, !.next = @ + 1, !.refused = TRUE]
      BY <2>3 DEF Rejected
    <3>2. adding[c].next + 1 \in 1..(Len(Tags) + 1)
      BY <1>1, <1>2 DEF Call
    <3> QED
      BY <1>1, <3>1, <3>2 DEF Call
  <2> QED
    BY <2>1, <2>2, <2>3
<1>5. adding' = [adding EXCEPT ![c] = adding'[c]]
  BY <1>4 DEF AddConfigFile, Accepted, Rejected
<1> QED
  BY <1>4, <1>5

(* The state is well typed after every step. *)
LEMMA TypeStep ==
  ASSUME IInv, [Next]_vars
  PROVE  TypeOK' /\ SeenType'
<1> USE FilesAssumption, IdleAssumption
    DEF IInv, TypeOK, SeenType, Sources, Fillers, Requests, Fields, fillVars
<1>1. CASE \E c \in Clients, f \in Files : ConfigFileLock(c, f)
  <2> PICK c \in Clients, f \in Files : ConfigFileLock(c, f)
    BY <1>1
  <2>1. adding' \in [Clients -> Call \cup {Idle}]
    BY DEF ConfigFileLock, Call
  <2> QED
    BY <2>1 DEF ConfigFileLock
<1>2. CASE \E c \in Clients : AddConfigFile(c) \/ Rejected(c)
  BY <1>2, CallStep DEF AddConfigFile, Rejected
<1>3. CASE \E c \in Clients : Accepted(c)
  <2> PICK c \in Clients : Accepted(c)
    BY <1>3
  <2>1. adding[c] \in Call
    BY DEF Accepted
  <2>2. adding[c].base \cup {adding[c].file} \in SUBSET Files
    BY <2>1 DEF Call
  <2>3. sources' \in Sources
    BY <2>2 DEF Accepted
  <2>4. adding' \in [Clients -> Call \cup {Idle}]
    BY CallStep
  <2> QED
    BY <2>3, <2>4 DEF Accepted
<1>4. CASE \E c \in Clients : Failed(c) \/ ConfigFileUnlock(c)
  BY <1>4 DEF Failed, ConfigFileUnlock, Return
<1>5. CASE FillStart
  BY <1>5 DEF FillStart
<1>6. CASE FillField
  <2> USE <1>6 DEF FillField
  <2>1. request \in Requests /\ Len(seen[request]) = field - 1
    BY DEF ProgressInv
  <2>2. Current \in Sources
    BY DEF Current
  <2>3. Append(seen[request], Current) \in Seq(Sources)
    BY <2>1, <2>2
  <2>4. seen' \in [Requests -> Seq(Sources)]
    BY <2>3
  <2>5. \A r \in Requests : Len(seen'[r]) <= NumFields
    BY <2>1, <2>2
  <2>6. \A r \in Requests : \A k \in DOMAIN seen'[r] : seen'[r][k] \in Sources
    BY <2>4
  <2>7. request' \in 1..(NumRequests + 1) /\ field' \in 1..NumFields
    BY <2>1
  <2> QED
    BY <2>4, <2>5, <2>6, <2>7
<1>7. CASE GoDown \/ UNCHANGED vars
  BY <1>7 DEF GoDown, vars
<1> QED
  BY <1>1, <1>2, <1>3, <1>4, <1>5, <1>6, <1>7 DEF Next

(* Fillers only come to read more files. *)
LEMMA SourcesGrow ==
  ASSUME IInv, [Next]_vars
  PROVE  /\ \A t \in Fillers : sources[t] \subseteq sources'[t]
         /\ sources' # sources => UNCHANGED <<lock, outcome, fillVars>>
<1> USE DEF IInv, TypeOK, Sources, fillVars
<1>1. CASE \E c \in Clients : Accepted(c)
  <2> PICK c \in Clients : Accepted(c)
    BY <1>1
  <2>1. adding[c].next \in Fillers /\ adding[c].base = sources[adding[c].next]
    BY DEF Accepted, AddingInv
  <2> QED
    BY <2>1 DEF Accepted
<1>2. CASE \E c \in Clients, f \in Files : ConfigFileLock(c, f)
  BY <1>2 DEF ConfigFileLock
<1>3. CASE \E c \in Clients : AddConfigFile(c) \/ Rejected(c) \/ Failed(c) \/ ConfigFileUnlock(c)
  BY <1>3 DEF AddConfigFile, Rejected, Failed, ConfigFileUnlock, Return
<1>4. CASE FillStart \/ GoDown \/ FillField \/ UNCHANGED vars
  BY <1>4 DEF FillStart, GoDown, FillField, vars
<1> QED
  BY <1>1, <1>2, <1>3, <1>4 DEF Next

(* Only the goroutine with the lock is in ConfigFile. *)
LEMMA LockStep ==
  ASSUME IInv, [Next]_vars
  PROVE  LockInv'
<1> USE FilesAssumption, IdleAssumption DEF IInv, TypeOK, LockInv, fillVars
<1>1. CASE \E c \in Clients, f \in Files : ConfigFileLock(c, f)
  <2> PICK c \in Clients, f \in Files : ConfigFileLock(c, f)
    BY <1>1
  <2>1. adding'[c] \in Call
    BY DEF ConfigFileLock, Call
  <2> QED
    BY <2>1 DEF ConfigFileLock
<1>2. CASE \E c \in Clients : AddConfigFile(c) \/ Accepted(c) \/ Rejected(c)
  <2> PICK c \in Clients : AddConfigFile(c) \/ Accepted(c) \/ Rejected(c)
    BY <1>2
  <2>1. adding'[c] # Idle
    BY CallStep
  <2> QED
    BY <2>1 DEF AddConfigFile, Accepted, Rejected
<1>3. CASE \E c \in Clients : Failed(c) \/ ConfigFileUnlock(c)
  BY <1>3 DEF Failed, ConfigFileUnlock, Return
<1>4. CASE FillStart \/ GoDown \/ FillField \/ UNCHANGED vars
  BY <1>4 DEF FillStart, GoDown, FillField, vars
<1> QED
  BY <1>1, <1>2, <1>3, <1>4 DEF Next

(* What a goroutine read of a filler is what the filler still reads, and   *)
(* the file that a call has placed is read.                                *)
LEMMA AddingStep ==
  ASSUME IInv, [Next]_vars
  PROVE  AddingInv'
<1> USE FilesAssumption, IdleAssumption
    DEF IInv, TypeOK, LockInv, AddingInv, Read, Sources, Fillers, fillVars
<1>1. CASE \E c \in Clients, f \in Files : ConfigFileLock(c, f)
  BY <1>1 DEF ConfigFileLock
<1>2. CASE \E c \in Clients : AddConfigFile(c) \/ Rejected(c) \/ Accepted(c)
  <2> PICK c \in Clients : AddConfigFile(c) \/ Rejected(c) \/ Accepted(c)
    BY <1>2
  <2>1. adding[c] \in Call /\ adding[c] # Idle
    BY DEF AddConfigFile, Rejected, Accepted
  <2>2. \A d \in Clients \ {c} : adding'[d] = Idle
    BY <2>1 DEF AddConfigFile, Rejected, Accepted
  <2>3. adding'[c].asked =>
          adding'[c].next \in Fillers /\ adding'[c].base = sources'[adding'[c].next]
    <3>1. CASE AddConfigFile(c)
      BY <2>1, <3>1 DEF AddConfigFile, Call
    <3>2. CASE Rejected(c) \/ Accepted(c)
      BY <2>1, <3>2 DEF Rejected, Accepted, Call
    <3> QED
      BY <3>1, <3>2
  <2>4. adding'[c].okay => Read(adding[c].file)'
    <3>1. CASE AddConfigFile(c) \/ Rejected(c)
      <4>1. adding'[c].okay = adding[c].okay /\ adding'[c].file = adding[c].file
        <5>1. CASE AddConfigFile(c)
          BY <2>1, <5>1 DEF AddConfigFile, Call
        <5>2. CASE Rejected(c)
          BY <2>1, <5>2 DEF Rejected, Call
        <5> QED
          BY <3>1, <5>1, <5>2
      <4>2. sources' = sources
        BY <3>1 DEF AddConfigFile, Rejected
      <4> QED
        BY <2>1, <4>1, <4>2
    <3>2. CASE Accepted(c)
      <4>1. adding[c].next \in Fillers /\ adding'[c].file = adding[c].file
        BY <2>1, <3>2 DEF Accepted, Call
      <4>2. adding[c].file \in sources'[adding[c].next]
        BY <3>2, <4>1 DEF Accepted
      <4> QED
        BY <4>1, <4>2
    <3> QED
      BY <3>1, <3>2
  <2> QED
    BY <2>2, <2>3, <2>4
<1>3. CASE \E c \in Clients : Failed(c) \/ ConfigFileUnlock(c)
  <2> PICK c \in Clients : Failed(c) \/ ConfigFileUnlock(c)
    BY <1>3
  <2>1. CASE Failed(c)
    BY <2>1 DEF Failed, Return
  <2>2. CASE ConfigFileUnlock(c)
    BY <2>2 DEF ConfigFileUnlock, Return
  <2> QED
    BY <2>1, <2>2
<1>4. CASE FillStart \/ GoDown \/ FillField \/ UNCHANGED vars
  BY <1>4 DEF FillStart, GoDown, FillField, vars
<1> QED
  BY <1>1, <1>2, <1>3, <1>4 DEF Next

(* A file is reported as added only when a filler reads it, and fillers    *)
(* never forget one.                                                       *)
LEMMA OutcomeStep ==
  ASSUME IInv, [Next]_vars
  PROVE  OutcomeInv'
<1> USE DEF IInv, TypeOK, OutcomeInv, Read, fillVars
<1>1. CASE \E c \in Clients : Failed(c) \/ ConfigFileUnlock(c)
  <2> PICK c \in Clients : Failed(c) \/ ConfigFileUnlock(c)
    BY <1>1
  <2>1. adding[c] \in Call /\ adding[c].file \in Files
    BY DEF Failed, ConfigFileUnlock, Call
  <2>2. \A f \in Files \ {adding[c].file} : outcome'[f] = outcome[f]
    BY <2>1 DEF Failed, ConfigFileUnlock, Return
  <2>3. outcome'[adding[c].file] = "added" => adding[c].okay
    BY <2>1 DEF Failed, ConfigFileUnlock, Return
  <2>4. outcome'[adding[c].file] = "added" => Read(adding[c].file)
    BY <2>3 DEF AddingInv, Failed, ConfigFileUnlock
  <2>5. sources' = sources
    BY DEF Failed, ConfigFileUnlock, Return
  <2> QED
    BY <2>2, <2>4, <2>5
<1>2. CASE outcome' = outcome
  BY <1>2, SourcesGrow
<1>3. ASSUME ~ \E c \in Clients : Failed(c) \/ ConfigFileUnlock(c)
      PROVE  outcome' = outcome
  BY <1>3 DEF Next, ConfigFileLock, AddConfigFile, Accepted, Rejected, FillStart, GoDown, FillField,
              vars
<1> QED
  BY <1>1, <1>2, <1>3
-----------------------------------------------------------------------------
(* A step of a goroutine in ConfigFile, or one that changes nothing.       *)
LEMMA ClientStep ==
  ASSUME IInv, [Next]_vars, ~FillStart, ~GoDown, ~FillField
  PROVE  UNCHANGED fillVars
BY DEF Next, ConfigFileLock, AddConfigFile, Accepted, Rejected, Failed, ConfigFileUnlock,
       Return, fillVars, vars

(* What a fill works with only grows while it lasts.                       *)
LEMMA CurrentGrows ==
  ASSUME IInv, [Next]_vars, UNCHANGED <<request, copy>>
  PROVE  \A t \in Fillers : Current[t] \subseteq Current'[t]
BY SourcesGrow DEF Current

LEMMA ProgressStep ==
  ASSUME IInv, [Next]_vars
  PROVE  ProgressInv'
<1> USE FilesAssumption DEF IInv, TypeOK, SeenType, ProgressInv, Requests, Fields, fillVars
<1>1. CASE FillStart
  BY <1>1 DEF FillStart
<1>2. CASE FillField
  <2> USE <1>2 DEF FillField
  <2>1. \A r \in Requests \ {request} : seen'[r] = seen[r]
    OBVIOUS
  <2>2. seen'[request] = Append(seen[request], Current)
    OBVIOUS
  <2>3. Len(seen'[request]) = field
    BY <2>2
  <2>4. CASE field < NumFields
    BY <2>1, <2>3, <2>4
  <2>5. CASE ~(field < NumFields)
    BY <2>1, <2>5
  <2> QED
    BY <2>4, <2>5
<1>3. CASE GoDown
  BY <1>3 DEF GoDown
<1> QED
  BY <1>1, <1>2, <1>3, ClientStep

LEMMA CopyInvStep ==
  ASSUME IInv, [Next]_vars
  PROVE  CopyInv'
<1> USE DEF IInv, TypeOK, CopyInv, Requests, fillVars
<1>1. CASE FillStart
  <2> USE <1>1 DEF FillStart
  <2>1. request \in Requests /\ copy' = sources /\ sources' = sources /\ request' = request
    BY FilesAssumption
  <2>2. promised'[request] = {f \in Files : outcome[f] = "added"}
    BY <2>1
  <2> QED
    BY <2>1, <2>2 DEF OutcomeInv, Read
<1>2. CASE FillField
  BY <1>2 DEF FillField
<1>3. CASE GoDown
  BY <1>3 DEF GoDown
<1> QED
  BY <1>1, <1>2, <1>3, ClientStep, SourcesGrow

LEMMA CurrentStep ==
  ASSUME IInv, [Next]_vars
  PROVE  CurrentInv'
<1> USE DEF IInv, TypeOK, SeenType, CurrentInv, fillVars
<1>1. CASE FillStart \/ GoDown
  <2>1. request \in Requests /\ seen'[request'] = <<>>
    <3>1. CASE FillStart
      BY <3>1, FilesAssumption DEF FillStart, ProgressInv, Requests
    <3>2. CASE GoDown
      BY <3>2, FilesAssumption DEF GoDown, ProgressInv, Requests
    <3> QED
      BY <1>1, <3>1, <3>2
  <2> QED
    BY <2>1
<1>2. CASE FillField
  <2> USE <1>2 DEF FillField
  <2> SUFFICES ASSUME conf' = "field" PROVE CurrentInv'
    OBVIOUS
  <2>1. request' = request /\ request \in Requests
    BY DEF ProgressInv
  <2>2. Current' = Current
    BY <2>1 DEF Current
  <2>3. seen'[request] = Append(seen[request], Current)
    BY <2>1
  <2>4. \A k \in DOMAIN seen'[request] :
          \/ k \in DOMAIN seen[request] /\ seen'[request][k] = seen[request][k]
          \/ seen'[request][k] = Current
    BY <2>1, <2>3
  <2>5. \A t \in Fillers : request \in Copied /\ t \notin InPlace => Current[t] = copy[t]
    BY DEF Current
  <2> QED
    BY <2>1, <2>2, <2>4, <2>5
<1>3. CASE ~FillStart /\ ~GoDown /\ ~FillField
  BY <1>3, ClientStep, CurrentGrows
<1> QED
  BY <1>1, <1>2, <1>3
-----------------------------------------------------------------------------
(* Only FillField fills a field, and with what Current says.               *)
LEMMA SeenStep ==
  ASSUME IInv, [Next]_vars, NEW r \in Requests, NEW k \in DOMAIN seen'[r]
  PROVE  \/ k \in DOMAIN seen[r] /\ seen'[r][k] = seen[r][k]
         \/ FillField /\ r = request /\ k = Len(seen[r]) + 1 /\ seen'[r][k] = Current
<1> USE DEF IInv, TypeOK, SeenType
<1>1. CASE FillField
  <2>1. seen'[r] = IF r = request THEN Append(seen[r], Current) ELSE seen[r]
    BY <1>1 DEF FillField
  <2> QED
    BY <1>1, <2>1
<1>2. CASE seen' = seen
  BY <1>2
<1> QED
  BY <1>1, <1>2, ClientStep DEF FillStart, GoDown, fillVars

LEMMA AddedStep ==
  ASSUME IInv, [Next]_vars
  PROVE  AddedFilesAreRead'
<1> USE DEF IInv, TypeOK, SeenType
<1> SUFFICES ASSUME NEW r \in Requests, NEW k \in (DOMAIN seen[r])', NEW f \in promised'[r]
             PROVE  \E t \in Fillers : f \in seen'[r][k][t]
  BY DEF AddedFilesAreRead
<1>1. CASE FillField /\ r = request /\ seen'[r][k] = Current
  <2>1. PICK t \in Fillers : f \in copy[t]
    BY <1>1 DEF CopyInv, FillField
  <2>2. copy[t] \subseteq Current[t]
    BY <1>1, <2>1 DEF CopyInv, Current, FillField
  <2> QED
    BY <1>1, <2>1, <2>2
<1>2. CASE k \in DOMAIN seen[r] /\ seen'[r][k] = seen[r][k]
  <2>1. CASE FillStart
    <3>1. r # request
      BY <1>2, <2>1 DEF FillStart, ProgressInv
    <3>2. promised'[r] = promised[r]
      BY <2>1, <3>1 DEF FillStart
    <3> QED
      BY <1>2, <3>2 DEF AddedFilesAreRead
  <2>2. CASE ~FillStart
    BY <1>2, <2>2, ClientStep DEF AddedFilesAreRead, GoDown, FillField, fillVars
  <2> QED
    BY <2>1, <2>2
<1> QED
  BY <1>1, <1>2, SeenStep

LEMMA NotLostStep ==
  ASSUME IInv, [Next]_vars
  PROVE  FilesAreNotLost'
<1> USE DEF IInv, TypeOK, SeenType
<1> SUFFICES ASSUME NEW r \in Requests, NEW k \in (DOMAIN seen[r])', NEW l \in (DOMAIN seen[r])',
                    k < l, NEW t \in Fillers
             PROVE  seen'[r][k][t] \subseteq seen'[r][l][t]
  BY DEF FilesAreNotLost
<1>1. k \in DOMAIN seen[r] /\ seen'[r][k] = seen[r][k]
  <2>1. seen'[r] \in Seq(Sources)
    BY TypeStep
  <2>2. seen[r] \in Seq(Sources) /\ l \in 1..Len(seen'[r]) /\ k \in 1..Len(seen'[r])
    BY <2>1
  <2>3. l \in DOMAIN seen[r] \/ l = Len(seen[r]) + 1
    BY SeenStep
  <2>4. k # Len(seen[r]) + 1
    BY <2>2, <2>3
  <2> QED
    BY <2>4, SeenStep
<1>2. CASE FillField /\ r = request /\ seen'[r][l] = Current
  BY <1>1, <1>2 DEF CurrentInv, FillField
<1>3. CASE l \in DOMAIN seen[r] /\ seen'[r][l] = seen[r][l]
  BY <1>1, <1>3 DEF FilesAreNotLost
<1> QED
  BY <1>2, <1>3, SeenStep

LEMMA ConsistentStep ==
  ASSUME IInv, [Next]_vars
  PROVE  CopiesAreConsistent'
<1> USE FilesAssumption DEF IInv, TypeOK, SeenType, Requests
<1> SUFFICES ASSUME NEW r \in Copied, NEW k \in (DOMAIN seen[r])', NEW l \in (DOMAIN seen[r])',
                    NEW t \in Fillers \ InPlace
             PROVE  seen'[r][k][t] = seen'[r][l][t]
  BY DEF CopiesAreConsistent
<1>1. CASE FillField /\ r = request
  <2>1. Current[t] = copy[t]
    BY <1>1 DEF Current
  <2>2. \A m \in DOMAIN seen[r] : seen[r][m][t] = copy[t]
    BY <1>1 DEF CurrentInv, FillField
  <2> QED
    BY <2>1, <2>2, SeenStep
<1>2. CASE ~(FillField /\ r = request)
  <2>1. \A m \in DOMAIN seen'[r] : m \in DOMAIN seen[r] /\ seen'[r][m] = seen[r][m]
    BY <1>2, SeenStep
  <2>2. k \in DOMAIN seen[r] /\ l \in DOMAIN seen[r]
    BY <2>1
  <2>3. seen[r][k][t] = seen[r][l][t]
    BY <2>2 DEF CopiesAreConsistent
  <2> QED
    BY <2>1, <2>2, <2>3
<1> QED
  BY <1>1, <1>2
-----------------------------------------------------------------------------
(* The inductive invariant.                                                *)
THEOREM Inductive == Spec => []IInv
<1>1. IInv /\ [Next]_vars => IInv'
  BY TypeStep, LockStep, AddingStep, OutcomeStep, ProgressStep, CopyInvStep, CurrentStep,
     AddedStep, NotLostStep, ConsistentStep DEF IInv
<1> QED
  BY InitIInv, <1>1, PTL DEF Spec

(* The state of ConfigFile and of Configure has its types.                 *)
THEOREM TypeCorrect == Spec => []TypeOK
<1>1. IInv => TypeOK
  BY DEF IInv
<1> QED
  BY Inductive, <1>1, PTL

(* Every file that ConfigFile reported as added before the fill of a       *)
(* request began is read by some filler for each of its fields.            *)
THEOREM AddedFilesReachFill == Spec => []AddedFilesAreRead
<1>1. IInv => AddedFilesAreRead
  BY DEF IInv
<1> QED
  BY Inductive, <1>1, PTL

(* No field is filled without a file that an earlier one was filled from.  *)
THEOREM NoFileLost == Spec => []FilesAreNotLost
<1>1. IInv => FilesAreNotLost
  BY DEF IInv
<1> QED
  BY Inductive, <1>1, PTL

(* A request with a copy of the fillers is filled from one set of files by *)
(* the fillers that are replaced.                                          *)
THEOREM OneCopyPerRequest == Spec => []CopiesAreConsistent
<1>1. IInv => CopiesAreConsistent
  BY DEF IInv
<1> QED
  BY Inductive, <1>1, PTL
=============================================================================
