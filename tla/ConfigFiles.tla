---------------------------- MODULE ConfigFiles ----------------------------
(***************************************************************************)
(* Configuration files that arrive while Configure fills the requests:     *)
(* Registry.ConfigFile (registry.go) against Request.fill and the fields   *)
(* of fillStruct (fill.go).                                                *)
(*                                                                         *)
(* ConfigFile holds the registry's lock while it offers the file to one    *)
(* filler after the other.  A fill takes the lock only to get its fillers: *)
(* the registry's own collection, by pointer, or a copy of it when the     *)
(* request brings fillers.  A prefix makes a copy as well, later and       *)
(* without the lock.  Each field of the struct is then filled from what    *)
(* the collection holds when its turn comes.                               *)
(***************************************************************************)
EXTENDS Naturals, Sequences

CONSTANTS
  Clients,      \* the goroutines that call ConfigFile
  NoOne,        \* the holder of a free lock
  Files,        \* the configuration files, each added at most once
  Tags,         \* the fillers that accept files, in their order
  InPlace,      \* those that keep the files themselves; the others, like
                \* FileFiller, give way to a new filler
  NumRequests,  \* the requests are 1..NumRequests
  Copied,       \* those with fillers or a prefix of their own
  Prefixed,     \* those of them that have only a prefix
  NumFields,    \* fields at the top level of each request
  Idle          \* the state of a goroutine that is not in ConfigFile

ASSUME FilesAssumption ==
  /\ NoOne \notin Clients
  /\ Tags \in Seq(STRING) /\ InPlace \subseteq DOMAIN Tags
  /\ NumRequests \in Nat /\ NumFields \in Nat \ {0}
  /\ Copied \subseteq 1..NumRequests /\ Prefixed \subseteq Copied

Fillers  == DOMAIN Tags
Requests == 1..NumRequests
Fields   == 1..NumFields

(* What each filler of a collection reads. *)
Sources == [Fillers -> SUBSET Files]

VARIABLES
  lock,      \* the holder of the registry's lock
  sources,   \* what the fillers of the registry read
  adding,    \* the calls of ConfigFile that have not returned
  outcome,   \* what ConfigFile returned for each file
  conf,      \* where Configure is
  request,   \* the request being filled
  field,     \* the field being filled
  copy,      \* the copy of the fillers, when the request has one
  promised,  \* for each request, the files added when its fill began
  seen       \* for each field filled, what its fillers read

vars == <<lock, sources, adding, outcome, conf, request, field, copy, promised, seen>>

fillVars == <<conf, request, field, copy, promised, seen>>

(* A call of ConfigFile: the file, the next filler to offer it to, what    *)
(* that filler read when it was asked, what the loop has met so far.       *)
Call == [file : Files, next : 1..(Len(Tags) + 1), asked : BOOLEAN,
         base : SUBSET Files, okay : BOOLEAN, refused : BOOLEAN]

ASSUME IdleAssumption == Idle \notin Call

Init ==
  /\ lock = NoOne
  /\ sources = [t \in Fillers |-> {}]
  /\ adding = [c \in Clients |-> Idle]
  /\ outcome = [f \in Files |-> "none"]
  /\ conf = "fillStart" /\ request = 1 /\ field = 1
  /\ copy = [t \in Fillers |-> {}]
  /\ promised = [r \in Requests |-> {}]
  /\ seen = [r \in Requests |-> <<>>]
-----------------------------------------------------------------------------
(* ConfigFile.                                                             *)

Offered == {adding[c].file : c \in {d \in Clients : adding[d] # Idle}}

(* MUTANT: without the lock. *)
ConfigFileUnlocked(c, f) ==
  /\ adding[c] = Idle
  /\ outcome[f] = "none" /\ f \notin Offered
  /\ lock' = c
  /\ adding' = [adding EXCEPT ![c] =
       [file |-> f, next |-> 1, asked |-> FALSE, base |-> {},
        okay |-> FALSE, refused |-> FALSE]]
  /\ UNCHANGED <<sources, outcome, fillVars>>

ConfigFileLock(c, f) ==
  /\ adding[c] = Idle
  /\ outcome[f] = "none" /\ f \notin Offered
  /\ lock = NoOne
  /\ lock' = c
  /\ adding' = [adding EXCEPT ![c] =
       [file |-> f, next |-> 1, asked |-> FALSE, base |-> {},
        okay |-> FALSE, refused |-> FALSE]]
  /\ UNCHANGED <<sources, outcome, fillVars>>

(* AddConfigFile of the next filler reads the file. *)
AddConfigFile(c) ==
  /\ adding[c] # Idle
  /\ adding[c].next <= Len(Tags) /\ ~adding[c].asked
  /\ adding' = [adding EXCEPT ![c].asked = TRUE,
                              ![c].base = sources[adding[c].next]]
  /\ UNCHANGED <<lock, sources, outcome, fillVars>>

(* MUTANT: the new filler replaces the files read so far. *)
AcceptedOnly(c) ==
  LET t == adding[c].next
  IN  /\ adding[c] # Idle /\ adding[c].asked
      /\ sources' = [sources EXCEPT ![t] = {adding[c].file}]
      /\ adding' = [adding EXCEPT ![c].asked = FALSE,
                                  ![c].next = t + 1,
                                  ![c].okay = @ \/ t \notin InPlace]
      /\ UNCHANGED <<lock, outcome, fillVars>>

(* MUTANT: the loop skips the filler that follows. *)
AcceptedSkips(c) ==
  LET t == adding[c].next
  IN  /\ adding[c] # Idle /\ adding[c].asked
      /\ sources' = [sources EXCEPT ![t] = adding[c].base \cup {adding[c].file}]
      /\ adding' = [adding EXCEPT ![c].asked = FALSE,
                                  ![c].next = t + 2,
                                  ![c].okay = @ \/ t \notin InPlace]
      /\ UNCHANGED <<lock, outcome, fillVars>>

(* It has added the file.  Only a filler that gives way to another counts  *)
(* as a success.                                                           *)
Accepted(c) ==
  LET t == adding[c].next
  IN  /\ adding[c] # Idle /\ adding[c].asked
      /\ sources' = [sources EXCEPT ![t] = adding[c].base \cup {adding[c].file}]
      /\ adding' = [adding EXCEPT ![c].asked = FALSE,
                                  ![c].next = t + 1,
                                  ![c].okay = @ \/ t \notin InPlace]
      /\ UNCHANGED <<lock, outcome, fillVars>>

(* The filler does not know this type of file. *)
Rejected(c) ==
  /\ adding[c] # Idle /\ adding[c].asked
  /\ adding' = [adding EXCEPT ![c].asked = FALSE,
                              ![c].next = @ + 1,
                              ![c].refused = TRUE]
  /\ UNCHANGED <<lock, sources, outcome, fillVars>>

Return(c, result) ==
  /\ lock' = NoOne
  /\ adding' = [adding EXCEPT ![c] = Idle]
  /\ outcome' = [outcome EXCEPT ![adding[c].file] = result]
  /\ UNCHANGED <<sources, fillVars>>

(* Any other error ends the loop: the fillers asked before keep the file. *)
Failed(c) ==
  /\ adding[c] # Idle /\ adding[c].asked
  /\ Return(c, "failed")

ConfigFileUnlock(c) ==
  /\ adding[c] # Idle
  /\ adding[c].next > Len(Tags)
  /\ Return(c, IF adding[c].okay THEN "added"
               ELSE IF adding[c].refused THEN "rejected" ELSE "unable")
-----------------------------------------------------------------------------
(* Configure.                                                              *)

(* getFillers, which copies what is not the registry's own.  For a prefix  *)
(* alone the copy stands for what fill holds, the live fillers, until      *)
(* GoDown.                                                                 *)
FillStart ==
  /\ conf = "fillStart"
  /\ request <= NumRequests
  /\ lock = NoOne
  /\ copy' = sources
  /\ conf' = IF request \in Prefixed THEN "prefix" ELSE "field"
  /\ field' = 1
  /\ promised' = [promised EXCEPT ![request] = {f \in Files : outcome[f] = "added"}]
  /\ UNCHANGED <<lock, sources, adding, outcome, request, seen>>

(* Recurse for the prefix copies the live collection, without the lock. *)
GoDown ==
  /\ conf = "prefix"
  /\ copy' = sources
  /\ conf' = "field"
  /\ UNCHANGED <<lock, sources, adding, outcome, request, field, promised, seen>>

(* MUTANT: the fill goes on with the live fillers. *)
CurrentLive == sources

(* What the fillers of the request being filled read now: those of a copy  *)
(* that keep their files themselves are still the registry's.              *)
Current ==
  [t \in Fillers |-> IF request \in Copied /\ t \notin InPlace THEN copy[t]
                     ELSE sources[t]]

(* Recurse copies the collection for the next field, without the lock. *)
FillField ==
  /\ conf = "field"
  /\ seen' = [seen EXCEPT ![request] = Append(@, Current)]
  /\ IF field < NumFields
     THEN field' = field + 1 /\ UNCHANGED <<conf, request>>
     ELSE request' = request + 1 /\ conf' = "fillStart" /\ field' = 1
  /\ UNCHANGED <<lock, sources, adding, outcome, copy, promised>>

Next ==
  \/ \E c \in Clients, f \in Files : ConfigFileLock(c, f)
  \/ \E c \in Clients : \/ AddConfigFile(c)
                        \/ Accepted(c)
                        \/ Rejected(c)
                        \/ Failed(c)
                        \/ ConfigFileUnlock(c)
  \/ FillStart
  \/ GoDown
  \/ FillField

Spec == Init /\ [][Next]_vars
-----------------------------------------------------------------------------
(* The types of the state (registry.go:143-180, fill.go:182-250).          *)
TypeOK ==
  /\ lock \in Clients \cup {NoOne}
  /\ sources \in Sources /\ copy \in Sources
  /\ adding \in [Clients -> Call \cup {Idle}]
  /\ outcome \in [Files -> {"none", "added", "rejected", "unable", "failed"}]
  /\ conf \in {"fillStart", "prefix", "field"}
  /\ request \in 1..(NumRequests + 1)
  /\ field \in Fields
  /\ promised \in [Requests -> SUBSET Files]
  /\ \A r \in Requests : /\ Len(seen[r]) <= NumFields
                         /\ \A k \in DOMAIN seen[r] : seen[r][k] \in Sources

(* A file whose ConfigFile has returned without error before the fill of   *)
(* a request began is read by some filler for every field of that request, *)
(* whether it works with a copy or with the live fillers, and however many *)
(* files are added at the same time (registry.go:143-180, request.go:91).  *)
AddedFilesAreRead ==
  \A r \in Requests : \A k \in DOMAIN seen[r] :
    \A f \in promised[r] : \E t \in Fillers : f \in seen[r][k][t]

(* Once a field has been filled from a file, no later field is filled      *)
(* without it (fill.go:216-248): files are never lost to one another.      *)
FilesAreNotLost ==
  \A r \in Requests : \A k, l \in DOMAIN seen[r] :
    k < l => \A t \in Fillers : seen[r][k][t] \subseteq seen[r][l][t]

(* A request that has a copy is filled from one set of files throughout,   *)
(* as far as its fillers are replaced and not changed (request.go:95).     *)
CopiesAreConsistent ==
  \A r \in Copied : \A k, l \in DOMAIN seen[r] :
    \A t \in Fillers \ InPlace : seen[r][k][t] = seen[r][l][t]

(* Nobody stores a filler in the registry's collection while Configure     *)
(* reads it without the lock (registry.go:170, fill.go:257): "New          *)
(* configuration files can also be added while Configure is running"       *)
(* (registry.go:193).                                                      *)
NoFillersRace ==
  conf = "prefix" \/ (conf = "field" /\ request \notin Copied) =>
    \A c \in Clients : adding[c] = Idle \/ ~adding[c].asked
=============================================================================
