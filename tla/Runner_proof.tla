---------------------------- MODULE Runner_proof ----------------------------
(***************************************************************************)
(* Proofs about Runner, for every plan, every set of keys and any number   *)
(* of runs: what a bag delivers, and what runs that share one storage keep *)
(* apart.                                                                  *)
(***************************************************************************)
EXTENDS Runner, Flatten_proof

-----------------------------------------------------------------------------
(* The bag and its validation. *)

Entries == [input : {k.input : k \in Keys}, binding : {k.binding : k \in Keys},
            type : {k.type : k \in Keys}, shape : {"One", "Many"}, values : Seq(Nat)]

\* A bag filled for run gen: its values are the run's, its bindings differ.
Carries(s, gen) ==
    /\ \A i \in DOMAIN s : ToSet(s[i].values) \subseteq {gen}
    /\ \A i, j \in DOMAIN s : s[i].binding = s[j].binding => i = j

LEMMA BagFacts ==
    ASSUME NEW s \in Seq(Entries)
    PROVE  /\ Len(s) \in Nat /\ DOMAIN s = 1..Len(s)
           /\ \A i \in DOMAIN s : s[i] \in Entries /\ s[i].values \in Seq(Nat)
<1>1. Len(s) \in Nat /\ DOMAIN s = 1..Len(s)
  BY LenProperties
<1>2. \A i \in DOMAIN s : s[i] \in Entries
  BY <1>1, ElementOfSeq
<1>. QED BY <1>1, <1>2 DEF Entries

LEMMA OneBound ==
    \A e : \A b, c \in Binds(e) : b = c
BY BindingAssumption DEF Binds

\* The bag passed: every entry fits its input and no Required input is missing.
LEMMA PassedFacts ==
    ASSUME NEW s \in Seq(Entries), StartError(s) = "none"
    PROVE  /\ \A i \in DOMAIN s : EntryError(s[i]) = "none"
           /\ \A b \in Bound : b.required => Supplied(s, b)
<1> DEFINE wrong == {i \in DOMAIN s : EntryError(s[i]) # "none"}
<1>1. wrong = {}
  <2>1. SUFFICES ASSUME wrong # {} PROVE FALSE
    OBVIOUS
  <2>2. wrong \subseteq Nat
    BY BagFacts
  <2>3. \E i \in wrong : \A j \in wrong : i <= j
    BY <2>1, <2>2, FirstPosition
  <2>4. StartError(s) = EntryError(s[CHOOSE i \in wrong : \A j \in wrong : i <= j])
    BY <2>1 DEF StartError
  <2> DEFINE k == CHOOSE i \in wrong : \A j \in wrong : i <= j
  <2>5. k \in wrong
    BY <2>3
  <2>. QED BY <2>4, <2>5
<1>2. \A b \in Bound : b.required => Supplied(s, b)
  BY <1>1 DEF StartError
<1>. QED BY <1>1, <1>2

LEMMA EntryFacts ==
    ASSUME NEW e, EntryError(e) = "none"
    PROVE  \E b \in Bound : /\ Binds(e) = {b}
                            /\ b.input = e.input /\ b.binding = e.binding
                            /\ ShapeFits(e, b)
<1>1. Binds(e) # {} /\ \A b \in Binds(e) : ShapeFits(e, b)
  BY DEF EntryError
<1>2. PICK b \in Binds(e) : ShapeFits(e, b)
  BY <1>1
<1>3. b \in Bound /\ b.input = e.input /\ b.binding = e.binding
  BY DEF Binds
<1>4. Binds(e) = {b}
  BY OneBound
<1>. QED BY <1>2, <1>3, <1>4

\* What is moved for a bound input comes from the entries that bind it.
LEMMA MovedFacts ==
    ASSUME NEW s \in Seq(Entries), NEW b
    PROVE  /\ Moved(s, b) \in Seq(Nat)
           /\ \A x \in ToSet(Moved(s, b)) : \E i \in DOMAIN s :
                 b \in Binds(s[i]) /\ x \in ToSet(s[i].values)
           /\ \A k \in DOMAIN s :
                 b \in Binds(s[k]) /\ (\A i \in DOMAIN s : b \in Binds(s[i]) => i = k) =>
                     Moved(s, b) = s[k].values
<1> DEFINE parts == [i \in DOMAIN s |-> IF b \in Binds(s[i]) THEN s[i].values ELSE <<>>]
<1>1. Len(s) \in Nat /\ DOMAIN s = 1..Len(s) /\ \A i \in DOMAIN s : s[i].values \in Seq(Nat)
  BY BagFacts
<1>2. parts \in Seq(Seq(Nat)) /\ DOMAIN parts = DOMAIN s
  <2>1. <<>> \in Seq(Nat)
    OBVIOUS
  <2>2. parts \in [1..Len(s) -> Seq(Nat)]
    BY <1>1, <2>1
  <2> HIDE DEF parts
  <2>. QED BY <1>1, <2>2
<1>3. \A i \in DOMAIN s : parts[i] = IF b \in Binds(s[i]) THEN s[i].values ELSE <<>>
  OBVIOUS
<1>4. Moved(s, b) = FlattenSeq(parts)
  BY DEF Moved
<1> HIDE DEF parts
<1>5. ToSet(<<>>) = {}
  BY DEF ToSet
<1>6. Moved(s, b) \in Seq(Nat)
  BY <1>2, <1>4, FlattenType
<1>7. ASSUME NEW x \in ToSet(Moved(s, b))
      PROVE  \E i \in DOMAIN s : b \in Binds(s[i]) /\ x \in ToSet(s[i].values)
  <2>1. x \in UNION {ToSet(parts[i]) : i \in DOMAIN parts}
    BY <1>2, <1>4, <1>7, FlattenElements
  <2>2. PICK i \in DOMAIN s : x \in ToSet(parts[i])
    BY <1>2, <2>1
  <2>. QED BY <1>3, <1>5, <2>2
<1>8. ASSUME NEW k \in DOMAIN s, b \in Binds(s[k]),
             \A i \in DOMAIN s : b \in Binds(s[i]) => i = k
      PROVE  Moved(s, b) = s[k].values
  <2>1. parts[k] = s[k].values /\ \A i \in DOMAIN parts : i # k => parts[i] = <<>>
    BY <1>2, <1>3, <1>8
  <2>2. k \in DOMAIN parts
    BY <1>2, <1>8
  <2>. QED BY <1>2, <1>4, <2>1, <2>2, FlattenOne
<1>. QED BY <1>6, <1>7, <1>8

\* A bag that passed is delivered: every entry to its input, in the number that
\* the input takes.
LEMMA Delivery ==
    ASSUME NEW s \in Seq(Entries), NEW gen, Carries(s, gen), StartError(s) = "none"
    PROVE  /\ \A i \in DOMAIN s : \E b \in Bound :
                 /\ b.input = s[i].input /\ b.binding = s[i].binding
                 /\ Moved(s, b) = s[i].values
           /\ \A b \in Bound : /\ ~b.many => Len(Moved(s, b)) <= 1
                               /\ b.required => Moved(s, b) # <<>>
<1>1. \A i \in DOMAIN s : EntryError(s[i]) = "none"
  BY PassedFacts
<1>2. ASSUME NEW b, NEW k \in DOMAIN s, b \in Binds(s[k]) PROVE Moved(s, b) = s[k].values
  <2>1. \A i \in DOMAIN s : b \in Binds(s[i]) => i = k
    BY <1>2 DEF Carries, Binds
  <2>. QED BY <1>2, <2>1, MovedFacts
<1>3. ASSUME NEW i \in DOMAIN s
      PROVE  \E b \in Bound : /\ b.input = s[i].input /\ b.binding = s[i].binding
                              /\ Moved(s, b) = s[i].values
  <2>1. PICK b \in Bound : Binds(s[i]) = {b} /\ b.input = s[i].input /\ b.binding = s[i].binding
    BY <1>1, EntryFacts
  <2>2. Moved(s, b) = s[i].values
    BY <1>2, <2>1
  <2>. QED BY <2>1, <2>2
<1>4. ASSUME NEW b \in Bound, ~b.many PROVE Len(Moved(s, b)) <= 1
  <2>1. CASE \E k \in DOMAIN s : b \in Binds(s[k])
    <3>1. PICK k \in DOMAIN s : b \in Binds(s[k])
      BY <2>1
    <3>2. ShapeFits(s[k], b)
      BY <1>1, <3>1, EntryFacts
    <3>3. Len(s[k].values) = 1
      BY <1>4, <3>2 DEF ShapeFits
    <3>4. Moved(s, b) = s[k].values
      BY <1>2, <3>1
    <3>5. Len(Moved(s, b)) = 1
      BY <3>3, <3>4, Zenon
    <3>. QED BY <3>5
  <2>2. CASE \A k \in DOMAIN s : b \notin Binds(s[k])
    <3>1. ToSet(Moved(s, b)) = {} /\ Moved(s, b) \in Seq(Nat)
      BY <2>2, MovedFacts
    <3>2. Len(Moved(s, b)) \in Nat /\ DOMAIN Moved(s, b) = 1..Len(Moved(s, b))
      BY <3>1, LenProperties
    <3>3. DOMAIN Moved(s, b) = {}
      BY <3>1 DEF ToSet
    <3>4. 1 \notin 1..Len(Moved(s, b))
      BY <3>2, <3>3
    <3>. QED BY <3>2, <3>4
  <2>. QED BY <2>1, <2>2
<1>5. ASSUME NEW b \in Bound, b.required PROVE Moved(s, b) # <<>>
  <2>1. PICK i \in DOMAIN s : s[i].binding = b.binding /\ s[i].values # <<>>
    BY <1>5, PassedFacts DEF Supplied
  <2>2. PICK c \in Bound : Binds(s[i]) = {c} /\ c.binding = s[i].binding
    BY <1>1, EntryFacts
  <2>3. c = b
    BY <2>1, <2>2, BindingAssumption
  <2>4. Moved(s, b) = s[i].values
    BY <1>2, <2>2, <2>3
  <2>. QED BY <2>1, <2>4
<1>. QED BY <1>3, <1>4, <1>5

-----------------------------------------------------------------------------
(* The inductive invariant. *)

Errors == {"none", "UnexpectedRunInput", "RunInputCardinality", "RunInputTypeMismatch",
           "MissingRunInput"}

Stores == [status : [Node -> Status], external : [Bound -> Seq(Nat)],
           outputs : [Node -> Nat], errors : [Node -> Nat]]
Runs   == [gen : Gen, store : Stores, error : Errors, finished : BOOLEAN]
Returned == [gen : Gen, outputs : [Active -> Nat], errors : [Node -> Nat]]

TypeOK ==
    /\ starts \in 0..MaxStarts
    /\ bag \in Seq(Entries) /\ given \in Seq(Entries)
    /\ run \in Runs \cup {Nothing}
    /\ report \in Returned \cup {Nothing}
    /\ DOMAIN queues = Gen

\* The live run is the last one started and is not retired; unless it has an
\* error to report, it holds what its bag delivered.
LiveRun ==
    run # Nothing =>
        /\ run.gen = starts /\ run.gen \notin retired
        /\ run.error = "none" =>
              /\ Carries(given, run.gen) /\ StartError(given) = "none"
              /\ run.store.external = [b \in Bound |-> Moved(given, b)]

\* Only runs that were started are asked to stop or retired, and nothing else
\* stops one.
StopsExplained ==
    asked \subseteq 1..starts /\ retired \subseteq 1..starts /\ stopped \subseteq asked \cup retired

\* What may be in the queue of a run: events of its own jobs.
Own(gen) ==
    [gen : {gen}, node : Node, kind : {k \in Kind : k = "cancelled" => gen \in stopped}]

QueuesOwn == \A gen \in Gen : queues[gen] \in Seq(Own(gen))

RunApart ==
    run # Nothing =>
        /\ \A b \in Bound : ToSet(run.store.external[b]) \subseteq {run.gen}
        /\ \A n \in Node : {run.store.outputs[n], run.store.errors[n]} \subseteq {0, run.gen}

JobsApart ==
    \A j \in jobs : /\ j.gen \in Gen /\ j.node \in Node
                    /\ \A b \in DOMAIN j.inputs : ToSet(j.inputs[b]) \subseteq {j.gen}

ReportApart ==
    report # Nothing =>
        /\ \A n \in Active : report.outputs[n] \in {0, report.gen}
        /\ \A n \in Node : report.errors[n] \in {0, report.gen}

RunnerInv ==
    /\ TypeOK /\ IdleHoldsNothing
    /\ Carries(bag, starts + 1) /\ LiveRun /\ RunApart /\ StopIsOwn
    /\ StopsExplained /\ QueuesOwn /\ JobsApart /\ ReportApart

LEMMA InitInv == Init => RunnerInv
<1> SUFFICES ASSUME Init PROVE RunnerInv
  OBVIOUS
<1>1. TypeOK
  BY BoundAssumption DEF Init, TypeOK
<1>2. Carries(bag, starts + 1)
  BY DEF Init, Carries
<1>3. QueuesOwn
  BY DEF Init, QueuesOwn, Gen
<1>. QED BY <1>1, <1>2, <1>3
         DEF Init, RunnerInv, IdleHoldsNothing, LiveRun, RunApart, StopIsOwn, StopsExplained,
             JobsApart, ReportApart

\* What each part of the invariant is about.
LEMMA Frames ==
    ASSUME RunnerInv
    PROVE  /\ UNCHANGED scratch => IdleHoldsNothing'
           /\ UNCHANGED <<run, given, starts, retired>> => LiveRun'
           /\ UNCHANGED run => RunApart'
           /\ UNCHANGED <<run, asked>> => StopIsOwn'
           /\ UNCHANGED <<starts, retired, stopped, asked>> => StopsExplained'
           /\ UNCHANGED <<queues, stopped>> => QueuesOwn'
           /\ UNCHANGED jobs => JobsApart'
           /\ UNCHANGED report => ReportApart'
<1>1. UNCHANGED scratch => IdleHoldsNothing'
  BY DEF RunnerInv, IdleHoldsNothing
<1>2. UNCHANGED <<run, given, starts, retired>> => LiveRun'
  BY DEF RunnerInv, LiveRun
<1>3. (UNCHANGED run => RunApart') /\ (UNCHANGED <<run, asked>> => StopIsOwn')
  BY DEF RunnerInv, RunApart, StopIsOwn
<1>4. UNCHANGED <<starts, retired, stopped, asked>> => StopsExplained'
  BY DEF RunnerInv, StopsExplained
<1>5. UNCHANGED <<queues, stopped>> => QueuesOwn'
  BY DEF RunnerInv, QueuesOwn, Own
<1>6. (UNCHANGED jobs => JobsApart') /\ (UNCHANGED report => ReportApart')
  BY DEF RunnerInv, JobsApart, ReportApart
<1>. QED BY <1>1, <1>2, <1>3, <1>4, <1>5, <1>6

\* A stop makes more events possible, never fewer.
LEMMA StopsGrow ==
    ASSUME QueuesOwn, stopped \subseteq stopped', UNCHANGED queues PROVE QueuesOwn'
<1> SUFFICES ASSUME NEW gen \in Gen PROVE queues[gen] \in Seq(Own(gen)')
  BY DEF QueuesOwn
<1>1. Own(gen) \subseteq Own(gen)'
  BY DEF Own
<1>2. queues[gen] \in Seq(Own(gen))
  BY DEF QueuesOwn
<1> HIDE DEF Own
<1>. QED BY <1>1, <1>2, SeqMonotonic

-----------------------------------------------------------------------------
(* The caller. *)

LEMMA SupplyInv ==
    ASSUME RunnerInv, NEW key \in Keys, NEW shape \in {"One", "Many"},
           NEW values \in Seq(Nat), ToSet(values) \subseteq {starts + 1},
           Supply(key, shape, values)
    PROVE  RunnerInv'
<1>1. bag' \in Seq(Entries) /\ Carries(bag', starts + 1)
  <2>1. CASE Taken(bag, key)
    BY <2>1 DEF Supply, RunnerInv, TypeOK
  <2>2. CASE ~Taken(bag, key)
    <3> DEFINE e == Entry(key, shape, values)
    <3>1. bag \in Seq(Entries) /\ Carries(bag, starts + 1)
      BY DEF RunnerInv, TypeOK
    <3>2. e \in Entries /\ e.values = values /\ e.binding = key.binding
      BY DEF Entry, Entries
    <3>3. bag' = Append(bag, e)
      BY <2>2 DEF Supply
    <3>4. \A i \in DOMAIN bag : bag[i].binding # e.binding
      BY <2>2, <3>2 DEF Taken
    <3> HIDE DEF e
    <3>5. Len(bag) \in Nat /\ DOMAIN bag = 1..Len(bag)
      BY <3>1, LenProperties
    <3>6. /\ bag' \in Seq(Entries) /\ DOMAIN bag' = 1..(Len(bag) + 1)
          /\ \A i \in DOMAIN bag' : bag'[i] = IF i = Len(bag) + 1 THEN e ELSE bag[i]
      BY <3>1, <3>2, <3>3, <3>5
    <3>7. \A i \in DOMAIN bag' : i = Len(bag) + 1 \/ i \in DOMAIN bag
      BY <3>5, <3>6
    <3>8. Carries(bag', starts + 1)
      BY <3>1, <3>2, <3>4, <3>6, <3>7 DEF Carries
    <3>. QED BY <3>6, <3>8
  <2>. QED BY <2>1, <2>2
<1>2. UNCHANGED <<starts, scratch, run, given, jobs, queues, retired, stopped, asked, report>>
  BY DEF Supply, coordination
<1>3. TypeOK'
  BY <1>1, <1>2 DEF RunnerInv, TypeOK
<1>. QED BY <1>1, <1>2, <1>3, Frames DEF RunnerInv

LEMMA StoreEqual ==
    ASSUME NEW s \in Stores, NEW t \in Stores,
           s.status = t.status, s.external = t.external, s.outputs = t.outputs,
           s.errors = t.errors
    PROVE  s = t
<1>1. /\ s = [status |-> s.status, external |-> s.external, outputs |-> s.outputs,
              errors |-> s.errors]
      /\ t = [status |-> t.status, external |-> t.external, outputs |-> t.outputs,
              errors |-> t.errors]
  BY DEF Stores
<1>. QED BY <1>1

LEMMA EmptyFacts ==
    /\ Empty \in Stores
    /\ \A s \in Stores : Reset(s) = Empty
<1>1. Empty \in Stores
  BY DEF Empty, Stores, Status
<1>2. ASSUME NEW s \in Stores PROVE Reset(s) = Empty
  <2> DEFINE p == [n \in Node |-> "Pending"]
             x == [b \in Bound |-> <<>>]
             o == [n \in Node |-> 0]
  <2>1. /\ p \in [Node -> Status] /\ x \in [Bound -> Seq(Nat)] /\ o \in [Node -> Nat]
        /\ Reset(s) = [s EXCEPT !.status = p, !.external = x, !.outputs = o, !.errors = o]
        /\ Empty = [status |-> p, external |-> x, outputs |-> o, errors |-> o]
    BY DEF Reset, Empty, Status
  <2> HIDE DEF p, x, o
  <2>2. /\ Reset(s) \in Stores
        /\ Reset(s).status = p /\ Reset(s).external = x
        /\ Reset(s).outputs = o /\ Reset(s).errors = o
    BY <2>1 DEF Stores
  <2>. QED BY <1>1, <2>1, <2>2, StoreEqual
<1>. QED BY <1>1, <1>2

\* A run begins with empty storage, filled with what its bag delivers.
LEMMA StorageFacts ==
    ASSUME RunnerInv
    PROVE  /\ Storage = Empty
           /\ Filled \in Stores
           /\ Filled.external = [b \in Bound |-> Moved(bag, b)]
           /\ Filled.outputs = [n \in Node |-> 0] /\ Filled.errors = [n \in Node |-> 0]
           /\ Filled.status = [n \in Node |-> "Pending"]
<1>1. Storage = Empty
  BY EmptyFacts DEF Storage, RunnerInv, IdleHoldsNothing
<1>2. \A b \in Bound : Moved(bag, b) \in Seq(Nat)
  BY MovedFacts DEF RunnerInv, TypeOK
<1>3. [b \in Bound |-> Moved(bag, b)] \in [Bound -> Seq(Nat)]
  BY <1>2
<1> DEFINE moved == [b \in Bound |-> Moved(bag, b)]
<1>4. Filled = [Empty EXCEPT !.external = moved] /\ moved \in [Bound -> Seq(Nat)]
  BY <1>1, <1>3 DEF Filled
<1> HIDE DEF moved
<1>5. /\ Filled \in Stores /\ Filled.external = moved
      /\ Filled.outputs = [n \in Node |-> 0] /\ Filled.errors = [n \in Node |-> 0]
      /\ Filled.status = [n \in Node |-> "Pending"]
  BY <1>4 DEF Empty, Stores, Status
<1>. QED BY <1>1, <1>5 DEF moved

LEMMA ErrorKinds == \A s \in Seq(Entries) : StartError(s) \in Errors
<1>1. \A e : EntryError(e) \in Errors
  BY DEF EntryError, Errors
<1>. QED BY <1>1 DEF StartError, Errors

\* A run begins: with what its bag delivers, or with an error and nothing.
LEMMA BorrowInv ==
    ASSUME RunnerInv, run = Nothing, starts < MaxStarts, starts' = starts + 1,
           NEW store, NEW error,
           \/ store = Filled /\ error = "none" /\ StartError(bag) = "none"
           \/ store = Empty /\ error \in Errors \ {"none"},
           Borrow(store, error), bag' = <<>>, UNCHANGED <<jobs, coordination, report>>
    PROVE  RunnerInv'
<1>1. /\ UNCHANGED <<jobs, queues, retired, stopped, asked, report>>
      /\ run' = [gen |-> starts + 1, store |-> store, error |-> error, finished |-> FALSE]
      /\ given' = bag /\ scratch' = Nothing
  BY DEF coordination, Borrow
<1>2. /\ starts \in Nat /\ starts' \in Gen /\ starts' = starts + 1 /\ starts' \in 0..MaxStarts
      /\ bag \in Seq(Entries) /\ Carries(bag, starts + 1)
  BY BoundAssumption DEF RunnerInv, TypeOK, Gen
<1>3. /\ store \in Stores
      /\ store.outputs = [n \in Node |-> 0] /\ store.errors = [n \in Node |-> 0]
      /\ store.status = [n \in Node |-> "Pending"]
  BY StorageFacts, EmptyFacts DEF Empty
<1>4. error \in Errors
  BY DEF Errors
<1>5. /\ run' \in Runs /\ run'.gen = starts' /\ run'.store = store /\ run'.error = error
  BY <1>1, <1>2, <1>3, <1>4 DEF Runs
<1>6. TypeOK' /\ Carries(bag', starts' + 1)
  BY <1>1, <1>2, <1>5 DEF RunnerInv, TypeOK, Carries
<1>7. LiveRun'
  <2>1. run'.gen \notin retired
    BY <1>2, <1>5 DEF RunnerInv, StopsExplained
  <2>2. ASSUME error = "none"
        PROVE  store.external = [b \in Bound |-> Moved(bag, b)] /\ StartError(bag) = "none"
    BY <2>2, StorageFacts
  <2>. QED BY <1>1, <1>2, <1>5, <2>1, <2>2 DEF LiveRun
<1>8. RunApart'
  <2>1. ASSUME NEW b \in Bound PROVE ToSet(store.external[b]) \subseteq {starts'}
    <3>1. CASE store = Filled
      <4>1. store.external[b] = Moved(bag, b)
        BY <3>1, StorageFacts
      <4>2. \A x \in ToSet(Moved(bag, b)) : x = starts'
        <5>1. SUFFICES ASSUME NEW x \in ToSet(Moved(bag, b)) PROVE x = starts'
          OBVIOUS
        <5>2. PICK i \in DOMAIN bag : x \in ToSet(bag[i].values)
          BY <1>2, <5>1, MovedFacts
        <5>. QED BY <1>2, <5>2 DEF Carries
      <4>. QED BY <4>1, <4>2
    <3>2. CASE store = Empty
      BY <3>2 DEF Empty, ToSet
    <3>. QED BY <3>1, <3>2
  <2>2. \A n \in Node : {store.outputs[n], store.errors[n]} \subseteq {0, starts'}
    BY <1>3
  <2>. QED BY <1>5, <2>1, <2>2 DEF RunApart
<1>9. StopIsOwn' /\ IdleHoldsNothing' /\ StopsExplained'
  BY <1>1, <1>2, <1>3, <1>5 DEF RunnerInv, StopIsOwn, IdleHoldsNothing, StopsExplained
<1>. QED BY <1>1, <1>6, <1>7, <1>8, <1>9, Frames DEF RunnerInv

LEMMA StartInv == ASSUME RunnerInv, Start \/ Execute PROVE RunnerInv'
<1>1. /\ run = Nothing /\ starts < MaxStarts /\ starts' = starts + 1 /\ bag' = <<>>
      /\ UNCHANGED <<jobs, coordination, report>>
  BY DEF Start, Execute
<1>2. StartError(bag) \in Errors
  BY ErrorKinds DEF RunnerInv, TypeOK
<1>3. Storage = Empty
  BY StorageFacts
<1>4. CASE StartError(bag) = "none"
  <2>1. Borrow(Filled, "none")
    BY <1>4 DEF Start, Execute
  <2>. QED BY <1>1, <1>4, <2>1, BorrowInv
<1>5. CASE StartError(bag) # "none" /\ Execute
  <2>1. Borrow(Empty, StartError(bag))
    BY <1>3, <1>5 DEF Execute
  <2>. QED BY <1>1, <1>2, <1>5, <2>1, BorrowInv
<1>6. CASE StartError(bag) # "none" /\ Start
  <2>1. scratch' = Empty /\ UNCHANGED <<run, given, queues, retired, stopped, asked>>
    BY <1>1, <1>3, <1>6 DEF Start, coordination
  <2>2. starts \in Nat /\ starts' \in 0..MaxStarts
    BY <1>1, BoundAssumption DEF RunnerInv, TypeOK
  <2>3. TypeOK' /\ Carries(bag', starts' + 1)
    BY <1>1, <2>1, <2>2 DEF RunnerInv, TypeOK, Carries
  <2>4. LiveRun' /\ IdleHoldsNothing' /\ StopsExplained'
    BY <1>1, <2>1, <2>2 DEF RunnerInv, LiveRun, IdleHoldsNothing, StopsExplained
  <2>. QED BY <1>1, <2>1, <2>3, <2>4, Frames DEF RunnerInv
<1>. QED BY <1>4, <1>5, <1>6

LEMMA DropInv == ASSUME RunnerInv, Trim \/ DropRun PROVE RunnerInv'
<1>1. CASE Trim
  <2>1. /\ scratch' = Nothing
        /\ UNCHANGED <<bag, starts, run, given, jobs, queues, retired, stopped, asked, report>>
    BY <1>1 DEF Trim, coordination
  <2>2. TypeOK' /\ IdleHoldsNothing'
    BY <2>1 DEF RunnerInv, TypeOK, IdleHoldsNothing
  <2>. QED BY <2>1, <2>2, Frames DEF RunnerInv
<1>2. CASE DropRun
  <2>1. /\ run # Nothing /\ run' = Nothing /\ given' = <<>> /\ report' = Nothing
        /\ scratch' = Reset(run.store)
        /\ retired' = retired \cup {run.gen} /\ stopped' = stopped \cup {run.gen}
        /\ UNCHANGED <<bag, starts, jobs, queues, asked>>
    BY <1>2 DEF DropRun, Retire, Queue, Cancel
  <2>2. run \in Runs /\ run.gen = starts /\ starts \in 1..starts
    BY <2>1 DEF RunnerInv, TypeOK, LiveRun, Runs, Gen
  <2>3. scratch' = Empty
    BY <2>1, <2>2, EmptyFacts DEF Runs
  <2>4. TypeOK' /\ IdleHoldsNothing' /\ LiveRun' /\ RunApart' /\ StopIsOwn' /\ ReportApart'
    BY <2>1, <2>3
       DEF RunnerInv, TypeOK, IdleHoldsNothing, LiveRun, RunApart, StopIsOwn, ReportApart
  <2>5. StopsExplained'
    BY <2>1, <2>2 DEF RunnerInv, StopsExplained
  <2>6. QueuesOwn'
    BY <2>1, StopsGrow DEF RunnerInv
  <2>. QED BY <2>1, <2>4, <2>5, <2>6, Frames DEF RunnerInv
<1>. QED BY <1>1, <1>2

LEMMA AskInv == ASSUME RunnerInv, NEW gen \in Gen, Ask(gen) PROVE RunnerInv'
<1>1. /\ gen <= starts /\ (run.gen = gen \/ gen \in retired)
      /\ asked' = asked \cup {gen} /\ stopped' = stopped \cup {gen}
      /\ UNCHANGED <<bag, starts, scratch, run, given, jobs, queues, retired, report>>
  BY DEF Ask, Cancel
<1>2. gen \in 1..starts
  BY <1>1, BoundAssumption DEF RunnerInv, TypeOK, Gen
<1>3. TypeOK' /\ StopIsOwn' /\ StopsExplained'
  BY <1>1, <1>2 DEF RunnerInv, TypeOK, StopIsOwn, StopsExplained
<1>4. QueuesOwn'
  BY <1>1, StopsGrow DEF RunnerInv
<1>. QED BY <1>1, <1>3, <1>4, Frames DEF RunnerInv

-----------------------------------------------------------------------------
(* The run and its jobs. *)

\* A step of the run that keeps its bag and what it delivered.
LEMMA RunStepInv ==
    ASSUME RunnerInv, run # Nothing, run' \in Runs,
           run'.gen = run.gen, run'.error = run.error,
           run'.store.external = run.store.external,
           \A n \in Node : /\ run'.store.outputs[n] \in {0, run.gen}
                           /\ run'.store.errors[n] \in {0, run.gen},
           \A n \in Node : run'.store.status[n] = "Cancelled" =>
                              run.store.status[n] = "Cancelled" \/ run.gen \in stopped,
           UNCHANGED <<bag, starts, scratch, given, retired, stopped, asked>>,
           DOMAIN queues' = Gen, report' \in Returned \cup {Nothing},
           QueuesOwn', JobsApart', ReportApart'
    PROVE  RunnerInv'
<1>1. TypeOK' /\ IdleHoldsNothing' /\ StopsExplained' /\ Carries(bag', starts' + 1)
  BY DEF RunnerInv, TypeOK, IdleHoldsNothing, StopsExplained
<1>2. LiveRun'
  BY DEF RunnerInv, LiveRun
<1>3. RunApart'
  BY DEF RunnerInv, RunApart
<1>4. run.gen \in stopped => run.gen \in asked
  BY DEF RunnerInv, LiveRun, StopsExplained
<1>5. StopIsOwn'
  BY <1>4 DEF RunnerInv, StopIsOwn
<1>. QED BY <1>1, <1>2, <1>3, <1>5 DEF RunnerInv

\* What the live run and the storage it borrowed look like.
LEMMA RunFacts ==
    ASSUME RunnerInv, run # Nothing
    PROVE  /\ run \in Runs /\ run.gen \in Gen /\ run.store \in Stores
           /\ \A n \in Node : /\ run.store.outputs[n] \in {0, run.gen}
                              /\ run.store.errors[n] \in {0, run.gen}
<1>1. run \in Runs
  BY DEF RunnerInv, TypeOK
<1>. QED BY <1>1 DEF Runs, RunnerInv, RunApart

LEMMA StartErrorInv == ASSUME RunnerInv, ReturnStartError PROVE RunnerInv'
<1>1. /\ run # Nothing /\ run' = [run EXCEPT !.finished = TRUE]
      /\ UNCHANGED <<bag, starts, scratch, given, jobs, queues, retired, stopped, asked, report>>
  BY DEF ReturnStartError, coordination
<1>2. /\ run' \in Runs /\ run'.gen = run.gen /\ run'.error = run.error
      /\ run'.store = run.store
  BY <1>1, RunFacts DEF Runs
<1>3. DOMAIN queues' = Gen /\ report' \in Returned \cup {Nothing}
  BY <1>1 DEF RunnerInv, TypeOK
<1>. QED BY <1>1, <1>2, <1>3, RunFacts, RunStepInv, Frames

LEMMA LaunchInv == ASSUME RunnerInv, NEW n \in Node, Launch(n) PROVE RunnerInv'
<1> DEFINE j == [gen |-> run.gen, node |-> n,
                 inputs |-> [b \in {x \in Bound : x.input[1] = n} |-> run.store.external[b]]]
<1>1. /\ run # Nothing /\ run' = [run EXCEPT !.store.status[n] = "Running"]
      /\ jobs' = jobs \cup {j}
      /\ UNCHANGED <<bag, starts, scratch, given, queues, retired, stopped, asked, report>>
  BY DEF Launch, Running, coordination
<1>2. /\ run' \in Runs /\ run'.gen = run.gen /\ run'.error = run.error
      /\ run'.store.external = run.store.external
      /\ run'.store.outputs = run.store.outputs /\ run'.store.errors = run.store.errors
      /\ \A m \in Node : run'.store.status[m] = IF m = n THEN "Running" ELSE run.store.status[m]
  <2>1. run \in Runs /\ "Running" \in Status
    BY <1>1, RunFacts DEF Status
  <2> HIDE DEF j
  <2>2. run' = [run EXCEPT !.store.status[n] = "Running"]
    BY <1>1
  <2>. QED BY <2>1, <2>2 DEF Runs, Stores
<1>3. DOMAIN queues' = Gen /\ report' \in Returned \cup {Nothing}
  BY <1>1 DEF RunnerInv, TypeOK
<1>4. JobsApart'
  <2>1. \A b \in DOMAIN j.inputs : b \in Bound /\ j.inputs[b] = run.store.external[b]
    OBVIOUS
  <2>2. j.gen = run.gen /\ j.node = n
    OBVIOUS
  <2> HIDE DEF j
  <2>3. run.gen \in Gen /\ \A b \in Bound : ToSet(run.store.external[b]) \subseteq {run.gen}
    BY <1>1, RunFacts DEF RunnerInv, RunApart
  <2>. QED BY <1>1, <2>1, <2>2, <2>3 DEF RunnerInv, JobsApart
<1>. QED BY <1>1, <1>2, <1>3, <1>4, RunFacts, RunStepInv, Frames

LEMMA DiscardInv == ASSUME RunnerInv, Discard PROVE RunnerInv'
<1> DEFINE left == [n \in Node |-> IF run.store.status[n] = "Pending" THEN "Cancelled"
                                   ELSE run.store.status[n]]
<1>1. /\ run # Nothing /\ run.gen \in stopped /\ run' = [run EXCEPT !.store.status = left]
      /\ UNCHANGED <<bag, starts, scratch, given, jobs, queues, retired, stopped, asked, report>>
  BY DEF Discard, Running, Stopped, Cancel, coordination
<1>2. left \in [Node -> Status]
  BY <1>1, RunFacts DEF Stores, Status
<1> HIDE DEF left
<1>3. /\ run' \in Runs /\ run'.gen = run.gen /\ run'.error = run.error
      /\ run'.store.external = run.store.external
      /\ run'.store.outputs = run.store.outputs /\ run'.store.errors = run.store.errors
  BY <1>1, <1>2, RunFacts DEF Runs, Stores
<1>4. DOMAIN queues' = Gen /\ report' \in Returned \cup {Nothing}
  BY <1>1 DEF RunnerInv, TypeOK
<1>. QED BY <1>1, <1>3, <1>4, RunFacts, RunStepInv, Frames

\* Events of the run's own jobs: those still queued stay, those received are
\* its own.
LEMMA QueueFacts ==
    ASSUME RunnerInv, NEW gen \in Gen, queues[gen] # <<>>,
           queues' = [queues EXCEPT ![gen] = Tail(@)], UNCHANGED stopped
    PROVE  /\ QueuesOwn' /\ DOMAIN queues' = Gen
           /\ LET e == Head(queues[gen])
              IN  e.gen = gen /\ e.node \in Node /\ (e.kind = "cancelled" => gen \in stopped)
<1>1. DOMAIN queues = Gen /\ \A g \in Gen : queues[g] \in Seq(Own(g)) /\ Own(g)' = Own(g)
  BY DEF RunnerInv, TypeOK, QueuesOwn, Own
<1>2. Head(queues[gen]) \in Own(gen) /\ Tail(queues[gen]) \in Seq(Own(gen))
  <2> HIDE DEF Own
  <2>. QED BY <1>1, HeadTailProperties
<1>3. \A g \in Gen : queues'[g] = IF g = gen THEN Tail(queues[gen]) ELSE queues[g]
  BY <1>1
<1>4. \A g \in Gen : queues'[g] \in Seq(Own(g)')
  BY <1>1, <1>2, <1>3
<1>. QED BY <1>1, <1>2, <1>4 DEF QueuesOwn, Own

LEMMA ReceiveInv == ASSUME RunnerInv, NEW e, Receive(e) PROVE RunnerInv'
<1>1. /\ run # Nothing /\ queues[run.gen] # <<>> /\ e = Head(queues[run.gen])
      /\ queues' = [queues EXCEPT ![run.gen] = Tail(@)]
      /\ UNCHANGED <<bag, starts, scratch, given, jobs, retired, stopped, asked, report>>
  BY DEF Receive, Running, Queue
<1>2. run \in Runs /\ run.gen \in Gen
  BY <1>1, RunFacts
<1>3. /\ QueuesOwn' /\ DOMAIN queues' = Gen
      /\ e.gen = run.gen /\ e.node \in Node /\ (e.kind = "cancelled" => run.gen \in stopped)
  BY <1>1, <1>2, QueueFacts
<1>4. report' \in Returned \cup {Nothing} /\ run.gen \in Nat
  BY <1>1, <1>2 DEF RunnerInv, TypeOK, Gen
<1>5. /\ run' \in Runs /\ run'.gen = run.gen /\ run'.error = run.error
      /\ run'.store.external = run.store.external
      /\ \A n \in Node : /\ run'.store.outputs[n] \in {0, run.gen}
                         /\ run'.store.errors[n] \in {0, run.gen}
      /\ \A n \in Node : run'.store.status[n] = "Cancelled" =>
                            run.store.status[n] = "Cancelled" \/ run.gen \in stopped
  <2>0. /\ \A n \in Node : /\ run.store.outputs[n] \in {0, run.gen}
                           /\ run.store.errors[n] \in {0, run.gen}
        /\ {"Cancelled", "Succeeded", "Failed"} \subseteq Status
    BY <1>1, RunFacts DEF Status
  <2>1. CASE run' = run
    BY <1>2, <2>0, <2>1
  <2>2. CASE /\ run' = [run EXCEPT !.store.status[e.node] = "Cancelled"]
             /\ run.gen \in stopped
    BY <1>2, <1>3, <2>0, <2>2 DEF Runs, Stores
  <2>3. CASE run' = [run EXCEPT !.store.status[e.node] = "Succeeded",
                                !.store.outputs[e.node] = e.gen]
    <3>1. /\ run' \in Runs /\ run'.gen = run.gen /\ run'.error = run.error
          /\ run'.store.external = run.store.external /\ run'.store.errors = run.store.errors
          /\ \A m \in Node : run'.store.outputs[m] = IF m = e.node THEN e.gen
                                                  ELSE run.store.outputs[m]
          /\ \A m \in Node : run'.store.status[m] = IF m = e.node THEN "Succeeded"
                                                 ELSE run.store.status[m]
      BY <1>2, <1>3, <1>4, <2>0, <2>3 DEF Runs, Stores
    <3>. QED BY <1>3, <2>0, <3>1
  <2>4. CASE run' = [run EXCEPT !.store.status[e.node] = "Failed",
                                !.store.errors[e.node] = e.gen]
    <3>1. /\ run' \in Runs /\ run'.gen = run.gen /\ run'.error = run.error
          /\ run'.store.external = run.store.external /\ run'.store.outputs = run.store.outputs
          /\ \A m \in Node : run'.store.errors[m] = IF m = e.node THEN e.gen
                                                  ELSE run.store.errors[m]
          /\ \A m \in Node : run'.store.status[m] = IF m = e.node THEN "Failed"
                                                 ELSE run.store.status[m]
      BY <1>2, <1>3, <1>4, <2>0, <2>4 DEF Runs, Stores
    <3>. QED BY <1>3, <2>0, <3>1
  <2>. QED BY <1>3, <2>1, <2>2, <2>3, <2>4 DEF Receive, Stopped, Cancel
<1>. QED BY <1>1, <1>3, <1>4, <1>5, RunStepInv, Frames

LEMMA ReturnInv == ASSUME RunnerInv, Return PROVE RunnerInv'
<1> DEFINE outs == [n \in Node |-> IF n \in Active THEN 0 ELSE run.store.outputs[n]]
           errs == [n \in Node |-> 0]
           ret == [gen |-> run.gen, outputs |-> [n \in Active |-> run.store.outputs[n]],
                   errors |-> run.store.errors]
<1>1. /\ run # Nothing /\ report' = ret
      /\ run' = [run EXCEPT !.finished = TRUE, !.store.outputs = outs, !.store.errors = errs]
      /\ UNCHANGED <<bag, starts, scratch, given, jobs, queues, retired, stopped, asked>>
  BY DEF Return, Running, coordination
<1>2. /\ run \in Runs /\ run.gen \in Gen /\ run.store \in Stores
      /\ \A n \in Node : /\ run.store.outputs[n] \in {0, run.gen}
                         /\ run.store.errors[n] \in {0, run.gen}
  BY <1>1, RunFacts
<1>3. /\ outs \in [Node -> Nat] /\ \A n \in Node : outs[n] \in {0, run.gen}
      /\ errs \in [Node -> Nat] /\ \A n \in Node : errs[n] \in {0, run.gen}
  BY <1>2 DEF Gen
<1>4. ret.gen = run.gen /\ ret \in Returned /\ ReportApart'
  <2>1. [n \in Active |-> run.store.outputs[n]] \in [Active -> Nat]
    BY <1>2, ActiveAssumption DEF Gen
  <2>2. run.store.errors \in [Node -> Nat]
    BY <1>2 DEF Stores
  <2>3. /\ ret \in Returned /\ ret.gen = run.gen /\ ret.errors = run.store.errors
        /\ ret.outputs = [n \in Active |-> run.store.outputs[n]]
    BY <1>2, <2>1, <2>2 DEF Returned
  <2> HIDE DEF ret
  <2>. QED BY <1>1, <1>2, <2>3, ActiveAssumption DEF ReportApart
<1> HIDE DEF outs, errs, ret
<1>5. /\ run' \in Runs /\ run'.gen = run.gen /\ run'.error = run.error
      /\ run'.store.external = run.store.external /\ run'.store.status = run.store.status
      /\ run'.store.outputs = outs /\ run'.store.errors = errs
  BY <1>1, <1>2, <1>3 DEF Runs, Stores
<1>6. DOMAIN queues' = Gen /\ report' \in Returned \cup {Nothing}
  BY <1>1, <1>4 DEF RunnerInv, TypeOK
<1>. QED BY <1>1, <1>3, <1>4, <1>5, <1>6, RunStepInv, Frames

LEMMA JobInv ==
    ASSUME RunnerInv, NEW j \in jobs, JobReports(j) \/ JobRetires(j) PROVE RunnerInv'
<1>1. /\ jobs' = jobs \ {j} /\ j.gen \in Gen /\ j.node \in Node
      /\ UNCHANGED <<bag, starts, scratch, run, given, retired, stopped, asked, report>>
  BY DEF JobReports, JobRetires, coordination, RunnerInv, JobsApart
<1>2. JobsApart'
  BY <1>1 DEF RunnerInv, JobsApart
<1>3. DOMAIN queues' = Gen /\ QueuesOwn'
  <2>1. CASE JobRetires(j)
    BY <2>1, Frames DEF JobRetires, coordination, RunnerInv, TypeOK
  <2>2. CASE JobReports(j)
    <3>1. PICK kind \in Kind :
             /\ kind = "cancelled" => j.gen \in stopped
             /\ queues' = [queues EXCEPT ![j.gen] =
                              Append(@, [gen |-> j.gen, node |-> j.node, kind |-> kind])]
      BY <2>2 DEF JobReports, Queue, Cancel
    <3>2. [gen |-> j.gen, node |-> j.node, kind |-> kind] \in Own(j.gen)
      BY <1>1, <3>1 DEF Own
    <3>3. DOMAIN queues = Gen /\ \A g \in Gen : queues[g] \in Seq(Own(g)) /\ Own(g)' = Own(g)
      BY <1>1 DEF RunnerInv, TypeOK, QueuesOwn, Own
    <3> HIDE DEF Own
    <3>4. \A g \in Gen : queues'[g] \in Seq(Own(g)')
      BY <1>1, <3>1, <3>2, <3>3
    <3>. QED BY <3>1, <3>3, <3>4 DEF QueuesOwn
  <2>. QED BY <1>1, <2>1, <2>2 DEF JobReports, JobRetires
<1>4. TypeOK'
  BY <1>1, <1>3 DEF RunnerInv, TypeOK
<1>. QED BY <1>1, <1>2, <1>3, <1>4, Frames DEF RunnerInv

-----------------------------------------------------------------------------
(* The theorems. *)

LEMMA ValuesFacts ==
    ASSUME RunnerInv, NEW values \in Values \cup {<<starts + 1>>}
    PROVE  values \in Seq(Nat) /\ ToSet(values) \subseteq {starts + 1}
<1>1. starts + 1 \in Nat
  BY BoundAssumption DEF RunnerInv, TypeOK
<1>2. CASE values \in Values
  <2>1. PICK k \in 0..MaxValues : values = [i \in 1..k |-> starts + 1]
    BY <1>2 DEF Values
  <2>. QED BY <1>1, <2>1, BoundAssumption DEF ToSet
<1>3. CASE values = <<starts + 1>>
  BY <1>1, <1>3 DEF ToSet
<1>. QED BY <1>2, <1>3

LEMMA StepInv == RunnerInv /\ [Next]_vars => RunnerInv'
<1> SUFFICES ASSUME RunnerInv, [Next]_vars PROVE RunnerInv'
  OBVIOUS
<1>1. CASE UNCHANGED vars
  <2>1. TypeOK' /\ Carries(bag', starts' + 1)
    BY <1>1 DEF vars, coordination, RunnerInv, TypeOK
  <2>. QED BY <1>1, <2>1, Frames DEF vars, coordination, RunnerInv
<1>2. ASSUME NEW key \in Keys,
             \/ Supply(key, "One", <<starts + 1>>)
             \/ \E values \in Values : Supply(key, "Many", values)
      PROVE  RunnerInv'
  BY <1>2, ValuesFacts, SupplyInv
<1>3. CASE Start \/ Execute
  BY <1>3, StartInv
<1>4. CASE Trim \/ DropRun
  BY <1>4, DropInv
<1>5. ASSUME NEW gen \in Gen, Ask(gen) PROVE RunnerInv'
  BY <1>5, AskInv
<1>6. CASE ReturnStartError
  BY <1>6, StartErrorInv
<1>7. CASE Discard
  BY <1>7, DiscardInv
<1>8. ASSUME NEW n \in Node, Launch(n) PROVE RunnerInv'
  BY <1>8, LaunchInv
<1>9. ASSUME NEW e, Receive(e) PROVE RunnerInv'
  BY <1>9, ReceiveInv
<1>10. CASE Return
  BY <1>10, ReturnInv
<1>11. ASSUME NEW j \in jobs, JobReports(j) \/ JobRetires(j) PROVE RunnerInv'
  BY <1>11, JobInv
<1>. QED BY <1>1, <1>2, <1>3, <1>4, <1>5, <1>6, <1>7, <1>8, <1>9, <1>10, <1>11 DEF Next

LEMMA RunnerInvariant == Spec => []RunnerInv
BY InitInv, StepInv, PTL DEF Spec

\* Storage comes back empty, whatever ended the run or refused its bag
\* (RunScratch::reset in Drop for RunnerRun and GraphRunner::start).
THEOREM StorageComesBackEmpty == Spec => []IdleHoldsNothing
<1>1. RunnerInv => IdleHoldsNothing
  BY DEF RunnerInv
<1>. QED BY <1>1, RunnerInvariant, PTL

\* Neither the shared storage nor an event that comes late carries a value from
\* one run into another (a JobQueue of its own per GraphRun::new).
THEOREM GenerationsStayApart == Spec => []GenerationsApart
<1>1. RunnerInv => GenerationsApart
  BY DEF RunnerInv, RunApart, JobsApart, ReportApart, GenerationsApart
<1>. QED BY <1>1, RunnerInvariant, PTL

\* A control stops the run it came from and no other, however long the caller
\* keeps it (a CancelState of its own per GraphRun::new).
THEOREM OnlyOwnStop == Spec => []StopIsOwn
<1>1. RunnerInv => StopIsOwn
  BY DEF RunnerInv
<1>. QED BY <1>1, RunnerInvariant, PTL

\* A bag that validate_run_inputs_into passes is delivered whole, each value
\* under its own binding and in the number its input takes.
THEOREM BagIsDelivered == Spec => []InputsDelivered
<1>1. RunnerInv => InputsDelivered
  <2> SUFFICES ASSUME RunnerInv, Running PROVE InputsDelivered
    BY DEF InputsDelivered
  <2>1. /\ given \in Seq(Entries) /\ Carries(given, run.gen) /\ StartError(given) = "none"
        /\ run.store.external = [b \in Bound |-> Moved(given, b)]
    BY DEF Running, RunnerInv, TypeOK, LiveRun
  <2>2. \A b \in Bound : run.store.external[b] = Moved(given, b)
    BY <2>1
  <2>. QED BY <2>1, <2>2, Delivery DEF InputsDelivered
<1>. QED BY <1>1, RunnerInvariant, PTL
=============================================================================
