---------------------------- MODULE ModuleProofs ----------------------------
(***************************************************************************)
(* Proofs about ModuleTable and Modpy, for every number of entries and     *)
(* modules and every configuration of them, every number of requests and   *)
(* every set of scripts: only loaded modules are called, every library is  *)
(* closed as often as it was opened, and of Python's references only two   *)
(* kinds are not balanced between two modifiers, within a bound.           *)
(***************************************************************************)
EXTENDS ModuleTable, FiniteSetTheorems, SequenceTheorems,
        WellFoundedInduction, TLAPS

Busy == {"serving", "create", "call", "destroy", "check"}
Loadable == (SettingKinds \ {"cut"}) \cup {"blank"}

\* The slots whose library is open: all that were filled, without those that
\* the handler being deleted has been through.
Held(l) ==
    {h \in Methods \X (1 .. MaxModules) :
        /\ h[2] \in 1 .. Len(handlers[h[1]])
        /\ handlers[h[1]][h[2]].handle = l
        /\ ~(place = "deleting" /\ h[1] = Deleting /\ h[2] < slot)}

\* A handler has a slot for each module it has tried, in their order.
Filled ==
    \A m \in Methods :
        /\ Len(handlers[m]) <= Len(Modules(m))
        /\ \A j \in 1 .. Len(handlers[m]) :
              handlers[m][j] = SlotOf(Modules(m)[j])

\* Handlers are made one after the other.
InMaking ==
    place = "making" =>
        /\ which <= 3 /\ slot = Len(handlers[Making]) + 1
        /\ \A k \in (which + 1) .. 3 : handlers[Made[k]] = <<>>
        /\ Len(methods) = (IF which = 1 THEN 0 ELSE which - 2)

\* Where the worker is with a request.
InServing ==
    /\ place \in Busy => which = 1 /\ budget > 0
    /\ place = "serving" => slot = 1
    /\ place \in {"call", "destroy", "check"} => slot <= Len(Handler)

\* Handlers are deleted one after the other.
InDeleting ==
    /\ place = "deleting" =>
          /\ which <= 3 /\ slot <= Len(handlers[Deleting]) + 1
          /\ \A k \in 1 .. (which - 1) : handlers[Deleted[k]] = <<>>
    /\ place = "ended" => \A m \in Methods : handlers[m] = <<>>

\* Each library is open once for each slot that holds it.
Balanced ==
    place # "crashed" =>
        \A l \in Libraries : opened[l] = Cardinality(Held(l))

\* The modifier comes from the slot at hand.
Called ==
    /\ place \in {"call", "destroy"} => live # "none"
    /\ live # "none" =>
          /\ place \in {"call", "destroy", "crashed"}
          /\ slot \in 1 .. Len(Handler)
          /\ Handler[slot].named /\ Handler[slot].handle = live
          /\ opened[live] > 0

\* A modifier of mod_py that lives holds its script, and nothing else is held
\* but what is never given back.
Known == {"pyvalues", "sys_path"}
Holding ==
    /\ live # "modpy" /\ place # "crashed" =>
          ~interpreter /\ ~imported /\ \A o \in Objects \ Known : owned[o] = 0
    /\ live = "modpy" =>
          /\ interpreter
          /\ imported => script \in Scripts \ {"noinit", "absent"}
          /\ owned["_pymodule"] = (IF imported THEN 1 ELSE 0)
          /\ \A o \in Objects \ (Known \cup {"_pymodule"}) : owned[o] = 0

\* At most so many modifiers were made for the requests that were answered,
\* and for the one at hand before its module at hand: one for a module in the
\* preview, and one in the modification.
Used == 2 * MaxModules * (MaxRequests - budget)
Before ==
    IF place \in {"create", "call", "destroy", "check"}
    THEN Used + (IF loop = "modify" THEN MaxModules ELSE 0) + (slot - 1)
    ELSE Used

\* A modifier gives one path too many back when it is made, and leaves one
\* set of values behind when it is called.
Leaks ==
    place # "crashed" =>
        /\ 0 <= owned["pyvalues"]
        /\ owned["pyvalues"] <=
               Before + (IF place \in {"destroy", "check"} THEN 1 ELSE 0)
        /\ 0 <= -owned["sys_path"]
        /\ -owned["sys_path"] <=
               Before + (IF place \in {"call", "destroy", "check"} THEN 1 ELSE 0)

IInv ==
    /\ file \in Files
    /\ TypeOK /\ Filled /\ InMaking /\ InServing /\ InDeleting
    /\ Balanced /\ Called /\ Holding /\ Leaks

-----------------------------------------------------------------------------
(* What the configuration lists.                                            *)

\* A list of at most n members of S.
LEMMA UpToIsSeq ==
    ASSUME NEW n \in Nat, NEW S, NEW f
    PROVE  f \in UpTo(n, S) <=> f \in Seq(S) /\ Len(f) <= n
<1>1. ASSUME f \in UpTo(n, S) PROVE f \in Seq(S) /\ Len(f) <= n
  <2>1. PICK k \in 0 .. n : f \in [1 .. k -> S]
    BY <1>1 DEF UpTo
  <2>2. f \in Seq(S) /\ Len(f) = k
    BY <2>1
  <2> QED
    BY <2>2
<1>2. ASSUME f \in Seq(S), Len(f) <= n PROVE f \in UpTo(n, S)
  <2>1. f \in [1 .. Len(f) -> S] /\ Len(f) \in 0 .. n
    BY <1>2
  <2> QED
    BY <2>1 DEF UpTo
<1> QED
  BY <1>1, <1>2

\* load_req_handlers makes the three handlers, and the destructors delete them.
LEMMA OrdersAre ==
    /\ Len(Made) = 3 /\ Made[1] = "OPTIONS" /\ Made[2] = "REQMOD"
    /\ Made[3] = "RESPMOD"
    /\ Len(Deleted) = 3 /\ Deleted[1] = "REQMOD" /\ Deleted[2] = "RESPMOD"
    /\ Deleted[3] = "OPTIONS"
    /\ \A k \in 1 .. 3 : Made[k] \in Methods /\ Deleted[k] \in Methods
  BY DEF Made, Deleted, Methods

\* What is in an entry of the file.
LEMMA EntryType ==
    ASSUME file \in Files, NEW i \in DOMAIN file
    PROVE  /\ DOMAIN file = 1 .. Len(file) /\ Len(file) \in Nat
           /\ file[i].modules \in Seq(Settings)
           /\ Len(file[i].modules) <= MaxModules
<1>1. DOMAIN file = 1 .. Len(file) /\ Len(file) \in Nat /\ file[i] \in Entries
  <2>1. PICK k \in 0 .. MaxEntries :
            file \in [1 .. k ->
                {e \in Entries : ~(e.class /\ e.listed) => e.modules = <<>>}]
    BY DEF Files, UpTo
  <2> QED
    BY <2>1, ModuleAssumption
<1>2. file[i].modules \in UpTo(MaxModules, Settings)
  BY <1>1 DEF Entries
<1> QED
  BY <1>1, <1>2, UpToIsSeq, ModuleAssumption

\* load_modules stops at the first entry of its method.
LEMMA FirstEntry ==
    ASSUME file \in Files, NEW m, Configured(m)
    PROVE  /\ EntryOf(m) \in DOMAIN file /\ NameOf(EntryOf(m)) = m
           /\ \A k \in 1 .. (EntryOf(m) - 1) : NameOf(k) # m
<1> DEFINE T == {i \in DOMAIN file : NameOf(i) = m}
<1>1. T # {} /\ T \subseteq Nat
  BY EntryType DEF Configured
<1>2. \E x \in T : \A y \in T : ~ (<<y, x>> \in OpToRel(<, Nat))
  <2> HIDE DEF T
  <2> QED
    BY <1>1, WFMin, NatLessThanWellFounded
<1>3. PICK x \in T : \A y \in T : ~ (y < x)
  BY <1>1, <1>2 DEF OpToRel
<1>4. /\ x \in DOMAIN file /\ NameOf(x) = m
      /\ \A k \in 1 .. (x - 1) : NameOf(k) # m
  BY <1>3, EntryType
<1> QED
  BY <1>4 DEF EntryOf

\* The modules of a handler.
LEMMA ModulesType ==
    ASSUME file \in Files, NEW m
    PROVE  Modules(m) \in Seq(Loadable) /\ Len(Modules(m)) <= MaxModules
<1>1. CASE Configured(m) /\ Counted(EntryOf(m))
  <2> DEFINE i == EntryOf(m)
  <2>1. i \in DOMAIN file
    BY <1>1, FirstEntry
  <2>2. Modules(m) = ModulesOf(i)
    BY <1>1 DEF Modules
  <2> HIDE DEF i
  <2>3. /\ DOMAIN ModulesOf(i) = 1 .. Len(file[i].modules)
        /\ Len(file[i].modules) \in Nat /\ Len(file[i].modules) <= MaxModules
    BY <2>1, EntryType DEF ModulesOf
  <2>4. ASSUME NEW j \in 1 .. Len(file[i].modules)
        PROVE  ModulesOf(i)[j] \in Loadable
    <3>1. file[i].modules[j] \in SettingKinds
      BY <2>1, EntryType, ModuleAssumption
    <3>2. CASE file[i].modules[j] = "cut"
      BY <2>3, <2>4, <3>2 DEF ModulesOf, Loadable
    <3>3. CASE file[i].modules[j] # "cut"
      BY <2>3, <2>4, <3>1, <3>3 DEF ModulesOf, Loadable
    <3> QED
      BY <3>2, <3>3
  <2>5. ModulesOf(i) \in [1 .. Len(file[i].modules) -> Loadable]
    BY <2>3, <2>4 DEF ModulesOf
  <2> QED
    BY <2>2, <2>3, <2>5
<1>2. CASE ~(Configured(m) /\ Counted(EntryOf(m)))
  BY <1>2, ModuleAssumption DEF Modules
<1> QED
  BY <1>1, <1>2

\* Only a module that the first entry lists, and that is there and has both
\* symbols, gets a name.
LEMMA NamedIsListed ==
    ASSUME file \in Files, NEW m, NEW j \in 1 .. Len(Modules(m)),
           SlotOf(Modules(m)[j]).named
    PROVE  /\ SlotOf(Modules(m)[j]).handle \in {"echo", "modpy"}
           /\ \E i \in DOMAIN file :
                 /\ file[i].handler = m
                 /\ \A k \in 1 .. (i - 1) :
                       file[k].handler # m /\ ~Breaks(file[k])
                 /\ file[i].class /\ j \in DOMAIN file[i].modules
                 /\ file[i].modules[j] = SlotOf(Modules(m)[j]).handle
<1> DEFINE i == EntryOf(m)
           x == Modules(m)[j]
<1>1. x \in {"echo", "modpy"} /\ SlotOf(x).handle = x
  BY DEF SlotOf, Opens
<1>2. Configured(m) /\ Counted(i) /\ Modules(m) = ModulesOf(i)
  BY DEF Modules
<1>3. i \in DOMAIN file /\ NameOf(i) = m /\ \A k \in 1 .. (i - 1) : NameOf(k) # m
  BY <1>2, FirstEntry
<1> HIDE DEF i
<1>4. ReadSoFar(i) /\ file[i].class
  BY <1>2 DEF Counted
<1>5. file[i].handler = m
  BY <1>3, <1>4 DEF NameOf
<1>6. ASSUME NEW k \in 1 .. (i - 1)
      PROVE  file[k].handler # m /\ ~Breaks(file[k])
  <2>1. i \in Nat
    BY <1>3, EntryType
  <2>2. ReadSoFar(k) /\ ~Breaks(file[k])
    BY <1>4, <2>1 DEF ReadSoFar
  <2> QED
    BY <1>3, <2>2 DEF NameOf
<1>7. j \in DOMAIN file[i].modules
  <2>1. /\ DOMAIN ModulesOf(i) = DOMAIN file[i].modules
        /\ DOMAIN file[i].modules = 1 .. Len(file[i].modules)
        /\ Len(file[i].modules) \in Nat
    BY <1>3, EntryType DEF ModulesOf
  <2>2. DOMAIN ModulesOf(i) = 1 .. Len(ModulesOf(i))
    BY <1>2, ModulesType
  <2> QED
    BY <1>2, <2>2, <2>1
<1>8. file[i].modules[j] = x
  BY <1>1, <1>2, <1>7 DEF ModulesOf
<1> HIDE DEF x
<1> QED
  BY <1>1, <1>3, <1>4, <1>5, <1>6, <1>7, <1>8 DEF x

-----------------------------------------------------------------------------
(* The slots and the libraries.                                             *)

\* The slot of a module that was tried.
LEMMA SlotType ==
    ASSUME NEW x \in Loadable
    PROVE  /\ SlotOf(x) \in Slot
           /\ SlotOf(x).named => SlotOf(x).handle \in {"echo", "modpy"}
<1>1. Opens(x) \in Libraries \cup {"NULL"}
  BY DEF Opens, Libraries, Loadable, SettingKinds
<1>2. x \in {"echo", "modpy"} => Opens(x) = x
  BY DEF Opens
<1>3. (x \in {"echo", "modpy"}) \in BOOLEAN
  OBVIOUS
<1>4. SlotOf(x) \in Slot
  BY <1>1, <1>3 DEF SlotOf, Slot
<1> QED
  BY <1>2, <1>4 DEF SlotOf

\* The types that follow from the invariant.
LEMMA TableType ==
    ASSUME IInv
    PROVE  /\ \A m \in Methods :
                 handlers[m] \in Seq(Slot) /\ Len(handlers[m]) <= MaxModules
           /\ \A m : /\ Modules(m) \in Seq(Loadable)
                     /\ Len(Modules(m)) <= MaxModules
<1>1. \A m \in Methods : handlers[m] \in UpTo(MaxModules, Slot)
  BY DEF IInv, TypeOK
<1>2. \A m \in Methods :
          handlers[m] \in Seq(Slot) /\ Len(handlers[m]) <= MaxModules
  BY <1>1, UpToIsSeq, ModuleAssumption
<1> QED
  BY <1>2, ModulesType DEF IInv

\* The configuration is read once, before there is a worker.
LEMMA SameModules ==
    ASSUME file' = file, NEW m
    PROVE  Modules(m)' = Modules(m)
  BY DEF Modules, Configured, EntryOf, Counted, ModulesOf, NameOf, ReadSoFar,
         Breaks

\* Where no handler changes, their slots are what they were.
LEMMA FilledKept ==
    ASSUME Filled, file' = file, handlers' = handlers
    PROVE  Filled'
<1>1. \A m \in Methods : Modules(m)' = Modules(m)
  BY SameModules
<1> QED
  BY <1>1 DEF Filled

\* The slots that hold a library are finitely many.
LEMMA HeldIsFinite == ASSUME NEW l PROVE IsFiniteSet(Held(l))
<1>1. IsFiniteSet(Methods \X (1 .. MaxModules))
  <2>1. IsFiniteSet(1 .. MaxModules)
    BY FS_Interval, ModuleAssumption
  <2>2. IsFiniteSet({}) /\ IsFiniteSet({"OPTIONS"})
    BY FS_EmptySet, FS_Singleton
  <2>3. IsFiniteSet({"OPTIONS"} \cup {"REQMOD"})
    BY <2>2, FS_AddElement
  <2>4. IsFiniteSet(({"OPTIONS"} \cup {"REQMOD"}) \cup {"RESPMOD"})
    BY <2>3, FS_AddElement
  <2>5. Methods = ({"OPTIONS"} \cup {"REQMOD"}) \cup {"RESPMOD"}
    BY DEF Methods
  <2> QED
    BY <2>1, <2>4, <2>5, FS_Product
<1> QED
  BY <1>1, FS_Subset DEF Held

\* While no handler is deleted, the libraries are open that they hold.
LEMMA HeldKept ==
    ASSUME handlers' = handlers, opened' = opened, Balanced,
           place \notin {"deleting", "crashed"},
           place' # "deleting" \/ slot' = 1
    PROVE  Balanced'
<1>1. ASSUME NEW l \in Libraries PROVE Held(l)' = Held(l)
  <2>1. ASSUME NEW h \in Methods \X (1 .. MaxModules)
        PROVE  /\ ~(place = "deleting" /\ h[1] = Deleting /\ h[2] < slot)
               /\ ~(place' = "deleting" /\ h[1] = Deleting' /\ h[2] < slot')
    <3>1. h[2] >= 1
      BY ModuleAssumption
    <3> QED
      BY <3>1
  <2> QED
    BY <2>1 DEF Held
<1> QED
  BY <1>1 DEF Balanced

-----------------------------------------------------------------------------
(* The modifiers that were made.                                            *)

LEMMA UsedType ==
    ASSUME TypeOK
    PROVE  Used \in Int /\ Before \in Int
  BY ModuleAssumption DEF Used, Before, TypeOK

\* A request that is answered may have had each module twice.
LEMMA UsedStep ==
    ASSUME TypeOK
    PROVE  /\ budget' = budget => Used' = Used
           /\ budget' = budget - 1 => Used' = Used + 2 * MaxModules
<1>1. budget' = budget - 1 => Used' = Used + 2 * MaxModules
  <2> SUFFICES ASSUME budget' = budget - 1
               PROVE  Used' = Used + 2 * MaxModules
    OBVIOUS
  <2>1. budget \in Int /\ MaxRequests \in Int /\ MaxModules \in Int
    BY ModuleAssumption DEF TypeOK
  <2>2. Used' = 2 * MaxModules * (MaxRequests - (budget - 1))
    BY DEF Used
  <2>3. \A m, r, b \in Int :
            2 * m * (r - (b - 1)) = 2 * m * (r - b) + 2 * m
    OBVIOUS
  <2> QED
    BY <2>1, <2>2, <2>3 DEF Used
<1>2. budget' = budget => Used' = Used
  BY DEF Used
<1> QED
  BY <1>1, <1>2

\* Outside a request nothing is left behind.
LEMMA LeaksKept ==
    ASSUME Leaks, owned' = owned, budget' = budget, place # "crashed",
           place \notin {"create", "call", "destroy", "check"},
           place' \notin {"create", "call", "destroy", "check"}
    PROVE  Leaks'
  BY DEF Leaks, Before, Used

-----------------------------------------------------------------------------
(* The invariant holds at first.                                            *)

LEMMA InitIInv == ASSUME Init PROVE IInv
<1>1. file \in Files
  BY DEF Init
<1>2. handlers = [m \in Methods |-> <<>>] /\ opened = [l \in Libraries |-> 0]
  BY DEF Init
<1>3. TypeOK
  <2>1. PyTypeOK
    <3>1. owned = [o \in Objects |-> 0]
      BY DEF Init, PyInit
    <3>2. owned \in [Objects -> Int]
      BY <3>1
    <3>3. /\ setting \in PathSettings /\ script \in Scripts \cup {"none"}
          /\ interpreter \in BOOLEAN /\ imported \in BOOLEAN
      BY DEF Init, PyInit
    <3> QED
      BY <3>2, <3>3 DEF PyTypeOK
  <2>2. handlers \in [Methods -> UpTo(MaxModules, Slot)]
    <3>1. <<>> \in Seq(Slot) /\ Len(<<>>) <= MaxModules
      BY ModuleAssumption
    <3>2. <<>> \in UpTo(MaxModules, Slot)
      BY <3>1, UpToIsSeq, ModuleAssumption
    <3> QED
      BY <1>2, <3>2
  <2>3. opened \in [Libraries -> Nat]
    BY <1>2
  <2>4. /\ place = "making" /\ which = 1 /\ slot = 1 /\ methods = <<>>
        /\ request = "OPTIONS" /\ loop = "preview" /\ live = "none"
        /\ response = "null" /\ budget = MaxRequests
    BY DEF Init
  <2>5. methods \in Seq({"REQMOD", "RESPMOD"}) /\ Len(methods) <= 2
    BY <2>4
  <2>6. wild \in BOOLEAN /\ ieof \in BOOLEAN
    BY DEF Init
  <2>7. slot \in 1 .. (MaxModules + 1) /\ budget \in 0 .. MaxRequests
    BY <2>4, ModuleAssumption
  <2> QED
    BY <2>1, <2>2, <2>3, <2>4, <2>5, <2>6, <2>7
       DEF TypeOK, Statuses, Methods
<1> USE ModuleAssumption, OrdersAre DEF Init, PyInit
<1>4. \A m \in Methods : handlers[m] = <<>> /\ Len(handlers[m]) = 0
  BY <1>2
<1>5. Filled
  <2>1. \A m \in Methods : Len(Modules(m)) \in Nat
    BY <1>1, ModulesType
  <2> QED
    BY <1>4, <2>1 DEF Filled
<1>6. InMaking
  BY <1>4 DEF InMaking, Making
<1>7. InServing /\ InDeleting
  BY DEF InServing, InDeleting, Busy
<1>8. Balanced
  <2>1. \A l \in Libraries : Held(l) = {}
    BY <1>4 DEF Held
  <2> QED
    BY <2>1, FS_EmptySet DEF Balanced
<1>9. Called /\ Holding
  BY DEF Called, Holding, Objects, Known
<1>10. Leaks
  <2>1. \A m \in Nat : 2 * m * (MaxRequests - MaxRequests) = 0
    OBVIOUS
  <2>2. Used = 0 /\ Before = 0
    BY <2>1 DEF Used, Before
  <2> QED
    BY <2>2 DEF Leaks, Objects
<1> QED
  BY <1>1, <1>3, <1>5, <1>6, <1>7, <1>8, <1>9, <1>10 DEF IInv

-----------------------------------------------------------------------------
(* Every step keeps it.                                                     *)

\* A worker that faults has nothing more to answer for.
LEMMA CrashStep == ASSUME IInv, Crash PROVE IInv'
<1> USE DEF Crash, tableVars, loopVars, pyVars
<1>1. file' \in Files /\ Filled'
  BY FilledKept DEF IInv
<1>2. TypeOK'
  BY DEF IInv, TypeOK, PyTypeOK
<1>3. InMaking' /\ InServing' /\ InDeleting' /\ Balanced'
  BY DEF InMaking, InServing, InDeleting, Balanced, Busy
<1>4. Called' /\ Holding' /\ Leaks'
  BY DEF IInv, Called, Holding, Leaks, Handler
<1> QED
  BY <1>1, <1>2, <1>3, <1>4 DEF IInv

\* load_modifier fills the next slot, and opens its library once more.
LEMMA LoadModuleStep == ASSUME IInv, LoadModule PROVE IInv'
<1> DEFINE m == Making
           x == Modules(m)[slot]
           new == SlotOf(x)
<1>1. /\ place = "making" /\ place' = "making" /\ slot <= Len(Modules(m))
      /\ handlers' = [handlers EXCEPT ![m] = Append(@, new)]
      /\ opened' = (IF new.handle = "NULL" THEN opened
                    ELSE [opened EXCEPT ![new.handle] = @ + 1])
      /\ slot' = slot + 1 /\ file' = file /\ wild' = wild /\ which' = which
      /\ methods' = methods /\ UNCHANGED loopVars /\ budget' = budget
      /\ UNCHANGED pyVars
  BY DEF LoadModule
<1>2. /\ which \in 1 .. 3 /\ m \in Methods /\ m = Made[which]
      /\ slot = Len(handlers[m]) + 1
  BY <1>1, OrdersAre DEF IInv, TypeOK, InMaking, Making
<1>3. /\ handlers[m] \in Seq(Slot) /\ Len(handlers[m]) \in Nat
      /\ Modules(m) \in Seq(Loadable) /\ Len(Modules(m)) <= MaxModules
      /\ Len(Modules(m)) \in Nat
  BY <1>2, TableType
<1>4. x \in Loadable
  BY <1>1, <1>2, <1>3
<1>5. new \in Slot
  BY <1>4, SlotType
<1>6. handlers \in [Methods -> UpTo(MaxModules, Slot)] /\ opened \in [Libraries -> Nat]
  BY DEF IInv, TypeOK
<1> HIDE DEF m, x, new
<1>7. /\ handlers'[m] = Append(handlers[m], new)
      /\ \A n \in Methods \ {m} : handlers'[n] = handlers[n]
  BY <1>1, <1>2, <1>6
<1>8. /\ handlers'[m] \in Seq(Slot) /\ Len(handlers'[m]) = slot
      /\ handlers'[m][slot] = new
      /\ \A j \in 1 .. (slot - 1) : handlers'[m][j] = handlers[m][j]
  BY <1>2, <1>3, <1>5, <1>7
<1>9. slot \in 1 .. MaxModules
  BY <1>1, <1>2, <1>3, ModuleAssumption
<1>10. TypeOK'
  <2>1. handlers'[m] \in UpTo(MaxModules, Slot)
    BY <1>8, <1>9, UpToIsSeq, ModuleAssumption
  <2>2. handlers' \in [Methods -> UpTo(MaxModules, Slot)]
    BY <1>1, <1>6, <1>7, <2>1
  <2>3. opened' \in [Libraries -> Nat]
    BY <1>1, <1>5, <1>6 DEF Slot
  <2>4. slot' \in 1 .. (MaxModules + 1)
    BY <1>1, <1>9, ModuleAssumption
  <2> QED
    BY <1>1, <2>2, <2>3, <2>4 DEF IInv, TypeOK, PyTypeOK, loopVars, pyVars
<1>11. Filled'
  <2>1. \A n \in Methods : Modules(n)' = Modules(n)
    BY <1>1, SameModules
  <2>2. /\ Len(handlers'[m]) <= Len(Modules(m))
        /\ \A j \in 1 .. Len(handlers'[m]) :
              handlers'[m][j] = SlotOf(Modules(m)[j])
    <3>1. \A j \in 1 .. (slot - 1) : handlers[m][j] = SlotOf(Modules(m)[j])
      BY <1>2 DEF IInv, Filled
    <3>2. handlers'[m][slot] = SlotOf(Modules(m)[slot])
      BY <1>8 DEF new, x
    <3> QED
      BY <1>1, <1>8, <1>9, <3>1, <3>2
  <2>3. \A n \in Methods \ {m} :
            /\ Len(handlers'[n]) <= Len(Modules(n))
            /\ \A j \in 1 .. Len(handlers'[n]) :
                  handlers'[n][j] = SlotOf(Modules(n)[j])
    BY <1>7 DEF IInv, Filled
  <2> QED
    BY <2>1, <2>2, <2>3 DEF Filled
<1>12. InMaking'
  <2>1. \A k \in (which + 1) .. 3 : Made[k] # m /\ Made[k] \in Methods
    BY <1>2, OrdersAre
  <2>2. \A k \in (which + 1) .. 3 : handlers'[Made[k]] = <<>>
    BY <1>1, <1>7, <2>1 DEF IInv, InMaking
  <2>3. slot' = Len(handlers'[m]) + 1 /\ Making' = m
    BY <1>1, <1>2, <1>8 DEF Making
  <2> QED
    BY <1>1, <1>2, <2>2, <2>3 DEF IInv, InMaking
<1>13. Balanced'
  <2> SUFFICES ASSUME NEW l \in Libraries
               PROVE  opened'[l] = Cardinality(Held(l)')
    BY DEF Balanced
  <2>1. opened[l] = Cardinality(Held(l)) /\ IsFiniteSet(Held(l))
    BY <1>1, HeldIsFinite DEF IInv, Balanced
  <2>2. CASE l = new.handle
    <3>1. Held(l)' = Held(l) \cup {<<m, slot>>}
      BY <1>1, <1>2, <1>3, <1>7, <1>8, <1>9, <2>2 DEF Held
    <3>2. <<m, slot>> \notin Held(l)
      BY <1>2, <1>3 DEF Held
    <3>3. opened'[l] = opened[l] + 1
      BY <1>1, <1>6, <2>2 DEF Libraries
    <3> QED
      BY <2>1, <3>1, <3>2, <3>3, FS_AddElement
  <2>3. CASE l # new.handle
    <3>1. Held(l)' = Held(l)
      BY <1>1, <1>2, <1>3, <1>7, <1>8, <1>9, <2>3 DEF Held
    <3>2. opened'[l] = opened[l]
      BY <1>1, <1>6, <2>3
    <3> QED
      BY <2>1, <3>1, <3>2
  <2> QED
    BY <2>2, <2>3
<1>14. InServing' /\ InDeleting' /\ Called' /\ Holding' /\ file' \in Files
  BY <1>1 DEF IInv, InServing, InDeleting, Called, Holding, Busy, loopVars,
              pyVars
<1>15. Leaks'
  BY <1>1, LeaksKept DEF IInv, pyVars
<1> QED
  BY <1>10, <1>11, <1>12, <1>13, <1>14, <1>15 DEF IInv

\* A handler is there, and the next one is begun, or the worker serves.
LEMMA MakeHandlerStep == ASSUME IInv, MakeHandler PROVE IInv'
<1> USE DEF tableVars, loopVars, pyVars
<1>1. /\ place = "making" /\ slot' = 1 /\ file' = file /\ wild' = wild
      /\ handlers' = handlers /\ opened' = opened /\ UNCHANGED loopVars
      /\ budget' = budget /\ UNCHANGED pyVars
      /\ methods' =
            (IF Making = "OPTIONS" THEN methods ELSE Append(methods, Making))
      /\ \/ which < 3 /\ which' = which + 1 /\ place' = "making"
         \/ /\ which = 3 /\ which' = 1
            /\ place' = (IF budget > 0 THEN "serving" ELSE "deleting")
  BY OrdersAre DEF MakeHandler
<1>2. which \in 1 .. 3 /\ methods \in Seq({"REQMOD", "RESPMOD"})
  BY <1>1 DEF IInv, TypeOK, InMaking
<1>3. Len(methods) = (IF which = 1 THEN 0 ELSE which - 2)
  BY <1>1 DEF IInv, InMaking
<1>4. /\ methods' \in Seq({"REQMOD", "RESPMOD"}) /\ Len(methods') <= 2
      /\ Len(methods') = which - 1
  <2>1. CASE which = 1
    BY <1>1, <1>2, <1>3, <2>1, OrdersAre DEF Making
  <2>2. CASE which # 1
    <3>1. Making \in {"REQMOD", "RESPMOD"}
      BY <1>2, <2>2, OrdersAre DEF Making
    <3> QED
      BY <1>1, <1>2, <1>3, <2>2, <3>1
  <2> QED
    BY <2>1, <2>2
<1>5. Len(methods') = (IF which + 1 = 1 THEN 0 ELSE (which + 1) - 2)
  BY <1>2, <1>4
<1>6. TypeOK'
  <2>1. which' \in 1 .. 4 /\ slot' \in 1 .. (MaxModules + 1)
    BY <1>1, <1>2, ModuleAssumption
  <2> QED
    BY <1>1, <1>4, <2>1 DEF IInv, TypeOK, PyTypeOK
<1>7. Filled' /\ file' \in Files
  BY <1>1, FilledKept DEF IInv
<1>8. InMaking'
  <2> SUFFICES ASSUME place' = "making" PROVE InMaking'
    BY DEF InMaking
  <2>1. which < 3 /\ which' = which + 1
    BY <1>1
  <2>2. \A k \in (which + 1) .. 3 : handlers[Made[k]] = <<>>
    BY <1>1 DEF IInv, InMaking
  <2>3. handlers'[Making'] = <<>>
    BY <1>1, <1>2, <2>1, <2>2 DEF Making
  <2>4. slot' = Len(handlers'[Making']) + 1
    BY <1>1, <2>3
  <2>5. \A k \in (which' + 1) .. 3 : handlers'[Made[k]] = <<>>
    BY <1>1, <1>2, <2>1, <2>2
  <2> QED
    BY <1>2, <1>5, <2>1, <2>4, <2>5 DEF InMaking
<1>9. InServing'
  BY <1>1 DEF IInv, TypeOK, InServing, Busy
<1>10. InDeleting'
  <2>1. place' = "deleting" => Len(handlers'[Deleting']) \in Nat
    BY <1>1, OrdersAre, TableType DEF Deleting
  <2> QED
    BY <1>1, <2>1 DEF InDeleting
<1>11. Balanced'
  BY <1>1, HeldKept DEF IInv
<1>12. Called' /\ Holding'
  BY <1>1 DEF IInv, Called, Holding
<1>13. Leaks'
  BY <1>1, LeaksKept DEF IInv
<1> QED
  BY <1>6, <1>7, <1>8, <1>9, <1>10, <1>11, <1>12, <1>13 DEF IInv

\* A request that goes on without a modifier leaves nothing behind.
LEMMA RequestLeaks ==
    ASSUME IInv, live = "none",
           ReceiveOptions \/ Receive \/ SkipModule \/ AskNext \/ ContinueRequest
               \/ PreviewNobody \/ Answer
    PROVE  Leaks'
<1> USE DEF IInv, tableVars, loopVars, pyVars
<1>1. /\ slot \in Nat /\ slot >= 1 /\ request \in Methods /\ MaxModules \in Nat
      /\ slot <= MaxModules + 1 /\ loop \in {"preview", "modify"}
      /\ owned["pyvalues"] \in Int /\ owned["sys_path"] \in Int
      /\ Used \in Int
  BY UsedType, ModuleAssumption DEF TypeOK, PyTypeOK, Objects
<1>2. Len(Handler) \in Nat /\ Len(Handler) <= MaxModules
  BY <1>1, TableType DEF Handler
<1>3. /\ budget' = budget => Used' = Used
      /\ budget' = budget - 1 => Used' = Used + 2 * MaxModules
  BY UsedStep
<1>4. place = "check" => slot <= MaxModules
  BY <1>1, <1>2 DEF InServing
<1>5. place # "crashed" =>
        /\ 0 <= owned["pyvalues"] /\ 0 <= -owned["sys_path"]
        /\ owned["pyvalues"] <=
               Before + (IF place \in {"destroy", "check"} THEN 1 ELSE 0)
        /\ -owned["sys_path"] <=
               Before + (IF place \in {"call", "destroy", "check"} THEN 1 ELSE 0)
  BY DEF Leaks
<1> HIDE DEF IInv
<1>6. CASE ReceiveOptions
  BY <1>1, <1>3, <1>5, <1>6 DEF ReceiveOptions, Leaks, Before
<1>7. CASE Receive
  BY <1>1, <1>3, <1>5, <1>7 DEF Receive, Leaks, Before
<1>8. CASE SkipModule
  BY <1>1, <1>3, <1>5, <1>8 DEF SkipModule, Leaks, Before
<1>9. CASE AskNext
  BY <1>1, <1>3, <1>5, <1>9 DEF AskNext, Leaks, Before
<1>10. CASE ContinueRequest
  <2>1. loop = "preview"
    BY <1>1, <1>10 DEF ContinueRequest, EndsLoop
  <2> QED
    BY <1>1, <1>3, <1>4, <1>5, <1>10, <2>1 DEF ContinueRequest, Leaks, Before
<1>11. CASE PreviewNobody
  BY <1>1, <1>3, <1>5, <1>11 DEF PreviewNobody, Leaks, Before
<1>12. CASE Answer
  BY <1>1, <1>3, <1>4, <1>5, <1>12 DEF Answer, Leaks, Before
<1> QED
  BY <1>6, <1>7, <1>8, <1>9, <1>10, <1>11, <1>12

\* What a request does without a modifier touches no slot, no library and
\* nothing of Python's.
LEMMA RequestKept ==
    ASSUME IInv, place \in Busy, live = "none", Leaks',
           UNCHANGED <<file, wild, which, tableVars, live, pyVars>>,
           place' \in (Busy \ {"call", "destroy"}) \cup {"deleting"},
           place' \in {"serving", "deleting"} => slot' = 1,
           place' = "check" => slot' <= Len(Handler'),
           place' # "deleting" => budget' > 0,
           slot' \in 1 .. (MaxModules + 1), request' \in Methods,
           ieof' \in BOOLEAN, loop' \in {"preview", "modify"},
           response' \in Statuses, budget' \in 0 .. MaxRequests
    PROVE  IInv'
<1> USE DEF tableVars, pyVars
<1>1. TypeOK'
  BY DEF IInv, TypeOK, PyTypeOK, Busy
<1>2. Filled' /\ file' \in Files
  BY FilledKept DEF IInv
<1>3. InMaking'
  BY DEF InMaking, Busy
<1>4. InServing'
  BY DEF IInv, InServing, Busy
<1>5. InDeleting'
  <2>1. which = 1
    BY DEF IInv, InServing
  <2>2. place' = "deleting" => Len(handlers'[Deleting']) \in Nat
    BY <2>1, OrdersAre, TableType DEF Deleting
  <2> QED
    BY <2>1, <2>2 DEF InDeleting, Busy
<1>6. Balanced'
  BY HeldKept DEF IInv, Busy
<1>7. Called'
  BY DEF Called, Busy
<1>8. Holding'
  BY DEF IInv, Holding, Busy
<1> QED
  BY <1>1, <1>2, <1>3, <1>4, <1>5, <1>6, <1>7, <1>8 DEF IInv

\* OPTIONS, and the steps between two modifiers.
LEMMA RequestStep ==
    ASSUME IInv,
           ReceiveOptions \/ Receive \/ SkipModule \/ AskNext \/ ContinueRequest
               \/ PreviewNobody \/ Answer
    PROVE  IInv'
<1> USE DEF tableVars, loopVars, pyVars, Busy
<1>1. /\ slot \in 1 .. (MaxModules + 1) /\ request \in Methods
      /\ ieof \in BOOLEAN /\ loop \in {"preview", "modify"}
      /\ response \in Statuses /\ budget \in 0 .. MaxRequests
  BY DEF IInv, TypeOK
<1>2. /\ place \in {"serving", "create", "check"}
      /\ UNCHANGED <<file, wild, which, tableVars, live, pyVars>>
  BY DEF ReceiveOptions, Receive, SkipModule, AskNext, ContinueRequest,
         PreviewNobody, Answer
<1>3. /\ live = "none" /\ budget > 0 /\ (place = "serving" => slot = 1)
      /\ Leaks'
  <2>1. live = "none"
    BY <1>2 DEF IInv, Called
  <2>2. Leaks'
    BY <2>1, RequestLeaks
  <2> QED
    BY <1>2, <2>1, <2>2 DEF IInv, InServing
<1>4. Len(Handler) \in Nat /\ Len(Handler) <= MaxModules
  BY <1>1, TableType DEF Handler
<1>5. {"null", "ok", "nocontent", "continue"} \subseteq Statuses
  BY DEF Statuses
<1>6. 1 \in 1 .. (MaxModules + 1) /\ {"OPTIONS", "REQMOD", "RESPMOD"} = Methods
  BY ModuleAssumption DEF Methods
<1>7. budget - 1 \in 0 .. MaxRequests
  BY <1>1, <1>3, ModuleAssumption
<1>8. CASE ReceiveOptions
  BY <1>1, <1>2, <1>3, <1>7, <1>8, RequestKept DEF ReceiveOptions
<1>9. CASE Receive
  BY <1>1, <1>2, <1>3, <1>5, <1>6, <1>9, RequestKept DEF Receive
<1>10. CASE SkipModule
  <2>1. slot + 1 \in 1 .. (MaxModules + 1)
    BY <1>1, <1>4, <1>10, ModuleAssumption DEF SkipModule, AtSlot
  <2> QED
    BY <1>1, <1>2, <1>3, <1>10, <2>1, RequestKept DEF SkipModule
<1>11. CASE AskNext
  <2>1. slot + 1 \in 1 .. (MaxModules + 1)
    BY <1>1, <1>4, <1>11, ModuleAssumption DEF AskNext, IInv, InServing
  <2> QED
    BY <1>1, <1>2, <1>3, <1>11, <2>1, RequestKept DEF AskNext
<1>12. CASE ContinueRequest
  BY <1>1, <1>2, <1>3, <1>5, <1>6, <1>12, RequestKept DEF ContinueRequest
<1>13. CASE PreviewNobody
  BY <1>1, <1>2, <1>3, <1>5, <1>6, <1>13, RequestKept DEF PreviewNobody
<1>14. CASE Answer
  <2>1. /\ slot' = 1 /\ budget' = budget - 1
        /\ place' = (IF budget' > 0 THEN "serving" ELSE "deleting")
        /\ request' = "OPTIONS" /\ ieof' = FALSE /\ loop' = "preview"
        /\ response' = "null"
    BY <1>14 DEF Answer
  <2> QED
    BY <1>1, <1>2, <1>3, <1>5, <1>6, <1>7, <2>1, RequestKept
<1> QED
  BY <1>8, <1>9, <1>10, <1>11, <1>12, <1>13, <1>14

-----------------------------------------------------------------------------
(* Modifiers.                                                               *)

\* The steps of a modifier leave the slots and the libraries alone.
LEMMA ModifierKept ==
    ASSUME IInv, place \in {"create", "call", "destroy"},
           place' \in {"call", "destroy", "check"},
           UNCHANGED <<file, wild, which, slot, tableVars, request, ieof, loop,
                       budget>>,
           slot <= Len(Handler), PyTypeOK', Called', Holding',
           Leaks', live' \in {"none", "echo", "modpy"}, response' \in Statuses
    PROVE  IInv'
<1> USE DEF tableVars
<1>1. TypeOK'
  BY DEF IInv, TypeOK
<1>2. Filled' /\ file' \in Files
  BY FilledKept DEF IInv
<1>3. InMaking' /\ InDeleting'
  BY DEF InMaking, InDeleting
<1>4. InServing'
  BY DEF IInv, InServing, Busy, Handler
<1>5. Balanced'
  BY HeldKept DEF IInv
<1> QED
  BY <1>1, <1>2, <1>3, <1>4, <1>5 DEF IInv

\* The slot at hand has a name, so its library is open and has both symbols.
LEMMA CreateStep == ASSUME IInv, CreateModifier PROVE IInv'
<1>1. /\ place = "create" /\ place' = "call" /\ slot <= Len(Handler)
      /\ Handler[slot].named /\ live' = Handler[slot].handle
      /\ IF live' = "modpy" THEN Construct ELSE UNCHANGED pyVars
      /\ UNCHANGED <<file, wild, which, slot, tableVars, request, ieof, loop,
                     response, budget>>
  BY DEF CreateModifier, AtSlot
<1>2. request \in Methods /\ slot \in 1 .. (MaxModules + 1) /\ response \in Statuses
  BY DEF IInv, TypeOK
<1>3. /\ Len(Handler) \in Nat /\ Len(Handler) <= MaxModules
      /\ slot \in 1 .. Len(Handler) /\ slot \in 1 .. MaxModules
  BY <1>1, <1>2, TableType, ModuleAssumption DEF Handler
<1>4. /\ Handler[slot] = SlotOf(Modules(request)[slot])
      /\ Modules(request)[slot] \in Loadable
  <2>1. slot <= Len(Modules(request)) /\ Len(Modules(request)) \in Nat
    BY <1>2, <1>3, TableType DEF IInv, Filled, Handler
  <2> QED
    BY <1>2, <1>3, <2>1, TableType DEF IInv, Filled, Handler
<1>5. live' \in {"echo", "modpy"}
  BY <1>1, <1>4, SlotType
<1>6. opened[live'] > 0
  <2>1. <<request, slot>> \in Held(live')
    BY <1>1, <1>2, <1>3 DEF Held, Handler
  <2>2. Cardinality(Held(live')) # 0 /\ Cardinality(Held(live')) \in Nat
    BY <2>1, HeldIsFinite, FS_EmptySet, FS_CardinalityType
  <2>3. opened[live'] = Cardinality(Held(live'))
    BY <1>1, <1>5 DEF IInv, Balanced, Libraries
  <2> QED
    BY <2>2, <2>3
<1>7. Called'
  BY <1>1, <1>3, <1>5, <1>6 DEF Called, Handler, tableVars
<1>8. /\ ~interpreter /\ ~imported
      /\ \A o \in Objects \ Known : owned[o] = 0
      /\ PyTypeOK
  BY <1>1 DEF IInv, TypeOK, Called, Holding
<1>9. PyTypeOK' /\ Holding'
  <2>1. CASE live' = "modpy"
    <3>1. /\ script' \in Scripts \ {"noinit"} /\ interpreter' = TRUE
          /\ imported' = (script' # "absent") /\ setting' = setting
          /\ owned' = After(InitTaken, InitGiven)
      BY <1>1, <2>1 DEF Construct
    <3>2. owned' \in [Objects -> Int] /\ \A o \in Objects :
              owned'[o] = owned[o] + (IF o \in InitTaken THEN 1 ELSE 0)
                                   - (IF o \in InitGiven THEN 1 ELSE 0)
      BY <1>8, <3>1 DEF After, PyTypeOK
    <3>3. owned'["_pymodule"] = (IF imported' THEN 1 ELSE 0)
      BY <1>8, <3>2 DEF InitTaken, InitGiven, Objects, Known
    <3>4. ASSUME NEW o \in Objects \ (Known \cup {"_pymodule"})
          PROVE  owned'[o] = 0
      <4>1. o \in InitTaken <=> o \in InitGiven
        BY <3>4 DEF InitTaken, InitGiven, Known
      <4> QED
        BY <1>8, <3>2, <4>1
    <3>5. PyTypeOK'
      BY <1>8, <3>1, <3>2 DEF PyTypeOK
    <3>6. imported' => script' \in Scripts \ {"noinit", "absent"}
      BY <3>1
    <3> QED
      BY <2>1, <3>1, <3>3, <3>4, <3>5, <3>6 DEF Holding
  <2>2. CASE live' # "modpy"
    <3>1. UNCHANGED pyVars
      BY <1>1, <2>2
    <3> QED
      BY <1>8, <2>2, <3>1 DEF Holding, PyTypeOK, pyVars
  <2> QED
    BY <2>1, <2>2
<1>10. Leaks'
  <2>1. /\ owned["pyvalues"] \in Int /\ owned["sys_path"] \in Int
        /\ Before \in Int /\ Before' = Before
    BY <1>1, <1>8, UsedType DEF PyTypeOK, Objects, IInv, Before, Used
  <2>2. /\ owned'["pyvalues"] = owned["pyvalues"]
        /\ owned'["sys_path"] \in {owned["sys_path"], owned["sys_path"] - 1}
    <3>1. CASE live' = "modpy"
      <4>1. owned' = After(InitTaken, InitGiven)
        BY <1>1, <3>1 DEF Construct
      <4>2. /\ "pyvalues" \notin InitTaken \cup InitGiven
            /\ "sys_path" \notin InitTaken
            /\ "pyvalues" \in Objects /\ "sys_path" \in Objects
        BY DEF InitTaken, InitGiven, Objects
      <4> QED
        BY <2>1, <4>1, <4>2 DEF After
    <3>2. CASE live' # "modpy"
      BY <1>1, <3>2 DEF pyVars
    <3> QED
      BY <3>1, <3>2
  <2> QED
    BY <1>1, <2>1, <2>2 DEF IInv, Leaks
<1> QED
  BY <1>1, <1>2, <1>3, <1>5, <1>7, <1>9, <1>10, ModifierKept

\* A call gives back all that it takes, but the values of the request.
LEMMA CallStep == ASSUME IInv, CallModifier PROVE IInv'
<1>1. /\ place = "call" /\ place' = "destroy"
      /\ \/ live = "modpy" /\ Respond /\ response' = Status(loop, ieof)
         \/ /\ live # "modpy" /\ UNCHANGED pyVars
            /\ response' = (IF loop = "modify" THEN "ok" ELSE "continue")
      /\ UNCHANGED <<file, wild, which, slot, tableVars, request, ieof, loop,
                     live, budget>>
  BY DEF CallModifier
<1>2. slot <= Len(Handler) /\ PyTypeOK /\ live \in {"none", "echo", "modpy"}
  BY <1>1 DEF IInv, TypeOK, InServing
<1>3. Called'
  BY <1>1 DEF IInv, Called, Handler, tableVars
<1>4. ASSUME live = "modpy"
      PROVE  UNCHANGED <<setting, script, interpreter, imported>>
  BY <1>1, <1>4 DEF Respond
<1>5. /\ \A o \in Objects \ {"pyvalues"} : owned'[o] = owned[o]
      /\ owned'["pyvalues"] \in {owned["pyvalues"], owned["pyvalues"] + 1}
      /\ owned' \in [Objects -> Int] /\ "pyvalues" \in Objects
  <2>1. owned \in [Objects -> Int] /\ "pyvalues" \in Objects
    BY <1>2 DEF PyTypeOK, Objects
  <2>2. CASE live = "modpy" /\ imported
    <3>1. owned' = After(ResponseTaken, ResponseTaken \cap ResponseGiven)
      BY <1>1, <2>2 DEF Respond
    <3>2. ResponseTaken \ {"pyvalues"} \subseteq ResponseGiven
      BY DEF ResponseTaken, ResponseGiven
    <3>3. "pyvalues" \notin ResponseGiven
      BY DEF ResponseGiven
    <3> QED
      BY <2>1, <3>1, <3>2, <3>3 DEF After
  <2>3. CASE ~(live = "modpy" /\ imported)
    <3>1. owned' = owned
      BY <1>1, <2>3 DEF Respond, pyVars
    <3> QED
      BY <2>1, <3>1
  <2> QED
    BY <2>2, <2>3
<1>6. PyTypeOK' /\ Holding'
  <2>1. UNCHANGED <<setting, script, interpreter, imported>>
    BY <1>1, <1>4 DEF pyVars
  <2>2. PyTypeOK'
    BY <1>2, <1>5, <2>1 DEF PyTypeOK
  <2>3. "pyvalues" \in Known /\ "_pymodule" \in Objects \ {"pyvalues"}
    BY DEF Known, Objects
  <2> QED
    BY <1>1, <1>5, <2>1, <2>2, <2>3 DEF IInv, Holding
<1>8. Leaks'
  <2>1. /\ owned["pyvalues"] \in Int /\ owned["sys_path"] \in Int
        /\ owned'["sys_path"] = owned["sys_path"]
        /\ Before \in Int /\ Before' = Before
    BY <1>1, <1>2, <1>5, UsedType
    DEF PyTypeOK, Objects, IInv, Before, Used
  <2> QED
    BY <1>1, <1>5, <2>1 DEF IInv, Leaks
<1>7. response' \in Statuses
  <2>1. CASE live = "modpy"
    <3>1. \/ ~imported
          \/ script \in {"nocleanup", "raises", "other", "good"}
      BY <1>1, <2>1, ModpyAssumption DEF IInv, Holding, Respond, ScriptKinds
    <3>2. Status(loop, ieof) \in {"error", "ok", "nocontent", "continue"}
      <4>1. CASE ~imported \/ script \in {"raises", "other"}
        <5>1. Status(loop, ieof) = "error"
          BY <4>1 DEF Status
        <5> QED
          BY <5>1
      <4>2. CASE imported /\ script \in {"good", "nocleanup"}
        BY <4>2 DEF Status
      <4> QED
        BY <3>1, <4>1, <4>2
    <3> QED
      BY <1>1, <2>1, <3>2 DEF Statuses
  <2>2. CASE live # "modpy"
    BY <1>1, <2>2 DEF Statuses
  <2> QED
    BY <2>1, <2>2
<1> QED
  BY <1>1, <1>2, <1>3, <1>6, <1>7, <1>8, ModifierKept

\* The interpreter ends with its modifier, and all that it held.
LEMMA DestroyStep == ASSUME IInv, DestroyModifier PROVE IInv'
<1>1. /\ place = "destroy" /\ place' = "check" /\ live' = "none"
      /\ IF live = "modpy" THEN Destruct ELSE UNCHANGED pyVars
      /\ UNCHANGED <<file, wild, which, slot, tableVars, request, ieof, loop,
                     response, budget>>
  BY DEF DestroyModifier
<1>2. slot <= Len(Handler) /\ PyTypeOK /\ response \in Statuses
  BY <1>1 DEF IInv, TypeOK, InServing
<1>3. Called'
  BY <1>1 DEF Called
<1>4. PyTypeOK' /\ Holding'
  <2>1. CASE live = "modpy"
    <3>1. /\ interpreter' = FALSE /\ imported' = FALSE /\ script' = "none"
          /\ setting' = setting
          /\ owned' = After(CleanupTaken, CleanupGiven)
      BY <1>1, <2>1 DEF Destruct
    <3>2. /\ owned["_pymodule"] = (IF imported THEN 1 ELSE 0)
          /\ \A o \in Objects \ (Known \cup {"_pymodule"}) : owned[o] = 0
      BY <2>1 DEF IInv, Holding
    <3>3. owned' \in [Objects -> Int]
      BY <1>2, <3>1 DEF After, PyTypeOK
    <3>4. ASSUME NEW o \in Objects \ Known PROVE owned'[o] = 0
      <4>1. CASE o = "_pymodule"
        BY <3>1, <3>2, <4>1 DEF After, CleanupTaken, CleanupGiven, Objects
      <4>2. CASE o # "_pymodule"
        <5>1. o \in CleanupTaken <=> o \in CleanupGiven
          BY <4>2 DEF CleanupTaken, CleanupGiven
        <5> QED
          BY <3>1, <3>2, <4>2, <5>1 DEF After
      <4> QED
        BY <4>1, <4>2
    <3> QED
      BY <1>1, <1>2, <3>1, <3>3, <3>4 DEF Holding, PyTypeOK
  <2>2. CASE live # "modpy"
    BY <1>1, <1>2, <2>2 DEF IInv, Holding, PyTypeOK, pyVars
  <2> QED
    BY <2>1, <2>2
<1>5. Leaks'
  <2>1. /\ owned'["pyvalues"] = owned["pyvalues"]
        /\ owned'["sys_path"] = owned["sys_path"]
    <3>1. CASE live = "modpy"
      <4>1. owned' = After(CleanupTaken, CleanupGiven)
        BY <1>1, <3>1 DEF Destruct
      <4>2. /\ {"pyvalues", "sys_path"} \cap CleanupTaken = {}
            /\ {"pyvalues", "sys_path"} \cap CleanupGiven = {}
            /\ {"pyvalues", "sys_path"} \subseteq Objects
        BY DEF CleanupTaken, CleanupGiven, Objects
      <4> QED
        BY <1>2, <4>1, <4>2 DEF After, PyTypeOK
    <3>2. CASE live # "modpy"
      BY <1>1, <3>2 DEF pyVars
    <3> QED
      BY <3>1, <3>2
  <2>2. Before' = Before
    BY <1>1 DEF Before, Used
  <2> QED
    BY <1>1, <2>1, <2>2 DEF IInv, Leaks
<1> QED
  BY <1>1, <1>2, <1>3, <1>4, <1>5, ModifierKept

-----------------------------------------------------------------------------
(* The end of the worker.                                                   *)

\* cleanup_modules closes the library of the slot at hand.
LEMMA UnloadStep == ASSUME IInv, UnloadModule PROVE IInv'
<1> DEFINE m == Deleting
           s == handlers[m][slot]
<1>1. /\ place = "deleting" /\ place' = "deleting" /\ slot' = slot + 1
      /\ slot <= Len(handlers[m])
      /\ opened' = (IF s.handle # "NULL"
                    THEN [opened EXCEPT ![s.handle] = @ - 1] ELSE opened)
      /\ UNCHANGED <<file, wild, which, handlers, methods, loopVars, budget,
                     pyVars>>
  BY DEF UnloadModule, Closed
<1>2. which \in 1 .. 3 /\ m \in Methods /\ slot \in 1 .. (MaxModules + 1)
  BY <1>1, OrdersAre DEF IInv, TypeOK, InDeleting, Deleting
<1>3. /\ Len(handlers[m]) \in Nat /\ Len(handlers[m]) <= MaxModules
      /\ s \in Slot /\ slot \in 1 .. MaxModules
  BY <1>1, <1>2, TableType, ModuleAssumption
<1>4. opened \in [Libraries -> Nat] /\ Deleting' = m
  BY <1>1 DEF IInv, TypeOK, Deleting
<1>5. \A l \in Libraries :
          /\ opened[l] = Cardinality(Held(l)) /\ IsFiniteSet(Held(l))
          /\ Cardinality(Held(l)) \in Nat
  BY <1>1, HeldIsFinite, FS_CardinalityType DEF IInv, Balanced
<1> HIDE DEF m
<1>6. ASSUME NEW l \in Libraries
      PROVE  /\ Held(l)' = (IF l = s.handle THEN Held(l) \ {<<m, slot>>}
                            ELSE Held(l))
             /\ l = s.handle => <<m, slot>> \in Held(l)
  <2>1. \A h \in Methods \X (1 .. MaxModules) :
            (h[1] = m /\ h[2] < slot + 1) <=>
                (h[1] = m /\ h[2] < slot) \/ h = <<m, slot>>
    BY <1>2, ModuleAssumption
  <2>2. Deleting = m
    BY DEF m
  <2>3. l = s.handle => <<m, slot>> \in Held(l)
    BY <1>1, <1>2, <1>3, <2>2 DEF Held
  <2>4. ASSUME NEW h \in Methods \X (1 .. MaxModules)
        PROVE  h \in Held(l)' <=>
                   h \in Held(l) /\ (l = s.handle => h # <<m, slot>>)
    <3>1. h \in Held(l)' <=>
              /\ h[2] \in 1 .. Len(handlers[h[1]])
              /\ handlers[h[1]][h[2]].handle = l
              /\ ~(h[1] = m /\ h[2] < slot + 1)
      BY <1>1, <1>4 DEF Held
    <3>2. h \in Held(l) <=>
              /\ h[2] \in 1 .. Len(handlers[h[1]])
              /\ handlers[h[1]][h[2]].handle = l
              /\ ~(h[1] = m /\ h[2] < slot)
      BY <1>1, <2>2 DEF Held
    <3>3. h = <<m, slot>> => handlers[h[1]][h[2]] = s
      OBVIOUS
    <3> HIDE DEF s
    <3> QED
      BY <2>1, <3>1, <3>2, <3>3
  <2>5. /\ Held(l) \subseteq Methods \X (1 .. MaxModules)
        /\ Held(l)' \subseteq Methods \X (1 .. MaxModules)
    BY DEF Held
  <2> HIDE DEF s
  <2> QED
    BY <2>3, <2>4, <2>5
<1> HIDE DEF s
<1>7. Balanced'
  <2> SUFFICES ASSUME NEW l \in Libraries
               PROVE  opened'[l] = Cardinality(Held(l)')
    BY DEF Balanced
  <2>1. CASE l = s.handle
    <3>1. opened'[l] = opened[l] - 1
      BY <1>1, <1>4, <2>1 DEF Libraries
    <3>2. Held(l)' = Held(l) \ {<<m, slot>>} /\ <<m, slot>> \in Held(l)
      BY <1>6, <2>1
    <3> QED
      BY <1>5, <3>1, <3>2, FS_RemoveElement
  <2>2. CASE l # s.handle
    <3>1. opened'[l] = opened[l]
      BY <1>1, <1>4, <2>2
    <3> QED
      BY <1>5, <1>6, <2>2, <3>1
  <2> QED
    BY <2>1, <2>2
<1>8. opened' \in [Libraries -> Nat]
  <2>1. s.handle # "NULL" => opened[s.handle] > 0
    <3>1. s.handle # "NULL" => s.handle \in Libraries
      BY <1>3 DEF Slot
    <3>2. s.handle # "NULL" => Held(s.handle) # {}
      BY <1>6, <3>1
    <3> QED
      BY <1>5, <3>1, <3>2, FS_EmptySet
  <2>2. s.handle # "NULL" => s.handle \in Libraries
    BY <1>3 DEF Slot
  <2> QED
    BY <1>1, <1>4, <2>1, <2>2
<1>9. TypeOK'
  <2>1. slot' \in 1 .. (MaxModules + 1)
    BY <1>1, <1>3, ModuleAssumption
  <2> QED
    BY <1>1, <1>8, <2>1 DEF IInv, TypeOK, PyTypeOK, loopVars, pyVars
<1>10. Filled' /\ file' \in Files
  BY <1>1, FilledKept DEF IInv
<1>11. InDeleting'
  <2>1. slot' <= Len(handlers'[Deleting']) + 1
    BY <1>1, <1>2, <1>3, <1>4
  <2> QED
    BY <1>1, <1>2, <2>1 DEF IInv, InDeleting
<1>12. InMaking' /\ InServing' /\ Called' /\ Holding'
  BY <1>1 DEF IInv, InMaking, InServing, Called, Holding, Busy, loopVars, pyVars
<1>13. Leaks'
  BY <1>1, LeaksKept DEF IInv, pyVars
<1> QED
  BY <1>7, <1>9, <1>10, <1>11, <1>12, <1>13 DEF IInv

\* A handler is gone, with all its slots.
LEMMA DeleteStep == ASSUME IInv, DeleteHandler PROVE IInv'
<1> DEFINE m == Deleting
<1>1. /\ place = "deleting" /\ slot > Len(handlers[m]) /\ slot' = 1
      /\ handlers' = [handlers EXCEPT ![m] = <<>>]
      /\ \/ which < 3 /\ which' = which + 1 /\ place' = "deleting"
         \/ which >= 3 /\ place' = "ended" /\ which' = which
      /\ UNCHANGED <<file, wild, opened, methods, loopVars, budget, pyVars>>
  BY OrdersAre DEF DeleteHandler, IInv, TypeOK
<1>2. which \in 1 .. 3 /\ m \in Methods /\ m = Deleted[which]
  BY <1>1, OrdersAre DEF IInv, TypeOK, InDeleting, Deleting
<1>3. /\ \A n \in Methods : handlers[n] \in Seq(Slot) /\ Len(handlers[n]) \in Nat
      /\ handlers \in [Methods -> UpTo(MaxModules, Slot)]
      /\ slot \in Nat
  BY TableType, ModuleAssumption DEF IInv, TypeOK
<1>4. \A k \in 1 .. (which - 1) : handlers[Deleted[k]] = <<>>
  BY <1>1 DEF IInv, InDeleting
<1> HIDE DEF m
<1>5. handlers'[m] = <<>> /\ \A n \in Methods \ {m} : handlers'[n] = handlers[n]
  BY <1>1, <1>2, <1>3
<1>6. \A k \in 1 .. which : handlers'[Deleted[k]] = <<>>
  BY <1>2, <1>4, <1>5, OrdersAre
<1>7. TypeOK'
  <2>1. <<>> \in Seq(Slot) /\ Len(<<>>) <= MaxModules
    BY ModuleAssumption
  <2>2. handlers' \in [Methods -> UpTo(MaxModules, Slot)]
    BY <1>1, <1>2, <1>3, <2>1, UpToIsSeq, ModuleAssumption
  <2>3. which' \in 1 .. 4 /\ slot' \in 1 .. (MaxModules + 1)
    BY <1>1, <1>2, ModuleAssumption
  <2> QED
    BY <1>1, <2>2, <2>3 DEF IInv, TypeOK, PyTypeOK, loopVars, pyVars
<1>8. Filled' /\ file' \in Files
  <2>1. \A n \in Methods : Modules(n)' = Modules(n)
    BY <1>1, SameModules
  <2>2. Len(handlers'[m]) = 0 /\ Len(Modules(m)) \in Nat
    BY <1>5, TableType
  <2>3. \A n \in Methods \ {m} :
            /\ Len(handlers'[n]) <= Len(Modules(n))
            /\ \A j \in 1 .. Len(handlers'[n]) :
                  handlers'[n][j] = SlotOf(Modules(n)[j])
    BY <1>5 DEF IInv, Filled
  <2> QED
    BY <1>1, <2>1, <2>2, <2>3 DEF IInv, Filled
<1>9. InDeleting'
  <2>1. CASE place' = "deleting"
    <3>1. which < 3 /\ which' = which + 1
      BY <1>1, <2>1
    <3>2. Deleting' \in Methods
      BY <1>2, <3>1, OrdersAre DEF Deleting
    <3>3. Len(handlers'[Deleting']) \in Nat
      BY <1>3, <1>5, <3>2
    <3> QED
      BY <1>1, <1>2, <1>6, <2>1, <3>1, <3>3 DEF InDeleting
  <2>2. CASE place' = "ended"
    <3>1. which = 3
      BY <1>1, <1>2, <2>2
    <3> QED
      BY <1>6, <2>2, <3>1, OrdersAre DEF InDeleting, Methods
  <2> QED
    BY <1>1, <2>1, <2>2
<1>10. Balanced'
  <2> SUFFICES ASSUME NEW l \in Libraries PROVE Held(l)' = Held(l)
    BY <1>1 DEF IInv, Balanced
  <2>1. ASSUME NEW h \in Methods \X (1 .. MaxModules)
        PROVE  h \in Held(l)' <=> h \in Held(l)
    <3>1. h[1] \in Methods /\ h[2] \in 1 .. MaxModules /\ Deleting = m
      BY DEF m
    <3>2. CASE h[1] = m
      <4>1. h \notin Held(l)
        BY <1>1, <1>3, <3>1, <3>2 DEF Held
      <4>2. h \notin Held(l)'
        BY <1>5, <3>1, <3>2 DEF Held
      <4> QED
        BY <4>1, <4>2
    <3>3. CASE h[1] # m
      <4>1. h \in Held(l) <=>
                /\ h[2] \in 1 .. Len(handlers[h[1]])
                /\ handlers[h[1]][h[2]].handle = l
        BY <3>1, <3>3 DEF Held
      <4>2. h \in Held(l)' <=>
                /\ h[2] \in 1 .. Len(handlers[h[1]])
                /\ handlers[h[1]][h[2]].handle = l
        <5>1. ~(h[2] < slot')
          BY <1>1, <3>1, ModuleAssumption
        <5> QED
          BY <1>5, <3>1, <3>3, <5>1 DEF Held
      <4> QED
        BY <4>1, <4>2
    <3> QED
      BY <3>2, <3>3
  <2> QED
    BY <2>1 DEF Held
<1>11. InMaking' /\ InServing' /\ Called' /\ Holding'
  BY <1>1 DEF IInv, InMaking, InServing, Called, Holding, Busy, loopVars, pyVars
<1>13. Leaks'
  BY <1>1, LeaksKept DEF IInv, pyVars
<1> QED
  BY <1>7, <1>8, <1>9, <1>10, <1>11, <1>13 DEF IInv

-----------------------------------------------------------------------------

\* The invariant is inductive.
LEMMA NextKeepsIInv == ASSUME IInv, [Next]_vars PROVE IInv'
<1>1. CASE Next
  <2>1. CASE LoadGarbage \/ ModifierCrashes \/ UnloadNull
    BY <2>1, CrashStep DEF LoadGarbage, ModifierCrashes, UnloadNull
  <2> QED
    BY <1>1, <2>1, LoadModuleStep, MakeHandlerStep, RequestStep, CreateStep,
       CallStep, DestroyStep, UnloadStep, DeleteStep DEF Next
<1>2. CASE UNCHANGED vars
  <2> USE <1>2 DEF vars, tableVars, loopVars, pyVars
  <2>1. TypeOK'
    BY DEF IInv, TypeOK, PyTypeOK
  <2>2. Filled' /\ file' \in Files
    BY FilledKept DEF IInv
  <2>3. InMaking' /\ InServing' /\ InDeleting'
    BY DEF IInv, InMaking, Making, InServing, Handler, InDeleting, Deleting
  <2>4. Balanced'
    <3>1. \A l \in Libraries : Held(l)' = Held(l)
      BY DEF Held, Deleting
    <3> QED
      BY <3>1 DEF IInv, Balanced
  <2>5. Called' /\ Holding' /\ Leaks'
    BY DEF IInv, Called, Handler, Holding, Leaks, Before, Used
  <2> QED
    BY <2>1, <2>2, <2>3, <2>4, <2>5 DEF IInv
<1> QED
  BY <1>1, <1>2

\* Spec keeps the inductive invariant.
THEOREM IInvCorrect == Spec => []IInv
  BY InitIInv, NextKeepsIInv, PTL DEF Spec

\* Every variable keeps its type, and no library is closed more often than it
\* was opened.
THEOREM TypeCorrect == Spec => []TypeOK
<1>1. IInv => TypeOK
  BY DEF IInv
<1> QED
  BY <1>1, IInvCorrect, PTL

\* A handler only asks modules that are listed first for its method, whose
\* library is open and has both symbols (load_modules, load_modifier).
THEOREM OnlyLoadedCorrect == Spec => []OnlyLoadedCalled
<1>1. IInv => OnlyLoadedCalled
  <2> SUFFICES ASSUME IInv, live # "none" PROVE OnlyLoadedCalled
    BY DEF OnlyLoadedCalled
  <2>1. /\ slot \in 1 .. Len(Handler) /\ Handler[slot].named
        /\ Handler[slot].handle = live /\ opened[live] > 0
        /\ request \in Methods /\ file \in Files
    BY DEF IInv, Called, TypeOK
  <2>2. /\ slot \in 1 .. Len(Modules(request))
        /\ Handler[slot] = SlotOf(Modules(request)[slot])
    <3>1. Len(Handler) \in Nat /\ Len(Modules(request)) \in Nat
      BY <2>1, TableType DEF Handler
    <3>2. Len(Handler) <= Len(Modules(request))
      BY <2>1 DEF IInv, Filled, Handler
    <3>3. Handler[slot] = SlotOf(Modules(request)[slot])
      BY <2>1 DEF IInv, Filled, Handler
    <3> QED
      BY <2>1, <3>1, <3>2, <3>3
  <2> QED
    BY <2>1, <2>2, NamedIsListed DEF OnlyLoadedCalled
<1> QED
  BY <1>1, IInvCorrect, PTL

\* A worker that ends has closed what it opened (cleanup_modules).
THEOREM LibrariesCorrect == Spec => []LibrariesReturned
<1>1. IInv => LibrariesReturned
  <2> SUFFICES ASSUME IInv, place = "ended", NEW l \in Libraries
               PROVE  opened[l] = 0
    BY DEF LibrariesReturned
  <2>1. Held(l) = {}
    BY DEF IInv, InDeleting, Held
  <2> QED
    BY <2>1, FS_EmptySet DEF IInv, Balanced
<1> QED
  BY <1>1, IInvCorrect, PTL

\* Between two modifiers there is no interpreter, and of Python's references
\* only the values of requests (bitz_get_request) and sys_path (init_python)
\* are not balanced: at most one of each for every modifier that was made,
\* and two modifiers for every module and request.
THEOREM LeaksCorrect == Spec => []OnlyKnownLeaks
<1>1. IInv => OnlyKnownLeaks
  <2> SUFFICES ASSUME IInv, live = "none", place # "crashed"
               PROVE  OnlyKnownLeaks
    BY DEF OnlyKnownLeaks
  <2> DEFINE at == IF place \in {"create", "check"} THEN 1 ELSE 0
  <2>1. ~interpreter /\ ~imported /\ \A o \in Objects \ Known : owned[o] = 0
    BY DEF IInv, Holding
  <2>2. /\ slot \in Nat /\ slot >= 1 /\ slot <= MaxModules + 1
        /\ MaxModules \in Nat /\ MaxRequests \in Nat /\ budget \in Int
        /\ Used \in Int
        /\ owned["pyvalues"] \in Int /\ owned["sys_path"] \in Int
    BY UsedType, ModuleAssumption DEF IInv, TypeOK, PyTypeOK, Objects
  <2>3. place \notin {"call", "destroy"}
    BY DEF IInv, Called
  <2>4. place = "check" => slot <= MaxModules
    <3>1. Len(Handler) \in Nat /\ Len(Handler) <= MaxModules
      BY TableType DEF IInv, TypeOK, Handler
    <3> QED
      BY <2>2, <3>1 DEF IInv, InServing
  <2>5. 2 * MaxModules * Begun = Used + (IF at = 1 THEN 2 * MaxModules ELSE 0)
    <3>1. \A m, r, b \in Int :
              2 * m * (r - b + 1) = 2 * m * (r - b) + 2 * m
      OBVIOUS
    <3>2. CASE at = 1
      BY <2>2, <3>1, <3>2 DEF Begun, Used
    <3>3. CASE at = 0
      BY <2>2, <3>3 DEF Begun, Used
    <3> QED
      BY <3>2, <3>3
  <2>6. /\ 0 <= owned["pyvalues"] /\ 0 <= -owned["sys_path"]
        /\ owned["pyvalues"] <= Before + (IF place = "check" THEN 1 ELSE 0)
        /\ -owned["sys_path"] <= Before + (IF place = "check" THEN 1 ELSE 0)
    BY <2>3 DEF IInv, Leaks
  <2>7. Before + (IF place = "check" THEN 1 ELSE 0) <= 2 * MaxModules * Begun
    BY <2>2, <2>3, <2>4, <2>5 DEF Before
  <2>8. 2 * MaxModules * Begun \in Int /\ Before \in Int
    BY <2>2, <2>5, UsedType DEF IInv
  <2> HIDE DEF at
  <2>9. /\ owned["pyvalues"] \in 0 .. (2 * MaxModules * Begun)
        /\ -owned["sys_path"] \in 0 .. (2 * MaxModules * Begun)
    BY <2>2, <2>6, <2>7, <2>8
  <2> QED
    BY <2>1, <2>9 DEF OnlyKnownLeaks, Known
<1> QED
  BY <1>1, IInvCorrect, PTL
=============================================================================
