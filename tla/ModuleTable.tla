---------------------------- MODULE ModuleTable -----------------------------
(***************************************************************************)
(* The modifier modules of a worker: which ones the configuration lists    *)
(* (src/bitz/config.cpp), how the request handlers load, call and unload   *)
(* them (src/bitz/request_handler.cpp), and the life of the handlers       *)
(* themselves (src/bitz/worker.cpp, util.cpp).                             *)
(*                                                                         *)
(* What goes over the connection is the subject of Session. Here a request *)
(* is only what decides which modules are asked, and a worker has a        *)
(* process of its own, so that one of them stands for all.                 *)
(***************************************************************************)
EXTENDS Modpy, Sequences

CONSTANTS
    Names,         \* the methods that the configuration may have entries for
    Settings,      \* what it may list as a module, see SettingKinds
    MaxEntries,    \* bound: entries of req_handlers
    MaxModules,    \* bound: modules of an entry
    MaxRequests    \* max_worker_requests

\* The libraries echo and mod_py; echo under an empty name; a library that
\* cannot be opened, or lacks create or destroy; and one without a setting
\* that is needed.
SettingKinds == {"echo", "modpy", "unnamed", "absent", "partial", "cut"}

ASSUME ModuleAssumption ==
    /\ Names \subseteq {"OPTIONS", "REQMOD", "RESPMOD"}
    /\ Settings \subseteq SettingKinds
    /\ MaxEntries \in Nat /\ MaxModules \in Nat /\ MaxRequests \in Nat

VARIABLES
    file,       \* req_handlers in the configuration file
    wild,       \* a modules_count that was never set is not 0
    place,      \* where the worker is
    which,      \* the handler that is made, or deleted: a position in an order
    slot,       \* the module at hand
    handlers,   \* _handlers, for each method
    opened,     \* how often each library is open
    methods,    \* the methods that the OPTIONS handler knows
    request,    \* the method of the request that is processed
    ieof,       \* its preview is the whole body
    loop,       \* process_preview or process_modify
    live,       \* the modifier that exists, or "none"
    response,   \* the status that the modules have given so far
    budget      \* the requests left

tableVars == <<handlers, opened, methods>>
loopVars == <<request, ieof, loop, live, response>>
vars == <<file, wild, place, which, slot, tableVars, loopVars, budget, pyVars>>

\* Mutant: one handler is made twice.
MadeTwice == <<"OPTIONS", "REQMOD", "REQMOD">>

\* The order in which load_req_handlers makes the handlers, and that in which
\* they are deleted: delete_req_handlers spares OPTIONS for the destructor.
Made == <<"OPTIONS", "REQMOD", "RESPMOD">>
Deleted == <<"REQMOD", "RESPMOD", "OPTIONS">>
Methods == {"OPTIONS", "REQMOD", "RESPMOD"}

Libraries == {"echo", "modpy", "partial", "program"}
Slot == [named : BOOLEAN, handle : Libraries \cup {"NULL"}]
Statuses == {"null", "ok", "nocontent", "continue", "error"}

UpTo(n, S) == UNION {[1 .. k -> S] : k \in 0 .. n}

\* An entry has a class or not, and lists modules or not.
Entries ==
    [handler : Names, class : BOOLEAN, listed : BOOLEAN,
     modules : UpTo(MaxModules, Settings)]
Files ==
    UpTo(MaxEntries, {e \in Entries : ~(e.class /\ e.listed) => e.modules = <<>>})

-----------------------------------------------------------------------------
(* read_req_handler_configs: the first setting that is missing ends it, and *)
(* leaves everything behind it as new made it: empty names, and counts and  *)
(* pointers that are not set.                                               *)

Breaks(e) == ~e.class \/ \E j \in DOMAIN e.modules : e.modules[j] = "cut"
ReadSoFar(i) == \A k \in 1 .. (i - 1) : ~Breaks(file[k])

\* The name of an entry of the table; "" for those that are not reached.
NameOf(i) == IF ReadSoFar(i) THEN file[i].handler ELSE ""

\* modules_count is set.
Counted(i) == ReadSoFar(i) /\ file[i].class /\ file[i].listed

\* The modules, with empty names from the one on that lacks a setting. To
\* dlopen an empty name is the program itself, which has neither symbol.
ModulesOf(i) ==
    [j \in DOMAIN file[i].modules |->
        IF \E k \in 1 .. j : file[i].modules[k] = "cut"
        THEN "blank" ELSE file[i].modules[j]]

\* Mutant: a duplicate entry is of interest.
EntryOfLast(m) ==
    CHOOSE i \in DOMAIN file :
        NameOf(i) = m /\ \A k \in (i + 1) .. Len(file) : NameOf(k) # m

\* load_modules: the first entry of the method.
Configured(m) == \E i \in DOMAIN file : NameOf(i) = m
EntryOf(m) ==
    CHOOSE i \in DOMAIN file :
        NameOf(i) = m /\ \A k \in 1 .. (i - 1) : NameOf(k) # m
Modules(m) ==
    IF Configured(m) /\ Counted(EntryOf(m)) THEN ModulesOf(EntryOf(m)) ELSE <<>>

-----------------------------------------------------------------------------

TypeOK ==
    /\ PyTypeOK
    /\ wild \in BOOLEAN
    /\ place \in {"making", "serving", "create", "call", "destroy", "check",
                  "deleting", "ended", "crashed"}
    /\ which \in 1 .. 4
    /\ slot \in 1 .. (MaxModules + 1)
    /\ handlers \in [Methods -> UpTo(MaxModules, Slot)]
    /\ opened \in [Libraries -> Nat]
    /\ methods \in Seq({"REQMOD", "RESPMOD"}) /\ Len(methods) <= 2
    /\ request \in Methods /\ ieof \in BOOLEAN
    /\ loop \in {"preview", "modify"}
    /\ live \in {"none", "echo", "modpy"}
    /\ response \in Statuses
    /\ budget \in 0 .. MaxRequests

Init ==
    /\ PyInit
    /\ file \in Files
    /\ wild \in BOOLEAN /\ (wild => \E i \in DOMAIN file : ~Counted(i))
    /\ place = "making" /\ which = 1 /\ slot = 1
    /\ handlers = [m \in Methods |-> <<>>]
    /\ opened = [l \in Libraries |-> 0] /\ methods = <<>>
    /\ request = "OPTIONS" /\ ieof = FALSE /\ loop = "preview"
    /\ live = "none" /\ response = "null" /\ budget = MaxRequests

Crash ==
    /\ place' = "crashed"
    /\ UNCHANGED <<file, wild, which, slot, tableVars, loopVars, budget, pyVars>>

-----------------------------------------------------------------------------
(* The handlers are made, and load their modules.                           *)

Making == Made[which]

\* What dlopen opens for a setting.
Opens(x) ==
    CASE x \in {"echo", "unnamed"} -> "echo"
      [] x \in {"modpy", "partial"} -> x
      [] x = "blank" -> "program"
      [] x = "absent" -> "NULL"

\* Mutant: a library that opens is good.
SlotOfOpened(x) ==
    [named |-> x # "unnamed" /\ Opens(x) # "NULL", handle |-> Opens(x)]

\* A slot keeps the handle whether both symbols were found or not; the name
\* tells.
SlotOf(x) == [named |-> x \in {"echo", "modpy"}, handle |-> Opens(x)]

\* load_modifier, and what load_modules makes of it.
LoadModule ==
    /\ place = "making" /\ slot <= Len(Modules(Making))
    /\ LET new == SlotOf(Modules(Making)[slot]) IN
          /\ handlers' = [handlers EXCEPT ![Making] = Append(@, new)]
          /\ opened' = (IF new.handle = "NULL" THEN opened
                        ELSE [opened EXCEPT ![new.handle] = @ + 1])
    /\ slot' = slot + 1
    /\ UNCHANGED <<file, wild, place, which, methods, loopVars, budget, pyVars>>

\* The matching entry has a count and a pointer that were never set.
LoadGarbage ==
    /\ place = "making" /\ wild
    /\ Configured(Making) /\ ~Counted(EntryOf(Making))
    /\ Crash

\* The handler is there, and OPTIONS hears of it.
MakeHandler ==
    /\ place = "making" /\ slot > Len(Modules(Making))
    /\ ~(wild /\ Configured(Making) /\ ~Counted(EntryOf(Making)))
    /\ methods' =
          (IF Making = "OPTIONS" THEN methods ELSE Append(methods, Making))
    /\ slot' = 1
    /\ \/ which < Len(Made) /\ which' = which + 1 /\ UNCHANGED place
       \/ /\ which = Len(Made) /\ which' = 1
          /\ place' = (IF budget > 0 THEN "serving" ELSE "deleting")
    /\ UNCHANGED <<file, wild, handlers, opened, loopVars, budget, pyVars>>

-----------------------------------------------------------------------------
(* A request, as far as the modules are concerned.                          *)

\* A request comes in. OPTIONS asks no module, and names the first method that
\* was registered.
ReceiveOptions ==
    /\ place = "serving" /\ Len(methods) > 0
    /\ budget' = budget - 1
    /\ place' = (IF budget' > 0 THEN "serving" ELSE "deleting")
    /\ UNCHANGED <<file, wild, which, slot, tableVars, loopVars, pyVars>>

Receive ==
    /\ place = "serving" /\ place' = "create" /\ slot' = 1
    /\ request' \in {"REQMOD", "RESPMOD"}
    /\ loop' \in {"preview", "modify"}
    /\ ieof' \in BOOLEAN /\ (ieof' => loop' = "preview")
    /\ response' = "null"
    /\ UNCHANGED <<file, wild, which, tableVars, live, budget, pyVars>>

Handler == handlers[request]
AtSlot == slot <= Len(Handler)

\* The modules that are not loaded have no name.
SkipModule ==
    /\ place = "create" /\ AtSlot /\ ~Handler[slot].named
    /\ slot' = slot + 1
    /\ UNCHANGED <<file, wild, place, which, tableVars, loopVars, budget, pyVars>>

CreateModifier ==
    /\ place = "create" /\ AtSlot /\ Handler[slot].named
    /\ live' = Handler[slot].handle
    /\ IF live' = "modpy" THEN Construct ELSE UNCHANGED pyVars
    /\ place' = "call"
    /\ UNCHANGED <<file, wild, which, slot, tableVars, request, ieof, loop,
                   response, budget>>

\* echo previews with a 100 and modifies with a 200.
CallModifier ==
    /\ place = "call"
    /\ \/ /\ live = "modpy" /\ Respond
          /\ response' = Status(loop, ieof)
       \/ /\ live # "modpy" /\ UNCHANGED pyVars
          /\ response' = (IF loop = "modify" THEN "ok" ELSE "continue")
    /\ place' = "destroy"
    /\ UNCHANGED <<file, wild, which, slot, tableVars, request, ieof, loop,
                   live, budget>>

\* Mutant: a response that ends the loop leaves the modifier alone.
DestroyModifierUnlessDone ==
    /\ place = "destroy"
    /\ \/ /\ response # "ok"
          /\ IF live = "modpy" THEN Destruct ELSE UNCHANGED pyVars
          /\ live' = "none"
       \/ response = "ok" /\ UNCHANGED <<live, pyVars>>
    /\ place' = "check"
    /\ UNCHANGED <<file, wild, which, slot, tableVars, request, ieof, loop,
                   response, budget>>

DestroyModifier ==
    /\ place = "destroy"
    /\ IF live = "modpy" THEN Destruct ELSE UNCHANGED pyVars
    /\ live' = "none" /\ place' = "check"
    /\ UNCHANGED <<file, wild, which, slot, tableVars, request, ieof, loop,
                   response, budget>>

\* What a constructor, a call or a destructor of mod_py does to the worker
\* where it touches an object that is not there.
ModifierCrashes ==
    /\ \/ /\ place = "create" /\ AtSlot /\ Handler[slot].named
          /\ Handler[slot].handle = "modpy" /\ ConstructCrashes
       \/ place = "call" /\ live = "modpy" /\ RespondCrashes
       \/ place = "destroy" /\ live = "modpy" /\ DestructCrashes
    /\ Crash

\* The response ends the loop: a 200, and in a preview a 204 or a 100.
EndsLoop ==
    response \in
        (IF loop = "modify" THEN {"ok"} ELSE {"ok", "nocontent", "continue"})

AskNext ==
    /\ place = "check" /\ ~EndsLoop
    /\ place' = "create" /\ slot' = slot + 1
    /\ UNCHANGED <<file, wild, which, tableVars, loopVars, budget, pyVars>>

\* A 100 is sent and the rest is read; then all modules are asked again.
ContinueRequest ==
    /\ place = "check" /\ EndsLoop /\ response = "continue"
    /\ ~ieof
    /\ loop' = "modify" /\ response' = "null"
    /\ place' = "create" /\ slot' = 1
    /\ UNCHANGED <<file, wild, which, tableVars, request, ieof, live, budget,
                   pyVars>>

\* No module has said anything to the preview.
PreviewNobody ==
    /\ place = "create" /\ ~AtSlot /\ loop = "preview" /\ response = "null"
    /\ loop' = "modify" /\ slot' = 1
    /\ UNCHANGED <<file, wild, place, which, tableVars, request, ieof, live,
                   response, budget, pyVars>>

\* Mutant: an answer that the modules have given no status for is not counted.
AnswerUncounted ==
    /\ \/ place = "create" /\ ~AtSlot /\ (loop = "preview" => response # "null")
       \/ place = "check" /\ EndsLoop
    /\ slot' = 1
    /\ budget' = (IF response \in {"null", "error"} THEN budget ELSE budget - 1)
    /\ place' = (IF budget' > 0 THEN "serving" ELSE "deleting")
    /\ request' = "OPTIONS" /\ ieof' = FALSE /\ loop' = "preview"
    /\ response' = "null"
    /\ UNCHANGED <<file, wild, which, tableVars, live, pyVars>>

\* The request is answered, by a server error where no response is left, or
\* where a 100 cannot be sent, and what process and its loops had is gone.
Answer ==
    /\ \/ place = "create" /\ ~AtSlot /\ (loop = "preview" => response # "null")
       \/ place = "check" /\ EndsLoop
    /\ slot' = 1 /\ budget' = budget - 1
    /\ place' = (IF budget' > 0 THEN "serving" ELSE "deleting")
    /\ request' = "OPTIONS" /\ ieof' = FALSE /\ loop' = "preview"
    /\ response' = "null"
    /\ UNCHANGED <<file, wild, which, tableVars, live, pyVars>>

-----------------------------------------------------------------------------
(* ~Worker: the handlers are deleted, and close their libraries.            *)

Deleting == Deleted[which]

\* Mutant: a module without a name was not loaded.
ClosedNamed(s) == s.named

\* cleanup_modules closes the handle of every slot.
Closed(s) == s.handle # "NULL"

\* To close a NULL handle is an error in some libraries, and a fault in others.
UnloadModule ==
    /\ place = "deleting" /\ slot <= Len(handlers[Deleting])
    /\ LET s == handlers[Deleting][slot] IN
          opened' = (IF Closed(s) THEN [opened EXCEPT ![s.handle] = @ - 1]
                     ELSE opened)
    /\ slot' = slot + 1
    /\ UNCHANGED <<file, wild, place, which, handlers, methods, loopVars,
                   budget, pyVars>>

UnloadNull ==
    /\ place = "deleting" /\ slot <= Len(handlers[Deleting])
    /\ handlers[Deleting][slot].handle = "NULL"
    /\ Crash

DeleteHandler ==
    /\ place = "deleting" /\ slot > Len(handlers[Deleting])
    /\ handlers' = [handlers EXCEPT ![Deleting] = <<>>]
    /\ slot' = 1
    /\ IF which < Len(Deleted)
       THEN which' = which + 1 /\ UNCHANGED place
       ELSE place' = "ended" /\ UNCHANGED which
    /\ UNCHANGED <<file, wild, opened, methods, loopVars, budget, pyVars>>

-----------------------------------------------------------------------------

Next ==
    \/ LoadModule \/ LoadGarbage \/ MakeHandler
    \/ ReceiveOptions \/ Receive
    \/ SkipModule \/ CreateModifier \/ CallModifier \/ DestroyModifier
    \/ ModifierCrashes \/ AskNext \/ ContinueRequest \/ PreviewNobody \/ Answer
    \/ UnloadModule \/ UnloadNull \/ DeleteHandler

Spec == Init /\ [][Next]_vars

-----------------------------------------------------------------------------
(* Properties.                                                              *)

\* A modifier is only made by a module that the first entry of the method
\* lists, whose library is open and has both symbols. load_modules "FIXME:
\* error handling": a slot that failed keeps its place, its handle and symbols
\* that were never set, and only its empty name keeps the handlers from it.
OnlyLoadedCalled ==
    live # "none" =>
        /\ live \in {"echo", "modpy"} /\ opened[live] > 0
        /\ \E i \in DOMAIN file :
              /\ file[i].handler = request
              /\ \A k \in 1 .. (i - 1) :
                    file[k].handler # request /\ ~Breaks(file[k])
              /\ file[i].class /\ slot \in DOMAIN file[i].modules
              /\ file[i].modules[slot] = live

\* A worker that ends has closed every library as often as it has opened it:
\* those that two handlers share, those that lack a symbol and those without a
\* name.
LibrariesReturned ==
    place = "ended" => \A l \in Libraries : opened[l] = 0

\* The requests that a worker has begun, between two modifiers.
Begun ==
    MaxRequests - budget + (IF place \in {"create", "check"} THEN 1 ELSE 0)

\* Between two modifiers there is no interpreter, and of the references that
\* init_python, python_response, bitz_get_request and cleanup_python take and
\* give back two are wrong, whichever of ScriptKinds the script is and whichever
\* response ends the loop: those to the values in a request's dictionaries
\* (bitz_get_request) are never given back, and that to sys_path, which is
\* only lent, is (init_python). A modifier adds at most one to each count, and
\* a module has at most two modifiers for a request, so max_worker_requests
\* bounds both. The ways on which the worker crashes are not covered.
OnlyKnownLeaks ==
    live = "none" /\ place # "crashed" =>
        /\ ~interpreter /\ ~imported
        /\ \A o \in Objects \ {"pyvalues", "sys_path"} : owned[o] = 0
        /\ owned["pyvalues"] \in 0 .. (2 * MaxModules * Begun)
        /\ -owned["sys_path"] \in 0 .. (2 * MaxModules * Begun)
=============================================================================
