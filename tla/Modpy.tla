------------------------------- MODULE Modpy --------------------------------
(***************************************************************************)
(* The module mod_py (src/modules/modpy): each of its modifiers starts a   *)
(* Python interpreter, imports the configured script, calls it, and ends   *)
(* the interpreter. What is followed is which references the C++ code      *)
(* holds to Python's objects, and where it touches one that is not there.  *)
(*                                                                         *)
(* ModuleTable calls these operations as the request handler does.         *)
(***************************************************************************)
EXTENDS Integers

CONSTANTS
    Scripts,        \* what a script may be like, see ScriptKinds
    PathSettings    \* what the configuration has for module_path

\* A script that cannot be imported; one without init, or whose init raises;
\* without cleanup; without preview or modify; one whose functions get the
\* request and raise, or return something else than a response; and one that
\* does what it should. Who gets the request gets it once.
ScriptKinds ==
    {"absent", "noinit", "nocleanup", "nomethod", "raises", "other", "good"}

ASSUME ModpyAssumption ==
    /\ Scripts \subseteq ScriptKinds
    /\ PathSettings \subseteq {"nomodules", "nomodpy", "novalue", "value"}

VARIABLES
    setting,       \* what the configuration has for module_path
    script,        \* the script, as it was when it was imported
    interpreter,   \* Py_Initialize was called, and not yet Py_Finalize
    imported,      \* _pymodule is not NULL
    owned          \* how many references the code has taken and not given
                   \* back, for each object, since the worker began

pyVars == <<setting, script, interpreter, imported, owned>>

Objects ==
    {"sys_path", "pymodule_path", "pymodule_name", "_pymodule", "pymethod",
     "pyreturn", "pyargs", "pyrequest", "pyresponse", "pypayload", "pyvalues"}

PyTypeOK ==
    /\ setting \in PathSettings
    /\ script \in Scripts \cup {"none"}
    /\ interpreter \in BOOLEAN /\ imported \in BOOLEAN
    /\ owned \in [Objects -> Int]

PyInit ==
    /\ setting \in PathSettings /\ script = "none"
    /\ interpreter = FALSE /\ imported = FALSE
    /\ owned = [o \in Objects |-> 0]

\* The references after a function that has taken some and given some back.
After(taken, given) ==
    [o \in Objects |-> owned[o] + (IF o \in taken THEN 1 ELSE 0)
                                - (IF o \in given THEN 1 ELSE 0)]

\* Config::module_config: an empty string wherever something is missing.
ModulePathSet == setting = "value"

-----------------------------------------------------------------------------

InitTaken ==
    {"pymodule_name"}
        \cup (IF ModulePathSet THEN {"pymodule_path"} ELSE {})
        \cup (IF imported' THEN {"_pymodule", "pymethod", "pyreturn"} ELSE {})

\* sys_path is only lent by PySys_GetObject, and given back all the same.
InitGiven ==
    {"pymodule_name"}
        \cup (IF ModulePathSet THEN {"pymodule_path", "sys_path"} ELSE {})
        \cup (IF imported' THEN {"pymethod", "pyreturn"} ELSE {})

\* Py::Py: load_configs and init_python. An interpreter begins with a path of
\* its own, and reads the script anew.
Construct ==
    /\ \E s \in Scripts \ {"noinit"} : script' = s
    /\ interpreter' = TRUE
    /\ imported' = (script' # "absent")
    /\ owned' = After(InitTaken, InitGiven)
    /\ UNCHANGED setting

\* init_python gives back NULL where init is missing or raises, and two
\* pointers that were never set where no path is configured.
ConstructCrashes == "noinit" \in Scripts \/ ~ModulePathSet

\* The arguments hold the capsule of the request, so they go with it. Mutant:
\* they are not given back.
ResponseGivenButArgs == {"pymethod", "pyrequest", "pyresponse", "pypayload"}

ResponseGiven ==
    {"pymethod", "pyargs", "pyrequest", "pyresponse", "pypayload"}

\* What a call of the script has taken when it returns, with what the
\* interface has: a raised exception leaves no response. "pyvalues" are the
\* strings and the truth value that bitz_get_request makes for its two
\* dictionaries: PyDict_SetItemString takes references of its own, and those
\* that bitz_get_request has are in ResponseGiven for the payload alone.
ResponseTaken ==
    {"pymethod", "pyargs", "pyrequest"}
        \cup (IF script \in {"good", "nocleanup", "other"}
              THEN {"pyresponse"} ELSE {})
        \cup (IF script # "other" THEN {"pypayload", "pyvalues"} ELSE {})

\* python_response: an error where the script is not there, raises or returns
\* something else. The script that comes with the server previews with a 204
\* at the end of the body, or a 100, and modifies with a 200.
Status(method, ieof) ==
    CASE ~imported \/ script \in {"raises", "other"} -> "error"
      [] imported /\ script \in {"good", "nocleanup"} ->
            IF method = "modify" THEN "ok"
            ELSE IF ieof THEN "nocontent" ELSE "continue"

\* python_response, bitz_get_request and the two that make a response.
Respond ==
    /\ ~imported \/ script # "nomethod"
    /\ owned' =
          (IF imported THEN After(ResponseTaken, ResponseTaken \cap ResponseGiven)
           ELSE owned)
    /\ UNCHANGED <<setting, script, interpreter, imported>>

\* A function that is missing is a NULL that is given back.
RespondCrashes == imported /\ script = "nomethod"

\* Py::~Py: cleanup_python.
CleanupTaken == IF imported THEN {"pymethod", "pyreturn"} ELSE {}
CleanupGiven == IF imported THEN {"pymethod", "pyreturn", "_pymodule"} ELSE {}

Destruct ==
    /\ ~imported \/ script # "nocleanup"
    /\ interpreter' = FALSE /\ imported' = FALSE /\ script' = "none"
    /\ owned' = After(CleanupTaken, CleanupGiven)
    /\ UNCHANGED setting

\* Without cleanup a NULL is given back; and Py_Finalize meets a path that
\* init_python has given back once too often, which may go well or not.
DestructCrashes ==
    \/ imported /\ script = "nocleanup"
    \/ owned["sys_path"] < 0
=============================================================================
